---------------------------- MODULE TilckRingbuf ----------------------------
(***************************************************************************)
(* safe_ringbuf.c: a ring buffer without locks.  Both positions and the    *)
(* full flag are one word, changed by compare-and-swap; an element is      *)
(* copied part by part, by a write after its place has been reserved and   *)
(* by a read before it gives the place back.                               *)
(*                                                                         *)
(* One CPU.  A call can be interrupted between any two accesses to memory  *)
(* by a handler that writes, itself interruptible: calls are a stack and   *)
(* only the last one runs.  A read interrupts nothing (a read during a     *)
(* write panics, begin_debug_read_checks).                                 *)
(***************************************************************************)
EXTENDS Integers, Sequences

CONSTANTS
  max_elems,  \* rb->max_elems
  Parts,      \* what is copied at once of an element: 1 .. Parts
  Val,        \* contents of a part
  Depth       \* how deep calls interrupt each other

ASSUME RingbufAssumption ==
  /\ max_elems \in Nat \ {0}
  /\ Parts \in Nat \ {0}
  /\ Depth \in Nat \ {0}

Slot == 0 .. max_elems - 1
Part == 1 .. Parts
Elem == [Part -> Val]
Stat == [read_pos : Slot, write_pos : Slot, full : BOOLEAN]

VARIABLES
  s,      \* rb->s
  buf,    \* rb->buf
  calls,  \* the calls that have begun, the last one running
  ret     \* history: the answer of the last call that took effect
vars == <<s, buf, calls, ret>>

Top == calls[Len(calls)]

\* Wrong: the next position is one further.
UpOff(i) == (i + 1) % (max_elems + 1)

Up(i) == (i + 1) % max_elems

IsEmpty(t) == t.read_pos = t.write_pos /\ ~t.full

Filled(v) == [k \in Part |-> v]
Zero == [read_pos |-> 0, write_pos |-> 0, full |-> FALSE]

Begun(op, v) ==
  [op |-> op, pc |-> "load", elem |-> Filled(v), part |-> 1, cs |-> Zero, ns |-> Zero]

\* safe_ringbuf_write_elem, from a thread or a handler
BeginWrite(v) ==
  /\ Len(calls) < Depth
  /\ calls' = Append(calls, Begun("write", v))
  /\ UNCHANGED <<s, buf, ret>>

\* safe_ringbuf_read_elem; v: what the caller's variable held
BeginRead(v) ==
  /\ calls = <<>>
  /\ calls' = <<Begun("read", v)>>
  /\ UNCHANGED <<s, buf, ret>>

Running(op, pc) == calls # <<>> /\ Top.op = op /\ Top.pc = pc
Continue(f)     == calls' = [calls EXCEPT ![Len(calls)] = f]
Return          == calls' = SubSeq(calls, 1, Len(calls) - 1)

Failed(op) == [call |-> op, ok |-> FALSE]

\* cs.__raw = rb->s.__raw, and the end of a call that finds the buffer full
\* or empty there: the second load tells it nothing.
Load(op) ==
  /\ Running(op, "load")
  /\ IF (op = "write" /\ s.full) \/ (op = "read" /\ IsEmpty(s))
     THEN Return /\ ret' = Failed(op)
     ELSE /\ Continue([Top EXCEPT !.cs = s, !.pc = "again"])
          /\ UNCHANGED ret
  /\ UNCHANGED <<s, buf>>

\* ns.__raw = rb->s.__raw: the word may have changed since.
LoadAgain(op) ==
  /\ Running(op, "again")
  /\ Continue([Top EXCEPT !.ns = s, !.part = 1, !.pc = IF op = "write" THEN "cas" ELSE "copy"])
  /\ UNCHANGED <<s, buf, ret>>

\* Wrong: the full flag is forgotten.
WrittenNotFull(t) == [t EXCEPT !.write_pos = Up(@)]

Written(t) ==
  [t EXCEPT !.write_pos = Up(@), !.full = t.full \/ Up(t.write_pos) = t.read_pos]

Consumed(t) == [t EXCEPT !.read_pos = Up(@), !.full = FALSE]

\* Wrong: the exchange is a plain store.
AlwaysWins(f) == TRUE

\* atomic_cas_weak succeeds only if the word is cs.
Wins(f) == s = f.cs

\* ... and may fail though it is; the loop loads both again.
CasFails(op) ==
  /\ Running(op, "cas")
  /\ Continue([Top EXCEPT !.pc = "load", !.cs = Zero, !.ns = Zero])
  /\ UNCHANGED <<s, buf, ret>>

CasWrite ==
  /\ Running("write", "cas") /\ Wins(Top)
  /\ s' = Written(Top.ns)
  /\ Continue([Top EXCEPT !.pc = "copy", !.ns = Zero])
  /\ ret' = [call |-> "write", ok |-> TRUE, was_empty |-> IsEmpty(Top.cs)]
  /\ UNCHANGED buf

CasRead ==
  /\ Running("read", "cas") /\ Wins(Top)
  /\ s' = Consumed(Top.ns)
  /\ Return
  /\ ret' = [call |-> "read", ok |-> TRUE, elem |-> Top.elem]
  /\ UNCHANGED buf

\* The copy of an element to its place, after which the call returns.
CopyIn ==
  /\ Running("write", "copy")
  /\ buf' = [buf EXCEPT ![Top.cs.write_pos][Top.part] = Top.elem[Top.part]]
  /\ IF Top.part = Parts THEN Return ELSE Continue([Top EXCEPT !.part = @ + 1])
  /\ UNCHANGED <<s, ret>>

\* The copy of the oldest element.
CopyOut ==
  /\ Running("read", "copy")
  /\ Continue([Top EXCEPT !.elem[Top.part] = buf[Top.cs.read_pos][Top.part],
                          !.part = IF @ = Parts THEN 1 ELSE @ + 1,
                          !.pc = IF Top.part = Parts THEN "cas" ELSE "copy"])
  /\ UNCHANGED <<s, buf, ret>>

Step ==
  \/ \E op \in {"write", "read"} : Load(op) \/ LoadAgain(op) \/ CasFails(op)
  \/ CasWrite \/ CasRead \/ CopyIn \/ CopyOut

Init ==
  /\ s = Zero
  /\ buf \in [Slot -> {Filled(v) : v \in Val}]
  /\ calls = <<>>
  /\ ret = [call |-> "none"]

Next ==
  \/ \E v \in Val : BeginWrite(v) \/ BeginRead(v)
  \/ Step

Spec == Init /\ [][Next]_vars

\* A call goes on whenever interrupts let it, however often they come, and
\* an exchange that would succeed does not fail for ever.
GoesOn(d) ==
  Len(calls) = d /\ \E op \in {"write", "read"} :
    \/ Load(op) \/ LoadAgain(op) \/ (~Wins(Top) /\ CasFails(op))
    \/ CopyIn \/ CopyOut
CasSucceeds(d) == Len(calls) = d /\ (CasWrite \/ CasRead)

FairSpec == Spec /\ \A d \in 1 .. Depth : SF_vars(GoesOn(d)) /\ SF_vars(CasSucceeds(d))

-----------------------------------------------------------------------------
Pcs == {"load", "again", "cas", "copy"}
Call == [op : {"write", "read"}, pc : Pcs, elem : Elem, part : Part, cs : Stat, ns : Stat]

\* The types; a read is never on top of another call.
TypeOK ==
  /\ s \in Stat
  /\ buf \in [Slot -> Elem]
  /\ calls \in Seq(Call) /\ Len(calls) <= Depth
  /\ \A i \in 2 .. Len(calls) : calls[i].op = "write"

\* The place a call copies to or from.
HasPlace(f) == f.pc = "copy" \/ (f.op = "read" /\ f.pc = "cas")
Place(f)    == IF f.op = "write" THEN f.cs.write_pos ELSE f.cs.read_pos

\* Writes that interrupt one another, and the read they interrupt, copy to
\* and from different places, also when the positions go round.
PlacesApart == \A i, j \in DOMAIN calls :
  i # j /\ HasPlace(calls[i]) /\ HasPlace(calls[j]) => Place(calls[i]) # Place(calls[j])

\* The buffer as its users see it: an element whose copy is still going on
\* counts as written.
Dist(a, b) == IF a <= b THEN b - a ELSE b - a + max_elems
Count(t)   == IF t.full THEN max_elems ELSE Dist(t.read_pos, t.write_pos)
Nth(i)     == IF s.read_pos + i - 1 < max_elems THEN s.read_pos + i - 1
                                                ELSE s.read_pos + i - 1 - max_elems
Copies(i)  == calls[i].op = "write" /\ calls[i].pc = "copy"
Copying(p) == {i \in DOMAIN calls : Copies(i) /\ Place(calls[i]) = p}
Content(p) == IF Copying(p) = {} THEN buf[p] ELSE calls[CHOOSE i \in Copying(p) : TRUE].elem
Queue      == [i \in 1 .. Count(s) |-> Content(Nth(i))]

\* Each call does at once what it would do to a queue: no element is lost,
\* torn, read twice or out of order, and only the write that finds the queue
\* empty is told so.
Ring == INSTANCE RingQueue WITH q <- Queue
ImplementsRingQueue == Ring!Spec

\* Every call returns, however many handlers write while it runs: they fill
\* the buffer, and then they change nothing.
CallsReturn == calls # <<>> ~> calls = <<>>
=============================================================================

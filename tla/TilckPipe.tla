----------------------------- MODULE TilckPipe -----------------------------
(***************************************************************************)
(* One pipe of the Tilck kernel (override/kernel/pipe.c) and the processes *)
(* that have its ends open.  A call is cut where another process can run:  *)
(* waiting for the pipe's mutex, between the test of the loop and the      *)
(* sleep, asleep, woken but without the mutex, and on the way out.         *)
(* kmutex, kcond and the ring buffer are not in the repository: a mutex    *)
(* excludes, kcond_wait releases the mutex and joins the waiters in one    *)
(* step, a signal removes one waiter or all.                               *)
(***************************************************************************)
EXTENDS Integers, Sequences, FiniteSets

CONSTANTS
  Task,            \* process slots
  PIPE_BUF_SIZE,
  Sizes,           \* byte counts of the calls on each end
  NonBlockable,    \* the ends whose O_NONBLOCK F_SETFL may change
  Killable,        \* the processes that may get a terminating signal
  Stoppable,       \* the processes that may get SIGSTOP
  InitFds,         \* the ends each process may have open at the start
  Spare,           \* the slots fork may fill
  None

End == {"r", "w"}

ASSUME PipeAssumption ==
  /\ IsFiniteSet(Task)
  /\ PIPE_BUF_SIZE \in Nat \ {0}
  /\ Sizes \in [End -> SUBSET (Nat \ {0})]
  /\ NonBlockable \subseteq End
  /\ Killable \subseteq Task /\ Stoppable \subseteq Task /\ Spare \subseteq Task
  /\ InitFds \subseteq [Task -> SUBSET End]
  /\ None \notin Task /\ None \notin Int

VARIABLES
  buf,        \* the ring buffer
  handles,    \* read_handles and write_handles
  refs,       \* h_refs of the two open file descriptions
  nonblock,   \* O_NONBLOCK of their fl_flags
  owner,      \* the holder of p->mutex
  notEmpty,   \* the waiters of not_empty_cond
  notFull,    \* the waiters of not_full_cond
  fds,        \* the ends each process has open
  pc,         \* where each process is
  op,         \* the call it is in
  pending,    \* it has an unmasked signal pending
  stopped,    \* SIGSTOP reached it (TASK_STATE_STOPPED, or stop_pending)
  last        \* history: the last byte read

vars == <<buf, handles, refs, nonblock, owner, notEmpty, notFull, fds, pc, op,
          pending, stopped, last>>
ends == <<handles, refs, nonblock, fds>>

EINTR  == -4
EAGAIN == -11
EPIPE  == -32

\* Wrong: the ring buffer takes one byte more than its size.
OneTooMany == PIPE_BUF_SIZE + 1 - Len(buf)
Free == PIPE_BUF_SIZE - Len(buf)
Less(a, b) == IF a < b THEN a ELSE b

NoCall == [end |-> "r", n |-> 0, done |-> 0, rc |-> None]

\* One waiter of a condition, or nobody when nobody waits.
OneOf(S) == IF S = {} THEN {{}} ELSE {{x} : x \in S}

\* Process t goes to s, the tasks in W are woken and leave the conditions.
Step(t, s, W) ==
  /\ pc' = [x \in Task |-> IF x = t THEN s ELSE IF x \in W THEN "woken" ELSE pc[x]]
  /\ notEmpty' = notEmpty \ W
  /\ notFull' = notFull \ W

At(t, s) == pc[t] = s /\ ~stopped[t]
Alive(t) == pc[t] \notin {"unborn", "dead"}

-----------------------------------------------------------------------------
\* A read or write system call on an end the process has open.
Call(t, e, n) ==
  /\ At(t, "user") /\ ~pending[t] /\ e \in fds[t]
  /\ op' = [op EXCEPT ![t] = [end |-> e, n |-> n, done |-> 0, rc |-> None]]
  /\ Step(t, "lock", {})
  /\ UNCHANGED <<buf, owner, pending, stopped, last, ends>>

Lock(t) ==
  /\ At(t, "lock") /\ owner = None
  /\ owner' = t
  /\ Step(t, "loop", {})
  /\ UNCHANGED <<buf, op, pending, stopped, last, ends>>

Answer(t, rc) == op' = [op EXCEPT ![t].rc = rc] /\ Step(t, "exit", {})
\* Wrong: the reason wins over bytes already written.
EndedAnyway(t, rc) == rc
\* Bytes already written win over the reason the call ends.
Ended(t, rc) == IF op[t].done > 0 THEN op[t].done ELSE rc

\* Wrong: O_NONBLOCK is looked at before the writers are counted.
FlagBeforeWriters(t) ==
  LET k == Less(op[t].n, Len(buf))
  IN
  /\ At(t, "loop") /\ op[t].end = "r"
  /\ \/ /\ k > 0
        /\ buf' = SubSeq(buf, k + 1, Len(buf))
        /\ last' = buf[k]
        /\ Answer(t, k)
     \/ k = 0 /\ nonblock["r"] /\ Answer(t, EAGAIN) /\ UNCHANGED <<buf, last>>
     \/ k = 0 /\ ~nonblock["r"] /\ handles["w"] = 0 /\ Answer(t, 0) /\ UNCHANGED <<buf, last>>
     \/ k = 0 /\ ~nonblock["r"] /\ handles["w"] # 0 /\ Step(t, "wait", {})
        /\ UNCHANGED <<buf, last, op>>
  /\ UNCHANGED <<owner, pending, stopped, ends>>

\* One round of the loop of pipe_read.
ReadLoop(t) ==
  LET k == Less(op[t].n, Len(buf))
  IN
  /\ At(t, "loop") /\ op[t].end = "r"
  /\ \/ /\ k > 0
        /\ buf' = SubSeq(buf, k + 1, Len(buf))
        /\ last' = buf[k]
        /\ Answer(t, k)
     \/ k = 0 /\ handles["w"] = 0 /\ Answer(t, 0) /\ UNCHANGED <<buf, last>>
     \/ k = 0 /\ handles["w"] # 0 /\ nonblock["r"] /\ Answer(t, EAGAIN)
        /\ UNCHANGED <<buf, last>>
     \/ k = 0 /\ handles["w"] # 0 /\ ~nonblock["r"] /\ Step(t, "wait", {})
        /\ UNCHANGED <<buf, last, op>>
  /\ UNCHANGED <<owner, pending, stopped, ends>>

Atomic(t) == op[t].n <= PIPE_BUF_SIZE
\* Wrong (Tilck before the override): a write puts in what fits.
AnythingFits(t) == Free >= 0
Fits(t) == ~Atomic(t) \/ Free >= op[t].n
Piece(t, k) == [i \in 1..k |-> [by |-> t, i |-> op[t].done + i, n |-> op[t].n]]

\* One round of the loop of pipe_write, in its three ways out of the round:
\* no reader is left; all the bytes are in; some bytes are still to come.
WriteBroken(t) ==
  /\ handles["r"] = 0
  /\ pending' = [pending EXCEPT ![t] = TRUE]        \* SIGPIPE
  /\ Answer(t, Ended(t, EPIPE))
  /\ UNCHANGED buf

WriteAll(t) ==
  LET k == op[t].n - op[t].done IN
  /\ handles["r"] # 0 /\ Fits(t) /\ k <= Free
  /\ buf' = buf \o Piece(t, k)
  /\ op' = [op EXCEPT ![t].done = op[t].n, ![t].rc = op[t].n]
  /\ Step(t, "exit", {})
  /\ UNCHANGED pending

WriteSome(t) ==
  LET k    == IF Fits(t) THEN Free ELSE 0
      done == op[t].done + k
  IN /\ handles["r"] # 0 /\ ~(Fits(t) /\ op[t].n - op[t].done <= Free)
     /\ buf' = buf \o Piece(t, k)
     /\ op' = [op EXCEPT ![t].done = done, ![t].rc =
                 IF ~nonblock["w"] THEN None ELSE IF done > 0 THEN done ELSE EAGAIN]
     /\ \E W \in IF Fits(t) /\ done > 0 THEN OneOf(notEmpty) ELSE {{}} :
          Step(t, IF nonblock["w"] THEN "exit" ELSE "wait", W)
     /\ UNCHANGED pending

WriteLoop(t) ==
  /\ At(t, "loop") /\ op[t].end = "w"
  /\ WriteBroken(t) \/ WriteAll(t) \/ WriteSome(t)
  /\ UNCHANGED <<owner, stopped, last, ends>>

\* kcond_wait: the mutex is released and the task joins the waiters.
Wait(t) ==
  /\ At(t, "wait")
  /\ owner' = None
  /\ pc' = [pc EXCEPT ![t] = "asleep"]
  /\ notEmpty' = IF op[t].end = "r" THEN notEmpty \cup {t} ELSE notEmpty
  /\ notFull' = IF op[t].end = "w" THEN notFull \cup {t} ELSE notFull
  /\ UNCHANGED <<buf, op, pending, stopped, last, ends>>

\* ... and takes it again when woken; a pending signal ends the call.
Relock(t) ==
  /\ At(t, "woken") /\ owner = None
  /\ owner' = t
  /\ IF pending[t] THEN Answer(t, Ended(t, EINTR))
                   ELSE Step(t, "loop", {}) /\ UNCHANGED op
  /\ UNCHANGED <<buf, pending, stopped, last, ends>>

\* Wrong: one writer is woken (Tilck before the override); no reader is;
\* a write wakes nobody.
OneWriter   == {V \cup W : V \in OneOf(notFull),
                           W \in IF buf = <<>> THEN {{}} ELSE OneOf(notEmpty)}
NoReader    == {notFull}
Nobody      == {{}}
\* The tails of pipe_read and pipe_write.
WokenByRead  == {notFull \cup W : W \in IF buf = <<>> THEN {{}} ELSE OneOf(notEmpty)}
WokenByWrite == {V \cup W : V \in OneOf(notEmpty),
                            W \in IF Free = 0 THEN {{}} ELSE OneOf(notFull)}
Finish(t) ==
  /\ At(t, "exit")
  /\ owner' = None
  /\ \E W \in IF op[t].end = "r" THEN WokenByRead ELSE WokenByWrite :
       Step(t, "user", W)
  /\ op' = [op EXCEPT ![t] = NoCall]
  /\ UNCHANGED <<buf, pending, stopped, last, ends>>

-----------------------------------------------------------------------------
\* vfs_close gives up one reference; the last one goes on to
\* pipe_on_handle_close.
Close(t, e) ==
  /\ At(t, "user") /\ e \in fds[t]
  /\ refs' = [refs EXCEPT ![e] = @ - 1]
  /\ IF refs[e] > 1
     THEN fds' = [fds EXCEPT ![t] = @ \ {e}] /\ UNCHANGED pc
     ELSE pc' = [pc EXCEPT ![t] = "close"] /\ UNCHANGED fds
  /\ UNCHANGED <<buf, handles, nonblock, owner, notEmpty, notFull, op, pending, stopped, last>>

\* Wrong: the last close wakes nobody.
CloseLastQuiet(t, e) ==
  /\ At(t, "close") /\ e \in fds[t] /\ refs[e] = 0
  /\ owner = None
  /\ handles' = [handles EXCEPT ![e] = @ - 1]
  /\ Step(t, "user", {})
  /\ fds' = [fds EXCEPT ![t] = @ \ {e}]
  /\ UNCHANGED <<buf, refs, nonblock, owner, op, pending, stopped, last>>

\* pipe_on_handle_close: the count and the wake-ups change under the mutex.
CloseLast(t, e) ==
  /\ At(t, "close") /\ e \in fds[t] /\ refs[e] = 0
  /\ owner = None
  /\ handles' = [handles EXCEPT ![e] = @ - 1]
  /\ Step(t, "user", IF handles[e] = 1 THEN notEmpty \cup notFull ELSE {})
  /\ fds' = [fds EXCEPT ![t] = @ \ {e}]
  /\ UNCHANGED <<buf, refs, nonblock, owner, op, pending, stopped, last>>

\* Wrong: the child's descriptors are not counted.
ForkUncounted(t, u) ==
  /\ At(t, "user") /\ ~pending[t] /\ u \in Spare /\ pc[u] = "unborn"
  /\ fds' = [fds EXCEPT ![u] = fds[t]]
  /\ pc' = [pc EXCEPT ![u] = "user"]
  /\ UNCHANGED <<buf, handles, refs, nonblock, owner, notEmpty, notFull, op, pending,
                 stopped, last>>

\* fork_dup_all_handles: the child shares the open file descriptions.
Fork(t, u) ==
  /\ At(t, "user") /\ ~pending[t] /\ u \in Spare /\ pc[u] = "unborn"
  /\ refs' = [e \in End |-> IF e \in fds[t] THEN refs[e] + 1 ELSE refs[e]]
  /\ fds' = [fds EXCEPT ![u] = fds[t]]
  /\ pc' = [pc EXCEPT ![u] = "user"]
  /\ UNCHANGED <<buf, handles, nonblock, owner, notEmpty, notFull, op, pending,
                 stopped, last>>

\* fcntl(F_SETFL) changes the flags of the description, for all its fds.
SetFl(t, e) ==
  /\ At(t, "user") /\ ~pending[t] /\ e \in fds[t] /\ e \in NonBlockable
  /\ nonblock' = [nonblock EXCEPT ![e] = ~@]
  /\ UNCHANGED <<buf, handles, refs, owner, notEmpty, notFull, fds, pc, op,
                 pending, stopped, last>>

\* A process is gone once it has closed what it had open.
Die(t) ==
  /\ At(t, "user") /\ fds[t] = {}
  /\ pc' = [pc EXCEPT ![t] = "dead"]
  /\ UNCHANGED <<buf, owner, notEmpty, notFull, op, pending, stopped, last, ends>>

-----------------------------------------------------------------------------
\* action_terminate and signal_wakeup_task: a task asleep on a condition is
\* woken, one that waits for a mutex or runs only finds the signal pending.
Kill(t) ==
  /\ t \in Killable /\ Alive(t) /\ ~pending[t]
  /\ pending' = [pending EXCEPT ![t] = TRUE]
  /\ stopped' = [stopped EXCEPT ![t] = FALSE]
  /\ Step(t, IF pc[t] = "asleep" THEN "woken" ELSE pc[t],
          IF pc[t] = "asleep" THEN {t} ELSE {})
  /\ UNCHANGED <<buf, owner, op, last, ends>>

\* A handler takes the signal.  (A process without one closes and dies.)
Handler(t) ==
  /\ At(t, "user") /\ pending[t]
  /\ pending' = [pending EXCEPT ![t] = FALSE]
  /\ UNCHANGED <<buf, owner, notEmpty, notFull, pc, op, stopped, last, ends>>

\* action_stop: a sleeper stays among the waiters and stops when it is woken.
Stop(t) ==
  /\ t \in Stoppable /\ Alive(t) /\ ~stopped[t]
  /\ stopped' = [stopped EXCEPT ![t] = TRUE]
  /\ UNCHANGED <<buf, owner, notEmpty, notFull, pc, op, pending, last, ends>>

\* action_continue
Continue(t) ==
  /\ stopped[t]
  /\ stopped' = [stopped EXCEPT ![t] = FALSE]
  /\ UNCHANGED <<buf, owner, notEmpty, notFull, pc, op, pending, last, ends>>

-----------------------------------------------------------------------------
Holders(e) == {t \in Task : e \in fds[t]}

Init ==
  /\ buf = <<>>
  /\ fds \in InitFds
  /\ handles = [e \in End |-> IF Holders(e) = {} THEN 0 ELSE 1]
  /\ refs = [e \in End |-> Cardinality(Holders(e))]
  /\ nonblock = [e \in End |-> FALSE]
  /\ owner = None /\ notEmpty = {} /\ notFull = {}
  /\ pc = [t \in Task |-> IF fds[t] = {} THEN "unborn" ELSE "user"]
  /\ op = [t \in Task |-> NoCall]
  /\ pending = [t \in Task |-> FALSE]
  /\ stopped = [t \in Task |-> FALSE]
  /\ last = None

Inside(t) == ReadLoop(t) \/ WriteLoop(t) \/ Wait(t) \/ Finish(t)
Acquire(t) == Lock(t) \/ Relock(t) \/ \E e \in End : CloseLast(t, e)

\* destroy_pipe: nobody is left to use it.
Gone == (\A t \in Task : ~Alive(t)) /\ UNCHANGED vars

Next ==
  \/ \E t \in Task :
       \/ \E e \in End : Close(t, e) \/ SetFl(t, e) \/ \E n \in Sizes[e] : Call(t, e, n)
       \/ Inside(t) \/ Acquire(t)
       \/ \E u \in Task : Fork(t, u)
       \/ Die(t) \/ Kill(t) \/ Handler(t) \/ Stop(t) \/ Continue(t)
  \/ Gone

Spec == Init /\ [][Next]_vars

\* The scheduler runs every runnable task again and again, and whoever waits
\* for a mutex that keeps becoming free gets it.
FairSpec == Spec /\ \A t \in Task : WF_vars(Inside(t)) /\ SF_vars(Acquire(t))

-----------------------------------------------------------------------------
Byte == [by: Task, i: Nat, n: Nat]
Request == [end: End, n: Nat, done: Nat, rc: Int \cup {None}]
PC == {"user", "lock", "loop", "wait", "asleep", "woken", "exit", "close", "unborn", "dead"}

TypeOK ==
  /\ buf \in Seq(Byte) /\ Len(buf) <= PIPE_BUF_SIZE
  /\ handles \in [End -> Nat] /\ refs \in [End -> Nat]
  /\ nonblock \in [End -> BOOLEAN]
  /\ owner \in Task \cup {None}
  /\ notEmpty \subseteq Task /\ notFull \subseteq Task
  /\ fds \in [Task -> SUBSET End]
  /\ pc \in [Task -> PC]
  /\ op \in [Task -> Request]
  /\ pending \in [Task -> BOOLEAN] /\ stopped \in [Task -> BOOLEAN]
  /\ last \in Byte \cup {None}

InCall(t, e) == op[t].end = e /\ pc[t] \in PC \ {"user", "close", "unborn", "dead"}

\* No wake-up of a writer is ever lost: whenever the mutex is free, no writer
\* sleeps that would find room for what it waits to write, or no reader left.
\* (pipe_read's signal_all and the "whole of an atomic write" rule together.)
CanWrite(t) == handles["r"] = 0 \/ (Fits(t) /\ Free > 0)
WriterNotForgotten == owner = None => \A t \in notFull : ~CanWrite(t)

\* Readers are woken one at a time, and the chain never breaks: while there is
\* something to read and a reader sleeps, some other reader is on its way and
\* will pass the wake-up on; after the last writer no reader sleeps at all.
ReaderNotForgotten ==
  owner = None /\ notEmpty # {} =>
    /\ handles["w"] # 0
    /\ buf # <<>> => \E t \in Task : pc[t] = "woken" /\ op[t].end = "r"

\* The bytes of an atomic write stay together in the order written, in the
\* buffer and across a read that stops inside them.
Next2(x, y) == /\ x.n <= PIPE_BUF_SIZE /\ x.i < x.n => y = [x EXCEPT !.i = @ + 1]
               /\ y.n <= PIPE_BUF_SIZE /\ y.i > 1 => x = [y EXCEPT !.i = @ - 1]
AtomicWrites ==
  LET s == IF last = None THEN buf ELSE <<last>> \o buf IN
  /\ \A i \in 1..(Len(s) - 1) : Next2(s[i], s[i + 1])
  /\ s # <<>> => LET x == s[Len(s)] IN x.n <= PIPE_BUF_SIZE => x.i = x.n

\* An end counts as open exactly while some process has it open, whatever forks
\* and closes happened: a leaked count would mean no end of file, a lost one a
\* false end of file, and a freed handle under a blocked call.
EndsCountHolders ==
  \A e \in End :
    /\ handles[e] = IF Holders(e) = {} THEN 0 ELSE 1
    /\ \/ refs[e] = Cardinality(Holders(e))
       \/ refs[e] = 0 /\ \E t \in Task : Holders(e) = {t} /\ pc[t] = "close"
    /\ \A t \in Task : InCall(t, e) => e \in fds[t]

\* The rest of the inductive invariant: who holds the mutex and who waits where;
\* what a task about to sleep has seen still holds; the two properties above
\* also while the mutex is held, when the holder is still to pass the wake-up on.
Mutex == \A t \in Task : (pc[t] \in {"loop", "wait", "exit"}) <=> (owner = t)
Waiters ==
  \A t \in Task :
    /\ t \in notEmpty <=> (pc[t] = "asleep" /\ op[t].end = "r")
    /\ t \in notFull <=> (pc[t] = "asleep" /\ op[t].end = "w")
AboutToSleep == \A t \in Task : pc[t] = "wait" =>
  IF op[t].end = "r" THEN buf = <<>> /\ handles["w"] # 0 ELSE ~CanWrite(t)
WritersServed == \A t \in notFull : CanWrite(t) =>
  \E u \in Task : pc[u] = "exit" /\ op[u].end = "r"
ReadersServed == notEmpty # {} =>
  /\ handles["w"] # 0
  /\ buf # <<>> => \E t \in Task :
       \/ pc[t] \in {"woken", "loop"} /\ op[t].end = "r"
       \/ pc[t] = "exit"
OneClose == \A t \in Task :
  /\ pc[t] \in {"unborn", "dead"} => fds[t] = {}
  /\ fds[t] = End => \E e \in End : refs[e] # 0
Asking == \A t \in Task, e \in End : InCall(t, e) => op[t].n > 0
PipeInv == /\ TypeOK /\ Mutex /\ Waiters /\ Asking /\ AboutToSleep
           /\ WritersServed /\ ReadersServed /\ EndsCountHolders /\ OneClose

\* A reader gets end of file once the last writer has closed.
EndOfFile == \A t \in Task :
  InCall(t, "r") /\ handles["w"] = 0 ~> ~InCall(t, "r")

\* A blocked writer learns that the last reader has closed.
BrokenPipe == \A t \in Task :
  InCall(t, "w") /\ handles["r"] = 0 ~> ~InCall(t, "w")

\* A reader and a writer are never both blocked for good.
Exchange == \A t, u \in Task :
  InCall(t, "r") /\ InCall(u, "w") ~> ~InCall(t, "r") \/ ~InCall(u, "w")

\* signal.c: "if a task is waiting on a condition [...] we HAVE to wake it up".
SignalWakes == \A t \in Task : pc[t] = "asleep" => ~pending[t]

-----------------------------------------------------------------------------
\* What the processes see of it is one queue of bytes.
PS == INSTANCE PipeStream WITH
  q    <- buf,
  open <- {e \in End : handles[e] # 0},
  call <- op

ImplementsPipeStream == PS!Spec
=============================================================================

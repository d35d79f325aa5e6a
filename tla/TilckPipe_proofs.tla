-------------------------- MODULE TilckPipe_proofs --------------------------
(***************************************************************************)
(* Theorems about TilckPipe: for any number of processes, any buffer size  *)
(* and any calls, forks, closes, signals and stops, no wake-up is lost and *)
(* an end counts as open exactly while somebody has it open; the processes *)
(* see a PipeStream, and an atomic write stays in one piece.               *)
(***************************************************************************)
EXTENDS TilckPipe, FiniteSetTheorems, SequenceTheorems, TLAPS

USE DEF End

LEMMA OneOfWaits ==
  ASSUME NEW S, NEW W \in OneOf(S)
  PROVE  W \subseteq S /\ (S # {} => W # {})
BY DEF OneOf

\* What a step of process t does to the others: it wakes those in W at most.
LEMMA StepMoves ==
  ASSUME PipeInv, NEW t \in Task, NEW s \in PC, NEW W,
         W \subseteq notEmpty \cup notFull,
         pc[t] # "asleep", s # "asleep", Step(t, s, W),
         \A x \in Task : x # t => op'[x] = op[x]
  PROVE  /\ pc' \in [Task -> PC] /\ pc'[t] = s
         /\ \A x \in Task : x # t =>
              pc'[x] = IF x \in W THEN "woken" ELSE pc[x]
         /\ \A x \in Task : x \in W => x # t /\ pc[x] = "asleep"
         /\ notEmpty' = notEmpty \ W /\ notFull' = notFull \ W
         /\ notEmpty' \subseteq Task /\ notFull' \subseteq Task
         /\ Waiters'
<1>1. TypeOK /\ Waiters
  BY DEF PipeInv
<1>2. \A x \in Task : x \in W => x # t /\ pc[x] = "asleep"
  BY <1>1 DEF Waiters
<1>3. /\ pc' \in [Task -> PC] /\ pc'[t] = s
      /\ \A x \in Task : x # t => pc'[x] = IF x \in W THEN "woken" ELSE pc[x]
      /\ notEmpty' = notEmpty \ W /\ notFull' = notFull \ W
      /\ notEmpty' \subseteq Task /\ notFull' \subseteq Task
  <2>1. pc \in [Task -> PC] /\ notEmpty \subseteq Task /\ notFull \subseteq Task
    BY <1>1 DEF TypeOK
  <2>2. pc' = [x \in Task |-> IF x = t THEN s ELSE IF x \in W THEN "woken" ELSE pc[x]]
        /\ notEmpty' = notEmpty \ W /\ notFull' = notFull \ W
    BY DEF Step
  <2>3. "woken" \in PC
    BY DEF PC
  <2>. QED  BY <2>1, <2>2, <2>3
<1>4. Waiters'
  BY <1>1, <1>2, <1>3 DEF Waiters
<1>. QED  BY <1>2, <1>3, <1>4

LEMMA StepAlone ==
  ASSUME PipeInv, NEW t \in Task, NEW s \in PC,
         pc[t] # "asleep", s # "asleep", Step(t, s, {}),
         \A x \in Task : x # t => op'[x] = op[x]
  PROVE  /\ pc' \in [Task -> PC] /\ pc'[t] = s
         /\ \A x \in Task : x # t => pc'[x] = pc[x]
         /\ notEmpty' = notEmpty /\ notFull' = notFull
         /\ Waiters'
<1>. DEFINE W == {}
<1>1. /\ pc' \in [Task -> PC] /\ pc'[t] = s
      /\ \A x \in Task : x # t => pc'[x] = IF x \in W THEN "woken" ELSE pc[x]
      /\ notEmpty' = notEmpty \ W /\ notFull' = notFull \ W /\ Waiters'
  <2>1. W \subseteq notEmpty \cup notFull /\ Step(t, s, W)
    OBVIOUS
  <2>. HIDE DEF W
  <2>. QED  BY <2>1, StepMoves
<1>. QED  BY <1>1

\* Steps that leave the ends alone.
LEMMA EndsSame ==
  ASSUME PipeInv, UNCHANGED ends, pc' \in [Task -> PC],
         \A x \in Task : pc[x] = "close" => pc'[x] = "close",
         \A x \in Task : pc'[x] \in {"unborn", "dead"} => fds[x] = {},
         \A x \in Task, e \in End : InCall(x, e)' => e \in fds[x]
  PROVE  EndsCountHolders' /\ OneClose'
<1>1. fds' = fds /\ refs' = refs /\ handles' = handles
  BY DEF ends
<1>2. \A e \in End : Holders(e)' = Holders(e)
  BY <1>1 DEF Holders
<1>3. EndsCountHolders'
  <2>1. EndsCountHolders
    BY DEF PipeInv
  <2>. QED  BY <1>1, <1>2, <2>1 DEF EndsCountHolders
<1>4. OneClose'
  BY <1>1 DEF PipeInv, OneClose
<1>. QED  BY <1>3, <1>4

\* Steps of one process that move no bytes, wake nobody and leave the ends
\* alone: what it owes to the sleepers it still owes, or there is nothing to read.
LEMMA NoBytesMove ==
  ASSUME PipeInv, NEW t \in Task,
         UNCHANGED <<buf, last, notEmpty, notFull, ends>>,
         owner' \in Task \cup {None}, op' \in [Task -> Request], pc' \in [Task -> PC],
         pending' \in [Task -> BOOLEAN], stopped' \in [Task -> BOOLEAN],
         \A x \in Task : x # t => pc'[x] = pc[x] /\ op'[x] = op[x],
         Waiters', Mutex',
         pc[t] = "asleep" => op'[t] = op[t],
         pc'[t] = "wait" =>
           IF op'[t].end = "r" THEN buf = <<>> /\ handles["w"] # 0 ELSE ~CanWrite(t)',
         pc[t] = "exit" => pc'[t] = "exit" /\ op'[t].end = op[t].end,
         pc[t] \in {"woken", "loop"} /\ op[t].end = "r" /\ buf # <<>> =>
           \/ pc'[t] \in {"woken", "loop"} /\ op'[t].end = "r"
           \/ pc'[t] = "exit",
         pc[t] = "close" => pc'[t] = "close",
         pc'[t] \in {"unborn", "dead"} => fds[t] = {},
         \A e \in End : InCall(t, e)' => e \in fds[t] /\ op'[t].n > 0
  PROVE  PipeInv'
<1>1. TypeOK /\ Waiters /\ AboutToSleep /\ WritersServed /\ ReadersServed
      /\ EndsCountHolders /\ OneClose
  BY DEF PipeInv
<1>2. UNCHANGED <<handles, refs, nonblock, fds>>
  BY DEF ends
<1>3. TypeOK'
  BY <1>1, <1>2 DEF TypeOK
<1>4. \A x \in Task : op'[x] = op[x] => CanWrite(x)' = CanWrite(x)
  BY <1>2 DEF CanWrite, Fits, Atomic, Free
<1>5. AboutToSleep'
  <2>1. ASSUME NEW x \in Task, pc'[x] = "wait", x # t
        PROVE  IF op'[x].end = "r" THEN buf = <<>> /\ handles["w"] # 0 ELSE ~CanWrite(x)'
    BY <1>1, <1>4, <2>1 DEF AboutToSleep
  <2>. QED  BY <1>2, <2>1 DEF AboutToSleep
<1>6. WritersServed'
  <2>1. ASSUME NEW x \in notFull, CanWrite(x)'
        PROVE  \E u \in Task : pc'[u] = "exit" /\ op'[u].end = "r"
    <3>1. x \in Task /\ op'[x] = op[x]
      BY <1>1 DEF TypeOK, Waiters
    <3>2. PICK u \in Task : pc[u] = "exit" /\ op[u].end = "r"
      BY <1>1, <1>4, <2>1, <3>1 DEF WritersServed
    <3>. QED  BY <3>2
  <2>. QED  BY <2>1 DEF WritersServed
<1>7. ReadersServed'
  <2>1. notEmpty' # {} => handles'["w"] # 0
    BY <1>1, <1>2 DEF ReadersServed
  <2>2. ASSUME notEmpty' # {}, buf' # <<>>
        PROVE  \E x \in Task : \/ pc'[x] \in {"woken", "loop"} /\ op'[x].end = "r"
                               \/ pc'[x] = "exit"
    <3>1. PICK x \in Task : \/ pc[x] \in {"woken", "loop"} /\ op[x].end = "r"
                            \/ pc[x] = "exit"
      BY <1>1, <2>2 DEF ReadersServed
    <3>. QED  BY <2>2, <3>1
  <2>. QED  BY <2>1, <2>2 DEF ReadersServed
<1>8. EndsCountHolders' /\ OneClose'
  <2>1. \A x \in Task, f \in End : InCall(x, f)' => f \in fds[x]
    BY <1>1 DEF EndsCountHolders, InCall
  <2>2. \A x \in Task : pc'[x] \in {"unborn", "dead"} => fds[x] = {}
    BY <1>1 DEF OneClose
  <2>3. \A x \in Task : pc[x] = "close" => pc'[x] = "close"
    OBVIOUS
  <2>. QED  BY <2>1, <2>2, <2>3, EndsSame
<1>9. Asking'
  BY DEF PipeInv, Asking, InCall
<1>. QED  BY <1>3, <1>5, <1>6, <1>7, <1>8, <1>9 DEF PipeInv

LEMMA CallStep ==
  ASSUME PipeInv, NEW t \in Task, NEW e \in End, NEW n \in Sizes[e], Call(t, e, n)
  PROVE  PipeInv'
<1>. DEFINE r == [end |-> e, n |-> n, done |-> 0, rc |-> None]
<1>1. TypeOK /\ Mutex /\ Waiters
  BY DEF PipeInv
<1>2. /\ pc[t] = "user" /\ e \in fds[t] /\ op' = [op EXCEPT ![t] = r]
      /\ Step(t, "lock", {})
      /\ UNCHANGED <<buf, owner, pending, stopped, last, ends>>
  BY DEF Call, At
<1>3. n \in Nat /\ n > 0 /\ r \in Request /\ r.end = e /\ r.n = n
  BY PipeAssumption DEF Request
<1>. HIDE DEF r
<1>4. op' \in [Task -> Request] /\ op'[t] = r /\ \A x \in Task : x # t => op'[x] = op[x]
  BY <1>1, <1>2, <1>3 DEF TypeOK
<1>5. /\ pc' \in [Task -> PC] /\ pc'[t] = "lock"
      /\ \A x \in Task : x # t => pc'[x] = pc[x]
      /\ notEmpty' = notEmpty /\ notFull' = notFull /\ Waiters'
  <2>1. "lock" \in PC
    BY DEF PC
  <2>. QED  BY <1>2, <1>4, <2>1, StepAlone
<1>6. Mutex'
  BY <1>1, <1>2, <1>5 DEF Mutex
<1>7. \A f \in End : InCall(t, f)' => f \in fds[t] /\ op'[t].n > 0
  BY <1>2, <1>3, <1>4 DEF InCall
<1>. QED  BY <1>1, <1>2, <1>4, <1>5, <1>6, <1>7, NoBytesMove DEF TypeOK

LEMMA LockStep ==
  ASSUME PipeInv, NEW t \in Task, Lock(t)
  PROVE  PipeInv'
<1>1. TypeOK /\ Mutex /\ Waiters /\ Asking /\ EndsCountHolders
  BY DEF PipeInv
<1>2. /\ pc[t] = "lock" /\ owner = None /\ owner' = t /\ Step(t, "loop", {})
      /\ UNCHANGED <<buf, op, pending, stopped, last, ends>>
  BY DEF Lock, At
<1>3. /\ pc' \in [Task -> PC] /\ pc'[t] = "loop"
      /\ \A x \in Task : x # t => pc'[x] = pc[x]
      /\ notEmpty' = notEmpty /\ notFull' = notFull /\ Waiters'
  <2>1. "loop" \in PC
    BY DEF PC
  <2>. QED  BY <1>2, <2>1, StepAlone
<1>4. Mutex'
  BY <1>1, <1>2, <1>3, PipeAssumption DEF Mutex
<1>5. \A f \in End : InCall(t, f)' => f \in fds[t] /\ op'[t].n > 0
  BY <1>1, <1>2, <1>3 DEF InCall, PC, EndsCountHolders, Asking
<1>. QED  BY <1>1, <1>2, <1>3, <1>4, <1>5, NoBytesMove DEF TypeOK

\* Steps that only decide the answer of a call and leave by the exit.
LEMMA AnswerStep ==
  ASSUME PipeInv, NEW t \in Task, NEW rc \in Int, Answer(t, rc),
         pc[t] \in {"loop", "woken"}, pc[t] = "woken" => owner = None, owner' = t,
         pending' \in [Task -> BOOLEAN],
         UNCHANGED <<buf, last, stopped, ends>>
  PROVE  PipeInv'
<1>1. TypeOK /\ Mutex /\ Waiters /\ Asking /\ EndsCountHolders
  BY DEF PipeInv
<1>2. op' = [op EXCEPT ![t] = [op[t] EXCEPT !.rc = rc]] /\ Step(t, "exit", {})
  BY DEF Answer
<1>3. op[t] \in Request
  BY <1>1 DEF TypeOK
<1>4. [op[t] EXCEPT !.rc = rc] \in Request
      /\ [op[t] EXCEPT !.rc = rc].end = op[t].end
      /\ [op[t] EXCEPT !.rc = rc].n = op[t].n
  BY <1>3 DEF Request
<1>5. /\ op' \in [Task -> Request] /\ op'[t].end = op[t].end /\ op'[t].n = op[t].n
      /\ \A x \in Task : x # t => op'[x] = op[x]
  BY <1>1, <1>2, <1>4 DEF TypeOK
<1>6. /\ pc' \in [Task -> PC] /\ pc'[t] = "exit"
      /\ \A x \in Task : x # t => pc'[x] = pc[x]
      /\ notEmpty' = notEmpty /\ notFull' = notFull /\ Waiters'
  <2>1. "exit" \in PC
    BY DEF PC
  <2>. QED  BY <1>2, <1>5, <2>1, StepAlone
<1>7. Mutex'
  BY <1>1, <1>6, PipeAssumption DEF Mutex
<1>8. \A f \in End : InCall(t, f)' => f \in fds[t] /\ op'[t].n > 0
  BY <1>1, <1>5, <1>6 DEF InCall, PC, EndsCountHolders, Asking
<1>. QED  BY <1>1, <1>5, <1>6, <1>7, <1>8, NoBytesMove DEF TypeOK

LEMMA EndedInt ==
  ASSUME PipeInv, NEW t \in Task, NEW rc \in Int
  PROVE  Ended(t, rc) \in Int
BY DEF PipeInv, TypeOK, Request, Ended

LEMMA RelockStep ==
  ASSUME PipeInv, NEW t \in Task, Relock(t)
  PROVE  PipeInv'
<1>1. TypeOK /\ Mutex /\ Waiters /\ Asking /\ EndsCountHolders
  BY DEF PipeInv
<1>2. /\ pc[t] = "woken" /\ owner = None /\ owner' = t
      /\ UNCHANGED <<buf, pending, stopped, last, ends>>
  BY DEF Relock, At
<1>3. CASE pending[t]
  <2>1. Answer(t, Ended(t, EINTR)) /\ Ended(t, EINTR) \in Int
    BY <1>3, EndedInt DEF Relock, EINTR
  <2>. QED  BY <1>1, <1>2, <2>1, AnswerStep DEF TypeOK
<1>4. CASE ~pending[t]
  <2>1. Step(t, "loop", {}) /\ UNCHANGED op
    BY <1>4 DEF Relock
  <2>2. /\ pc' \in [Task -> PC] /\ pc'[t] = "loop"
        /\ \A x \in Task : x # t => pc'[x] = pc[x]
        /\ notEmpty' = notEmpty /\ notFull' = notFull /\ Waiters'
    <3>1. "loop" \in PC
      BY DEF PC
    <3>. QED  BY <1>2, <2>1, <3>1, StepAlone
  <2>3. Mutex'
    BY <1>1, <1>2, <2>2, PipeAssumption DEF Mutex
  <2>4. \A f \in End : InCall(t, f)' => f \in fds[t] /\ op'[t].n > 0
    BY <1>1, <1>2, <2>1, <2>2 DEF InCall, PC, EndsCountHolders, Asking
  <2>. QED  BY <1>1, <1>2, <2>1, <2>2, <2>3, <2>4, NoBytesMove DEF TypeOK
<1>. QED  BY <1>3, <1>4

\* A process in the loop has the mutex, so that nobody owes a wake-up but those
\* already woken, and no sleeping writer could go on.
LEMMA LoopAlone ==
  ASSUME PipeInv, NEW t \in Task, pc[t] = "loop"
  PROVE  /\ owner = t
         /\ \A x \in Task : x # t => pc[x] \notin {"loop", "wait", "exit"}
         /\ \A x \in notFull : ~CanWrite(x)
         /\ notEmpty # {} /\ buf # <<>> =>
              \E x \in Task : \/ x = t /\ op[t].end = "r"
                              \/ x # t /\ pc[x] = "woken" /\ op[x].end = "r"
<1>1. owner = t /\ \A x \in Task : x # t => pc[x] \notin {"loop", "wait", "exit"}
  BY DEF PipeInv, Mutex
<1>2. \A x \in notFull : ~CanWrite(x)
  BY <1>1 DEF PipeInv, WritersServed
<1>3. ASSUME notEmpty # {}, buf # <<>>
      PROVE  \E x \in Task : \/ x = t /\ op[t].end = "r"
                             \/ x # t /\ pc[x] = "woken" /\ op[x].end = "r"
  <2>1. PICK x \in Task : \/ pc[x] \in {"woken", "loop"} /\ op[x].end = "r"
                          \/ pc[x] = "exit"
    BY <1>3 DEF PipeInv, ReadersServed
  <2>2. CASE x = t
    BY <2>1, <2>2
  <2>3. CASE x # t
    <3>1. pc[x] = "woken" /\ op[x].end = "r"
      BY <1>1, <2>1, <2>3
    <3>. QED  BY <2>3, <3>1
  <2>. QED  BY <2>2, <2>3
<1>. QED  BY <1>1, <1>2, <1>3

\* A process that leaves the loop with the ends untouched, having moved bytes
\* and woken W: what is left to show is what the bytes do to the sleepers.
LEMMA LeaveLoop ==
  ASSUME PipeInv, NEW t \in Task, pc[t] = "loop",
         NEW s \in {"wait", "exit"}, NEW W, W \subseteq notEmpty,
         Step(t, s, W), UNCHANGED <<owner, pending, stopped, ends>>,
         buf' \in Seq(Byte), Len(buf') <= PIPE_BUF_SIZE, last' \in Byte \cup {None},
         op' \in [Task -> Request], op'[t].end = op[t].end, op'[t].n = op[t].n,
         \A x \in Task : x # t => op'[x] = op[x],
         s = "wait" =>
           IF op[t].end = "r" THEN buf' = <<>> /\ handles["w"] # 0 ELSE ~CanWrite(t)',
         (s = "exit" /\ op[t].end = "r") \/ \A x \in notFull : ~CanWrite(x)',
         \/ s = "exit"
         \/ W # {}
         \/ notEmpty = {}
         \/ buf' = <<>>
         \/ buf' = buf /\ op[t].end = "w"
  PROVE  PipeInv'
<1>1. /\ TypeOK /\ Mutex /\ Waiters /\ Asking /\ ReadersServed
      /\ EndsCountHolders /\ OneClose
  BY DEF PipeInv
<1>2. /\ pc' \in [Task -> PC] /\ pc'[t] = s
      /\ \A x \in Task : x # t => pc'[x] = IF x \in W THEN "woken" ELSE pc[x]
      /\ \A x \in Task : x \in W => x # t /\ pc[x] = "asleep"
      /\ notEmpty' = notEmpty \ W /\ notFull' = notFull \ W
      /\ notEmpty' \subseteq Task /\ notFull' \subseteq Task
      /\ Waiters'
  <2>1. s \in PC /\ s # "asleep" /\ pc[t] # "asleep" /\ W \subseteq notEmpty \cup notFull
    BY DEF PC
  <2>. QED  BY <2>1, StepMoves
<1>3. /\ owner = t
      /\ \A x \in Task : x # t => pc[x] \notin {"loop", "wait", "exit"}
      /\ notEmpty # {} /\ buf # <<>> =>
           \E x \in Task : \/ x = t /\ op[t].end = "r"
                           \/ x # t /\ pc[x] = "woken" /\ op[x].end = "r"
  BY LoopAlone
<1>4. UNCHANGED <<handles, refs, nonblock, fds>>
  BY DEF ends
<1>5. TypeOK'
  BY <1>1, <1>2, <1>4 DEF TypeOK
<1>6. Mutex'
  BY <1>1, <1>2, <1>3 DEF Mutex
<1>7. AboutToSleep'
  BY <1>2, <1>3, <1>4 DEF AboutToSleep
<1>8. WritersServed'
  BY <1>2 DEF WritersServed
<1>9. ReadersServed'
  <2>1. notEmpty' # {} => handles'["w"] # 0
    BY <1>1, <1>2, <1>4 DEF ReadersServed
  <2>2. ASSUME notEmpty' # {}, buf' # <<>>
        PROVE  \E x \in Task : \/ pc'[x] \in {"woken", "loop"} /\ op'[x].end = "r"
                               \/ pc'[x] = "exit"
    <3>1. CASE s = "exit"
      BY <1>2, <3>1
    <3>2. CASE W # {}
      <4>1. PICK x : x \in W
        BY <3>2
      <4>2. x \in Task /\ op[x].end = "r"
        BY <1>1, <4>1 DEF Waiters, TypeOK
      <4>. QED  BY <1>2, <4>1, <4>2
    <3>3. CASE buf' = buf /\ op[t].end = "w"
      BY <1>2, <1>3, <2>2, <3>3
    <3>. QED  BY <1>2, <2>2, <3>1, <3>2, <3>3
  <2>. QED  BY <2>1, <2>2 DEF ReadersServed
<1>10. EndsCountHolders' /\ OneClose' /\ Asking'
  <2>1. \A x \in Task, f \in End : InCall(x, f)' => f \in fds[x] /\ op'[x].n > 0
    <3>1. ASSUME NEW x \in Task, NEW f \in End, InCall(x, f)'
          PROVE f \in fds[x] /\ op'[x].n > 0
      <4>1. op[x].end = f /\ pc[x] \in PC \ {"user", "close", "unborn", "dead"}
        BY <1>1, <1>2, <3>1 DEF InCall, TypeOK, PC
      <4>. QED  BY <1>1, <4>1 DEF InCall, EndsCountHolders, Asking
    <3>. QED  BY <3>1
  <2>2. \A x \in Task : pc'[x] \in {"unborn", "dead"} => fds[x] = {}
    BY <1>1, <1>2 DEF OneClose
  <2>3. \A x \in Task : pc[x] = "close" => pc'[x] = "close"
    BY <1>2
  <2>4. Asking'
    BY <2>1 DEF Asking
  <2>. QED  BY <1>2, <2>1, <2>2, <2>3, <2>4, EndsSame
<1>. QED  BY <1>2, <1>5, <1>6, <1>7, <1>8, <1>9, <1>10 DEF PipeInv

LEMMA ReadLoopStep ==
  ASSUME PipeInv, NEW t \in Task, ReadLoop(t)
  PROVE  PipeInv'
<1>. DEFINE k == Less(op[t].n, Len(buf))
<1>1. TypeOK /\ Mutex /\ Waiters /\ Asking /\ EndsCountHolders
  BY DEF PipeInv
<1>2. /\ pc[t] = "loop" /\ op[t].end = "r" /\ owner = t
      /\ UNCHANGED <<owner, pending, stopped, ends>>
  BY <1>1, PipeAssumption DEF ReadLoop, At, Mutex
<1>3. /\ op[t] \in Request /\ buf \in Seq(Byte) /\ k \in Nat /\ k <= Len(buf)
      /\ op \in [Task -> Request]
  BY <1>1 DEF TypeOK, Request, Less
<1>4. \/ k > 0 /\ buf' = SubSeq(buf, k + 1, Len(buf)) /\ last' = buf[k] /\ Answer(t, k)
      \/ \E rc \in Int : Answer(t, rc) /\ UNCHANGED <<buf, last>>
      \/ k = 0 /\ handles["w"] # 0 /\ Step(t, "wait", {}) /\ UNCHANGED <<buf, last, op>>
  BY DEF ReadLoop, EAGAIN
<1>5. CASE k > 0 /\ buf' = SubSeq(buf, k + 1, Len(buf)) /\ last' = buf[k] /\ Answer(t, k)
  <2>. DEFINE r == [op[t] EXCEPT !.rc = k]
  <2>1. op' = [op EXCEPT ![t] = r] /\ Step(t, "exit", {})
    BY <1>5 DEF Answer
  <2>2. r \in Request /\ r.end = op[t].end /\ r.n = op[t].n
    <3>1. op[t] \in Request /\ k \in Int
      BY <1>3
    <3>. HIDE DEF k
    <3>. QED  BY ONLY <3>1 DEF Request
  <2>3. buf' \in Seq(Byte) /\ Len(buf') <= PIPE_BUF_SIZE
    <3>1. Len(buf) \in Nat /\ \A i \in (k + 1)..Len(buf) : buf[i] \in Byte
      BY <1>3
    <3>2. buf' \in Seq(Byte)
          /\ Len(buf') = IF k + 1 <= Len(buf) THEN Len(buf) - (k + 1) + 1 ELSE 0
      <4>. HIDE DEF k
      <4>1. k + 1 \in Int /\ Len(buf) \in Int
        BY <1>3, <3>1
      <4>. QED  BY <1>5, <3>1, <4>1, SubSeqProperties
    <3>3. Len(buf) <= PIPE_BUF_SIZE
      BY <1>1 DEF TypeOK
    <3>. HIDE DEF k
    <3>. QED  BY <1>3, <3>1, <3>2, <3>3, PipeAssumption
  <2>4. last' \in Byte \cup {None}
    BY <1>3, <1>5
  <2>. HIDE DEF r, k
  <2>5. op' \in [Task -> Request] /\ op'[t].end = op[t].end /\ op'[t].n = op[t].n
        /\ \A x \in Task : x # t => op'[x] = op[x]
    BY <1>3, <2>1, <2>2
  <2>. DEFINE s == "exit"  W == {}
  <2>6. s \in {"wait", "exit"} /\ W \subseteq notEmpty /\ Step(t, s, W)
        /\ s = "exit" /\ op[t].end = "r"
    BY <1>2, <2>1
  <2>7. s # "wait"
    OBVIOUS
  <2>. HIDE DEF s, W
  <2>. QED  BY <1>2, <2>3, <2>4, <2>5, <2>6, <2>7, LeaveLoop
<1>6. CASE \E rc \in Int : Answer(t, rc) /\ UNCHANGED <<buf, last>>
  BY <1>1, <1>2, <1>6, AnswerStep DEF TypeOK
<1>7. CASE k = 0 /\ handles["w"] # 0 /\ Step(t, "wait", {}) /\ UNCHANGED <<buf, last, op>>
  <2>1. buf' = <<>>
    <3>1. op[t].n # 0
      BY <1>1, <1>2 DEF Asking, InCall, PC
    <3>. QED  BY <1>3, <1>7, <3>1 DEF Less, Request
  <2>2. Len(buf') <= PIPE_BUF_SIZE /\ last' \in Byte \cup {None}
    BY <1>1, <1>7 DEF TypeOK
  <2>. DEFINE s == "wait"  W == {}
  <2>3. s \in {"wait", "exit"} /\ W \subseteq notEmpty /\ Step(t, s, W)
    BY <1>7
  <2>4. \A x \in notFull : ~CanWrite(x)'
    <3>1. \A x \in notFull : ~CanWrite(x)
      BY <1>2, LoopAlone
    <3>. QED  BY <1>2, <1>7, <3>1 DEF CanWrite, Fits, Atomic, Free, ends
  <2>. HIDE DEF s, W, k
  <2>. QED  BY <1>2, <1>3, <1>7, <2>1, <2>2, <2>3, <2>4, LeaveLoop
<1>. QED  BY <1>4, <1>5, <1>6, <1>7

\* Bytes put into the buffer.
LEMMA PieceFits ==
  ASSUME PipeInv, NEW t \in Task, NEW k \in Int, k <= Free, buf' = buf \o Piece(t, k)
  PROVE  /\ buf' \in Seq(Byte) /\ Len(buf') <= PIPE_BUF_SIZE
         /\ Free' <= Free /\ Free' \in Nat /\ Free \in Nat
         /\ k >= 0 => Free' = Free - k
         /\ k <= 0 => buf' = buf
<1>1. /\ buf \in Seq(Byte) /\ Len(buf) <= PIPE_BUF_SIZE /\ op[t] \in Request
      /\ PIPE_BUF_SIZE \in Nat /\ Len(buf) \in Nat
  BY PipeAssumption DEF PipeInv, TypeOK
<1>2. CASE k <= 0
  <2>1. Piece(t, k) \in [1..0 -> Byte]
    BY <1>2 DEF Piece
  <2>2. Piece(t, k) = <<>>
    BY <2>1
  <2>3. buf' = buf
    BY <1>1, <2>2, ConcatEmptySeq
  <2>. QED  BY <1>1, <1>2, <2>3 DEF Free
<1>3. CASE k > 0
  <2>1. ASSUME NEW i \in 1..k
        PROVE  [by |-> t, i |-> op[t].done + i, n |-> op[t].n] \in Byte
    BY <1>1 DEF Byte, Request
  <2>2. Piece(t, k) \in [1..k -> Byte] /\ k \in Nat
    BY <1>3, <2>1 DEF Piece
  <2>3. Piece(t, k) \in Seq(Byte)
    BY <2>2, SeqDef
  <2>4. Len(Piece(t, k)) = k
    <3>1. /\ Len(Piece(t, k)) \in Nat
          /\ DOMAIN Piece(t, k) = 1..Len(Piece(t, k))
      BY <2>3, LenProperties
    <3>2. DOMAIN Piece(t, k) = 1..k
      BY <2>2
    <3>. QED  BY <1>3, <2>2, <3>1, <3>2
  <2>5. buf' \in Seq(Byte) /\ Len(buf') = Len(buf) + k
    BY <1>1, <2>3, <2>4, ConcatProperties
  <2>. QED  BY <1>1, <1>3, <2>5 DEF Free
<1>. QED  BY <1>2, <1>3

LEMMA WriteBrokenStep ==
  ASSUME PipeInv, NEW t \in Task, WriteLoop(t), WriteBroken(t)
  PROVE  PipeInv'
<1>1. TypeOK /\ Mutex
  BY DEF PipeInv
<1>2. /\ pc[t] = "loop" /\ owner = t /\ owner' = owner
      /\ UNCHANGED <<buf, last, stopped, ends>>
  BY <1>1, PipeAssumption DEF WriteLoop, At, Mutex, WriteBroken
<1>3. pending' \in [Task -> BOOLEAN]
  BY <1>1 DEF WriteBroken, TypeOK
<1>4. Ended(t, EPIPE) \in Int /\ Answer(t, Ended(t, EPIPE))
  BY EndedInt DEF WriteBroken, EPIPE
<1>. QED  BY <1>2, <1>3, <1>4, AnswerStep

\* What a write adds leaves less room for every sleeping writer.
LEMMA StillFull ==
  ASSUME PipeInv, NEW t \in Task, pc[t] = "loop", UNCHANGED ends,
         Free' \in Nat, Free \in Nat, Free' <= Free, op' \in [Task -> Request],
         \A x \in Task : x # t => op'[x] = op[x]
  PROVE  \A x \in notFull : ~CanWrite(x)'
<1>1. \A x \in notFull : ~CanWrite(x)
  BY LoopAlone
<1>2. ASSUME NEW x \in notFull  PROVE ~CanWrite(x)'
  <2>1. x # t /\ x \in Task /\ op'[x] = op[x] /\ op[x] \in Request
    BY DEF PipeInv, Waiters, TypeOK
  <2>2. op[x].n \in Nat /\ handles' = handles
    BY <2>1 DEF Request, ends
  <2>3. CanWrite(x)' => CanWrite(x)
    BY <2>1, <2>2 DEF CanWrite, Fits, Atomic
  <2>. QED  BY <1>1, <2>3
<1>. QED  BY <1>2

\* A call that has got further in its bytes.
LEMMA Progress ==
  ASSUME PipeInv, NEW t \in Task, NEW d \in Nat, NEW c \in Int \cup {None},
         op' = [op EXCEPT ![t].done = d, ![t].rc = c]
  PROVE  /\ op' \in [Task -> Request] /\ op'[t].end = op[t].end /\ op'[t].n = op[t].n
         /\ \A x \in Task : x # t => op'[x] = op[x]
<1>. DEFINE r == [op[t] EXCEPT !.done = d, !.rc = c]
<1>1. op \in [Task -> Request] /\ op[t] \in Request
  BY DEF PipeInv, TypeOK
<1>2. r \in Request /\ r.end = op[t].end /\ r.n = op[t].n
  BY <1>1 DEF Request
<1>3. op' = [op EXCEPT ![t] = r]
  BY <1>1
<1>. HIDE DEF r
<1>. QED  BY <1>1, <1>2, <1>3

LEMMA WriteAllStep ==
  ASSUME PipeInv, NEW t \in Task, WriteLoop(t), WriteAll(t)
  PROVE  PipeInv'
<1>. DEFINE k == op[t].n - op[t].done
<1>1. TypeOK /\ Mutex
  BY DEF PipeInv
<1>2. /\ pc[t] = "loop" /\ op[t].end = "w" /\ owner = t /\ k <= Free
      /\ UNCHANGED <<owner, pending, stopped, last, ends>>
      /\ buf' = buf \o Piece(t, k)
      /\ op' = [op EXCEPT ![t].done = op[t].n, ![t].rc = op[t].n]
      /\ Step(t, "exit", {})
  BY <1>1, PipeAssumption DEF WriteLoop, At, Mutex, WriteAll
<1>3. op[t].n \in Nat /\ op[t].n \in Int /\ k \in Int
  BY <1>1 DEF TypeOK, Request
<1>. HIDE DEF k
<1>5. /\ op' \in [Task -> Request] /\ op'[t].end = op[t].end /\ op'[t].n = op[t].n
      /\ \A x \in Task : x # t => op'[x] = op[x]
  BY <1>2, <1>3, Progress
<1>6. buf' \in Seq(Byte) /\ Len(buf') <= PIPE_BUF_SIZE
      /\ Free' \in Nat /\ Free \in Nat /\ Free' <= Free
  BY <1>2, <1>3, PieceFits
<1>7. \A x \in notFull : ~CanWrite(x)'
  BY <1>2, <1>5, <1>6, StillFull
<1>8. last' \in Byte \cup {None}
  BY <1>1, <1>2 DEF TypeOK
<1>. DEFINE s == "exit"  W == {}
<1>9. s \in {"wait", "exit"} /\ s = "exit" /\ s # "wait" /\ W \subseteq notEmpty /\ Step(t, s, W)
  BY <1>2
<1>. HIDE DEF s, W
<1>. QED  BY <1>2, <1>5, <1>6, <1>7, <1>8, <1>9, LeaveLoop

LEMMA WriteSomeStep ==
  ASSUME PipeInv, NEW t \in Task, WriteLoop(t), WriteSome(t)
  PROVE  PipeInv'
<1>. DEFINE k == IF Fits(t) THEN Free ELSE 0
            done == op[t].done + k
            rc == IF ~nonblock["w"] THEN None ELSE IF done > 0 THEN done ELSE EAGAIN
            s == IF nonblock["w"] THEN "exit" ELSE "wait"
<1>1. TypeOK /\ Mutex
  BY DEF PipeInv
<1>2. /\ pc[t] = "loop" /\ op[t].end = "w" /\ owner = t /\ handles["r"] # 0
      /\ UNCHANGED <<owner, pending, stopped, last, ends>>
      /\ buf' = buf \o Piece(t, k)
      /\ op' = [op EXCEPT ![t].done = done, ![t].rc = rc]
  BY <1>1, PipeAssumption DEF WriteLoop, At, Mutex, WriteSome
<1>3. PICK W \in IF Fits(t) /\ done > 0 THEN OneOf(notEmpty) ELSE {{}} : Step(t, s, W)
  BY DEF WriteSome
<1>4. op[t] \in Request /\ Free \in Nat
  BY <1>1, PipeAssumption DEF TypeOK, Free
<1>5. k \in Nat /\ k <= Free /\ done \in Nat /\ (k > 0 => done > 0)
  BY <1>4 DEF Request
<1>6. rc \in Int \cup {None}
  BY <1>5 DEF EAGAIN
<1>7. /\ op' \in [Task -> Request] /\ op'[t].end = op[t].end /\ op'[t].n = op[t].n
      /\ \A x \in Task : x # t => op'[x] = op[x]
  <2>. HIDE DEF rc, done
  <2>. QED  BY <1>2, <1>5, <1>6, Progress
<1>8. /\ buf' \in Seq(Byte) /\ Len(buf') <= PIPE_BUF_SIZE
      /\ Free' \in Nat /\ Free' <= Free /\ Free' = Free - k /\ (k = 0 => buf' = buf)
  <2>1. k \in Int /\ k >= 0 /\ k <= Free /\ buf' = buf \o Piece(t, k)
    BY <1>2, <1>5
  <2>. HIDE DEF k
  <2>. QED  BY <2>1, PieceFits
<1>9. \A x \in notFull : ~CanWrite(x)'
  BY <1>2, <1>4, <1>7, <1>8, StillFull
<1>10. ~CanWrite(t)'
  <2>1. handles' = handles /\ op[t].n \in Nat
    BY <1>2, <1>4 DEF ends, Request
  <2>2. Fits(t) => Free' = 0
    BY <1>4, <1>8
  <2>3. ~Fits(t) => Free' = Free
    BY <1>4, <1>8
  <2>. QED  BY <1>2, <1>7, <2>1, <2>2, <2>3 DEF CanWrite, Fits, Atomic
<1>11. W \subseteq notEmpty /\ (W # {} \/ notEmpty = {} \/ k = 0)
  <2>1. CASE Fits(t) /\ done > 0
    <3>1. W \in OneOf(notEmpty)
      BY <1>3, <2>1
    <3>. QED  BY ONLY <3>1, OneOfWaits
  <2>2. CASE ~(Fits(t) /\ done > 0)
    BY <1>3, <1>5, <2>2
  <2>. QED  BY <2>1, <2>2
<1>12. last' \in Byte \cup {None}
  BY <1>1, <1>2 DEF TypeOK
<1>13. s \in {"wait", "exit"}
  OBVIOUS
<1>. HIDE DEF s, k
<1>14. /\ pc[t] = "loop" /\ W \subseteq notEmpty /\ Step(t, s, W)
       /\ UNCHANGED <<owner, pending, stopped, ends>>
  BY <1>2, <1>3, <1>11
<1>15. s = "wait" =>
         IF op[t].end = "r" THEN buf' = <<>> /\ handles["w"] # 0 ELSE ~CanWrite(t)'
  BY <1>2, <1>10
<1>16. W # {} \/ notEmpty = {} \/ (buf' = buf /\ op[t].end = "w")
  BY <1>2, <1>8, <1>11
<1>17. buf' \in Seq(Byte) /\ Len(buf') <= PIPE_BUF_SIZE
  BY <1>8
<1>. QED  BY <1>7, <1>9, <1>12, <1>13, <1>14, <1>15, <1>16, <1>17, LeaveLoop

LEMMA WaitStep ==
  ASSUME PipeInv, NEW t \in Task, Wait(t)
  PROVE  PipeInv'
<1>1. /\ TypeOK /\ Mutex /\ Waiters /\ Asking /\ AboutToSleep /\ WritersServed
      /\ ReadersServed /\ EndsCountHolders /\ OneClose
  BY DEF PipeInv
<1>2. /\ pc[t] = "wait" /\ owner' = None /\ pc' = [pc EXCEPT ![t] = "asleep"]
      /\ notEmpty' = IF op[t].end = "r" THEN notEmpty \cup {t} ELSE notEmpty
      /\ notFull' = IF op[t].end = "w" THEN notFull \cup {t} ELSE notFull
      /\ UNCHANGED <<buf, op, pending, stopped, last, handles, refs, nonblock, fds>>
  BY DEF Wait, At, ends
<1>3. /\ pc' \in [Task -> PC] /\ pc'[t] = "asleep"
      /\ \A x \in Task : x # t => pc'[x] = pc[x] /\ pc[x] \notin {"loop", "wait", "exit"}
  <2>1. "asleep" \in PC
    BY DEF PC
  <2>. QED  BY <1>1, <1>2, <2>1 DEF TypeOK, Mutex
<1>4. op[t].end \in End /\ op[t].end \in {"r", "w"}
  BY <1>1 DEF TypeOK, Request
<1>5. TypeOK'
  <2>1. notEmpty' \subseteq Task /\ notFull' \subseteq Task
    BY <1>1, <1>2 DEF TypeOK
  <2>. QED  BY <1>1, <1>2, <1>3, <2>1 DEF TypeOK
<1>6. Mutex'
  BY <1>1, <1>2, <1>3, PipeAssumption DEF Mutex
<1>7. Waiters'
  BY <1>1, <1>2, <1>3, <1>4 DEF Waiters
<1>8. AboutToSleep'
  BY <1>3 DEF AboutToSleep
<1>9. WritersServed'
  <2>1. \A x \in notFull : ~CanWrite(x)
    BY <1>1, <1>2, <1>3 DEF WritersServed
  <2>2. op[t].end = "w" => ~CanWrite(t)
    BY <1>1, <1>2 DEF AboutToSleep
  <2>3. \A x \in notFull' : ~CanWrite(x)
    BY <1>2, <2>1, <2>2
  <2>4. \A x \in notFull' : ~CanWrite(x)'
    BY <1>2, <2>3 DEF CanWrite, Fits, Atomic, Free
  <2>. QED  BY <2>4 DEF WritersServed
<1>10. ReadersServed'
  <2>1. CASE op[t].end = "r"
    <3>1. buf = <<>> /\ handles["w"] # 0
      BY <1>1, <1>2, <2>1 DEF AboutToSleep
    <3>. QED  BY <1>2, <3>1 DEF ReadersServed
  <2>2. CASE op[t].end = "w"
    <3>1. notEmpty' = notEmpty
      BY <1>2, <2>2
    <3>2. ASSUME notEmpty # {}, buf # <<>>
          PROVE  \E x \in Task : pc'[x] = "woken" /\ op'[x].end = "r"
      <4>1. PICK x \in Task : \/ pc[x] \in {"woken", "loop"} /\ op[x].end = "r"
                              \/ pc[x] = "exit"
        BY <1>1, <3>2 DEF ReadersServed
      <4>2. x # t /\ pc[x] = "woken"
        BY <1>2, <1>3, <4>1
      <4>. QED  BY <1>2, <1>3, <4>1, <4>2
    <3>. QED  BY <1>1, <1>2, <3>1, <3>2 DEF ReadersServed
  <2>. QED  BY <1>4, <2>1, <2>2
<1>11. \A x \in Task, f \in End : InCall(x, f)' <=> InCall(x, f)
  BY <1>2, <1>3 DEF InCall, PC
<1>12. EndsCountHolders' /\ OneClose'
  <2>1. \A x \in Task, f \in End : InCall(x, f)' => f \in fds[x]
    BY <1>1, <1>11 DEF EndsCountHolders
  <2>2. \A x \in Task : pc'[x] \in {"unborn", "dead"} => fds[x] = {}
    BY <1>1, <1>3 DEF OneClose
  <2>3. \A x \in Task : pc[x] = "close" => pc'[x] = "close"
    BY <1>2, <1>3
  <2>4. UNCHANGED ends
    BY <1>2 DEF ends
  <2>. QED  BY <1>3, <2>1, <2>2, <2>3, <2>4, EndsSame
<1>13. Asking'
  BY <1>1, <1>2, <1>11 DEF Asking
<1>. QED  BY <1>5, <1>6, <1>7, <1>8, <1>9, <1>10, <1>12, <1>13 DEF PipeInv

LEMMA FinishStep ==
  ASSUME PipeInv, NEW t \in Task, Finish(t)
  PROVE  PipeInv'
<1>1. /\ TypeOK /\ Mutex /\ Waiters /\ Asking /\ AboutToSleep /\ WritersServed
      /\ ReadersServed /\ EndsCountHolders /\ OneClose
  BY DEF PipeInv
<1>2. PICK W \in IF op[t].end = "r" THEN WokenByRead ELSE WokenByWrite :
        Step(t, "user", W)
  BY DEF Finish
<1>3. /\ pc[t] = "exit" /\ owner' = None /\ op' = [op EXCEPT ![t] = NoCall]
      /\ UNCHANGED <<buf, pending, stopped, last, handles, refs, nonblock, fds>>
  BY DEF Finish, At, ends
<1>4. op[t].end \in {"r", "w"}
  BY <1>1 DEF TypeOK, Request
<1>5. /\ W \subseteq notEmpty \cup notFull
      /\ op[t].end = "r" => notFull \subseteq W
      /\ buf # <<>> /\ notEmpty # {} => \E x \in notEmpty : x \in W
  <2>1. CASE op[t].end = "r"
    <3>1. PICK W1 \in IF buf = <<>> THEN {{}} ELSE OneOf(notEmpty) : W = notFull \cup W1
      BY <1>2, <2>1 DEF WokenByRead
    <3>2. W1 \subseteq notEmpty /\ (buf # <<>> /\ notEmpty # {} => W1 # {})
      BY <3>1, OneOfWaits
    <3>. QED  BY <3>1, <3>2
  <2>2. CASE op[t].end = "w"
    <3>1. PICK V \in OneOf(notEmpty),
               W1 \in IF Free = 0 THEN {{}} ELSE OneOf(notFull) : W = V \cup W1
      BY <1>2, <2>2 DEF WokenByWrite
    <3>2. V \subseteq notEmpty /\ (notEmpty # {} => V # {}) /\ W1 \subseteq notFull
      BY <3>1, OneOfWaits
    <3>. QED  BY <2>2, <3>1, <3>2
  <2>. QED  BY <1>4, <2>1, <2>2
<1>6. /\ NoCall \in Request /\ op' \in [Task -> Request] /\ op'[t] = NoCall
      /\ \A x \in Task : x # t => op'[x] = op[x]
  <2>1. NoCall \in Request
    BY DEF NoCall, Request
  <2>. QED  BY <1>1, <1>3, <2>1 DEF TypeOK
<1>7. /\ pc' \in [Task -> PC] /\ pc'[t] = "user"
      /\ \A x \in Task : x # t => pc'[x] = IF x \in W THEN "woken" ELSE pc[x]
      /\ \A x \in Task : x \in W => x # t /\ pc[x] = "asleep"
      /\ notEmpty' = notEmpty \ W /\ notFull' = notFull \ W
      /\ notEmpty' \subseteq Task /\ notFull' \subseteq Task
      /\ Waiters'
  <2>1. "user" \in PC
    BY DEF PC
  <2>. QED  BY <1>2, <1>3, <1>5, <1>6, <2>1, StepMoves
<1>8. \A x \in Task : x # t => pc[x] \notin {"loop", "wait", "exit"}
  BY <1>1, <1>3 DEF Mutex
<1>9. TypeOK'
  BY <1>1, <1>3, <1>6, <1>7 DEF TypeOK
<1>10. Mutex'
  BY <1>3, <1>7, <1>8, PipeAssumption DEF Mutex
<1>11. AboutToSleep'
  BY <1>7, <1>8 DEF AboutToSleep
<1>12. WritersServed'
  <2>1. CASE op[t].end = "r"
    BY <1>5, <1>7, <2>1 DEF WritersServed
  <2>2. CASE op[t].end = "w"
    <3>1. \A x \in notFull : ~CanWrite(x) /\ x \in Task /\ x # t
      BY <1>1, <1>3, <1>8, <2>2 DEF WritersServed, Waiters, TypeOK
    <3>2. \A x \in notFull : ~CanWrite(x)'
      BY <1>3, <1>6, <3>1 DEF CanWrite, Fits, Atomic, Free
    <3>. QED  BY <1>7, <3>2 DEF WritersServed
  <2>. QED  BY <1>4, <2>1, <2>2
<1>13. ReadersServed'
  <2>1. ASSUME notEmpty # {}, buf # <<>>
        PROVE  \E x \in Task : pc'[x] = "woken" /\ op'[x].end = "r"
    <3>1. PICK x \in notEmpty : x \in W
      BY <1>5, <2>1
    <3>2. x \in Task /\ op[x].end = "r" /\ x # t
      BY <1>1, <1>7, <3>1 DEF Waiters, TypeOK
    <3>. QED  BY <1>6, <1>7, <3>1, <3>2
  <2>. QED  BY <1>1, <1>3, <1>7, <2>1 DEF ReadersServed
<1>14. \A x \in Task, f \in End : InCall(x, f)' => InCall(x, f) /\ op'[x] = op[x]
  BY <1>1, <1>6, <1>7 DEF InCall, PC, TypeOK
<1>15. EndsCountHolders' /\ OneClose'
  <2>1. \A x \in Task, f \in End : InCall(x, f)' => f \in fds[x]
    BY <1>1, <1>14 DEF EndsCountHolders
  <2>2. \A x \in Task : pc'[x] \in {"unborn", "dead"} => fds[x] = {}
    BY <1>1, <1>7 DEF OneClose
  <2>3. \A x \in Task : pc[x] = "close" => pc'[x] = "close"
    BY <1>3, <1>7
  <2>4. UNCHANGED ends
    BY <1>3 DEF ends
  <2>. QED  BY <1>7, <2>1, <2>2, <2>3, <2>4, EndsSame
<1>16. Asking'
  BY <1>1, <1>14 DEF Asking
<1>. QED  BY <1>7, <1>9, <1>10, <1>11, <1>12, <1>13, <1>15, <1>16 DEF PipeInv

LEMMA HolderCounts ==
  ASSUME PipeInv, NEW t \in Task, NEW e \in fds[t]
  PROVE  /\ e \in End /\ handles[e] = 1
         /\ pc[t] # "close" => /\ refs[e] = Cardinality(Holders(e)) /\ refs[e] >= 1
                               /\ refs[e] = 1 => Holders(e) = {t}
         /\ refs[e] = 0 => Holders(e) = {t}
<1>1. e \in End
  BY DEF PipeInv, TypeOK
<1>2. t \in Holders(e) /\ IsFiniteSet(Holders(e))
  <2>1. Holders(e) \subseteq Task
    BY DEF Holders
  <2>. QED  BY <2>1, PipeAssumption, FS_Subset DEF Holders
<1>3. Cardinality(Holders(e)) \in Nat /\ Cardinality(Holders(e)) # 0
  BY <1>2, FS_CardinalityType, FS_EmptySet
<1>4. /\ handles[e] = 1
      /\ \/ refs[e] = Cardinality(Holders(e))
         \/ refs[e] = 0 /\ \E x \in Task : Holders(e) = {x} /\ pc[x] = "close"
  BY <1>1, <1>2 DEF PipeInv, EndsCountHolders
<1>5. refs[e] = 1 /\ refs[e] = Cardinality(Holders(e)) => Holders(e) = {t}
  <2>1. ASSUME Cardinality(Holders(e)) = 1  PROVE Holders(e) = {t}
    <3>1. PICK x : Holders(e) = {x}
      BY <1>2, <2>1, FS_Singleton
    <3>. QED  BY <1>2, <3>1
  <2>. QED  BY <2>1
<1>6. ASSUME pc[t] # "close"  PROVE refs[e] = Cardinality(Holders(e))
  <2>1. ASSUME NEW x \in Task, Holders(e) = {x}, pc[x] = "close"  PROVE FALSE
    BY <1>2, <1>6, <2>1
  <2>. QED  BY <1>4, <2>1
<1>7. refs[e] = 0 => Holders(e) = {t}
  <2>1. ASSUME refs[e] = 0  PROVE Holders(e) = {t}
    <3>1. PICK x \in Task : Holders(e) = {x}
      BY <1>3, <1>4, <2>1
    <3>. QED  BY <1>2, <3>1
  <2>. QED  BY <2>1
<1>. QED  BY <1>1, <1>3, <1>4, <1>5, <1>6, <1>7

\* Steps of a process that is not in a call, on nothing but the ends.
LEMMA OutsideStep ==
  ASSUME PipeInv, NEW t \in Task, pc[t] \in {"user", "unborn"}, NEW s \in {"user", "close"},
         pc' = pc \/ pc' = [pc EXCEPT ![t] = s],
         UNCHANGED <<buf, handles, owner, notEmpty, notFull, op, pending, stopped, last>>,
         nonblock' \in [End -> BOOLEAN], refs' \in [End -> Nat],
         fds' \in [Task -> SUBSET End], EndsCountHolders', OneClose'
  PROVE  PipeInv'
<1>1. /\ TypeOK /\ Mutex /\ Waiters /\ Asking /\ AboutToSleep /\ WritersServed
      /\ ReadersServed
  BY DEF PipeInv
<1>2. /\ pc' \in [Task -> PC] /\ pc'[t] \in {"user", "close", "unborn"}
      /\ \A x \in Task : x # t => pc'[x] = pc[x]
  BY <1>1 DEF TypeOK, PC
<1>3. TypeOK'
  BY <1>1, <1>2 DEF TypeOK
<1>4. Mutex' /\ Waiters'
  BY <1>1, <1>2 DEF Mutex, Waiters
<1>5. Asking'
  BY <1>1, <1>2 DEF Asking, InCall
<1>6. \A x \in Task : CanWrite(x)' = CanWrite(x)
  BY DEF CanWrite, Fits, Atomic, Free
<1>7. AboutToSleep'
  BY <1>1, <1>2, <1>6 DEF AboutToSleep
<1>8. WritersServed'
  <2>1. ASSUME NEW x \in notFull, CanWrite(x)'
        PROVE  \E u \in Task : pc'[u] = "exit" /\ op'[u].end = "r"
    <3>1. x \in Task
      BY <1>1 DEF TypeOK
    <3>2. PICK u \in Task : pc[u] = "exit" /\ op[u].end = "r"
      BY <1>1, <1>6, <2>1, <3>1 DEF WritersServed
    <3>. QED  BY <1>2, <3>2
  <2>. QED  BY <2>1 DEF WritersServed
<1>9. ReadersServed'
  <2>1. ASSUME notEmpty # {}, buf # <<>>
        PROVE  \E x \in Task : \/ pc'[x] \in {"woken", "loop"} /\ op'[x].end = "r"
                               \/ pc'[x] = "exit"
    <3>1. PICK x \in Task : \/ pc[x] \in {"woken", "loop"} /\ op[x].end = "r"
                            \/ pc[x] = "exit"
      BY <1>1, <2>1 DEF ReadersServed
    <3>2. pc'[x] = pc[x]
      BY <1>2, <3>1
    <3>. QED  BY <3>1, <3>2
  <2>. QED  BY <1>1, <2>1 DEF ReadersServed
<1>. QED  BY <1>3, <1>4, <1>5, <1>7, <1>8, <1>9 DEF PipeInv

LEMMA SetFlStep ==
  ASSUME PipeInv, NEW t \in Task, NEW e \in End, SetFl(t, e)
  PROVE  PipeInv'
<1>1. TypeOK /\ EndsCountHolders /\ OneClose
  BY DEF PipeInv
<1>2. /\ pc[t] = "user" /\ nonblock' = [nonblock EXCEPT ![e] = ~nonblock[e]]
      /\ UNCHANGED <<buf, handles, refs, owner, notEmpty, notFull, fds, pc, op,
                     pending, stopped, last>>
  BY DEF SetFl, At
<1>3. nonblock' \in [End -> BOOLEAN] /\ refs' \in [End -> Nat] /\ fds' \in [Task -> SUBSET End]
  BY <1>1, <1>2 DEF TypeOK
<1>4. EndsCountHolders'
  BY <1>1, <1>2 DEF EndsCountHolders, Holders, InCall
<1>5. OneClose'
  BY <1>1, <1>2 DEF OneClose
<1>. DEFINE s == "user"
<1>6. s \in {"user", "close"}
  OBVIOUS
<1>. HIDE DEF s
<1>. QED  BY <1>2, <1>3, <1>4, <1>5, <1>6, OutsideStep

\* Steps that change nothing but the signals of a task, or its life.
LEMMA SignalStep ==
  ASSUME PipeInv, NEW t \in Task, pc' \in [Task -> PC],
         UNCHANGED <<buf, last, notEmpty, notFull, ends, owner, op>>,
         pending' \in [Task -> BOOLEAN], stopped' \in [Task -> BOOLEAN],
         \A x \in Task : x # t => pc'[x] = pc[x],
         pc'[t] = pc[t] \/ (pc[t] = "user" /\ pc'[t] = "dead" /\ fds[t] = {})
  PROVE  PipeInv'
<1>1. /\ TypeOK /\ Mutex /\ Waiters /\ Asking /\ AboutToSleep /\ EndsCountHolders
      /\ OneClose
  BY DEF PipeInv
<1>2. Mutex' /\ Waiters'
  BY <1>1 DEF Mutex, Waiters
<1>3. \A f \in End : InCall(t, f)' => f \in fds[t] /\ op'[t].n > 0
  BY <1>1 DEF InCall, EndsCountHolders, Asking
<1>4. pc'[t] = "wait" =>
        IF op'[t].end = "r" THEN buf = <<>> /\ handles["w"] # 0 ELSE ~CanWrite(t)'
  <2>1. CanWrite(t)' = CanWrite(t)
    BY DEF CanWrite, Fits, Atomic, Free, ends
  <2>. QED  BY <1>1, <2>1 DEF AboutToSleep
<1>5. owner' \in Task \cup {None} /\ op' \in [Task -> Request]
  BY <1>1 DEF TypeOK
<1>6. pc'[t] \in {"unborn", "dead"} => fds[t] = {}
  BY <1>1 DEF OneClose
<1>. QED  BY <1>2, <1>3, <1>4, <1>5, <1>6, NoBytesMove

LEMMA SignalSteps ==
  ASSUME PipeInv, NEW t \in Task, Die(t) \/ Handler(t) \/ Stop(t) \/ Continue(t)
  PROVE  PipeInv'
<1>1. TypeOK
  BY DEF PipeInv
<1>2. CASE Die(t)
  <2>1. /\ pc[t] = "user" /\ fds[t] = {} /\ pc' = [pc EXCEPT ![t] = "dead"]
        /\ UNCHANGED <<buf, owner, notEmpty, notFull, op, pending, stopped, last, ends>>
    BY <1>2 DEF Die, At
  <2>2. /\ pc' \in [Task -> PC] /\ pc'[t] = "dead"
        /\ \A x \in Task : x # t => pc'[x] = pc[x]
    BY <1>1, <2>1 DEF TypeOK, PC
  <2>. QED  BY <1>1, <2>1, <2>2, SignalStep DEF TypeOK
<1>3. CASE Handler(t)
  BY <1>1, <1>3, SignalStep DEF Handler, TypeOK
<1>4. CASE Stop(t)
  BY <1>1, <1>4, SignalStep DEF Stop, TypeOK
<1>5. CASE Continue(t)
  BY <1>1, <1>5, SignalStep DEF Continue, TypeOK
<1>. QED  BY <1>2, <1>3, <1>4, <1>5

LEMMA KillStep ==
  ASSUME PipeInv, NEW t \in Task, Kill(t)
  PROVE  PipeInv'
<1>1. /\ TypeOK /\ Mutex /\ Waiters /\ Asking /\ AboutToSleep /\ WritersServed
      /\ ReadersServed /\ EndsCountHolders /\ OneClose
  BY DEF PipeInv
<1>2. /\ UNCHANGED <<buf, owner, op, last, ends>>
      /\ Step(t, IF pc[t] = "asleep" THEN "woken" ELSE pc[t],
              IF pc[t] = "asleep" THEN {t} ELSE {})
      /\ pending' \in [Task -> BOOLEAN] /\ stopped' \in [Task -> BOOLEAN]
  BY <1>1 DEF Kill, TypeOK
<1>3. CASE pc[t] # "asleep"
  <2>. DEFINE s == pc[t]
  <2>1. s \in PC /\ s # "asleep" /\ Step(t, s, {})
    BY <1>1, <1>2, <1>3 DEF TypeOK
  <2>2. /\ pc' \in [Task -> PC] /\ pc'[t] = s
        /\ \A x \in Task : x # t => pc'[x] = pc[x]
        /\ notEmpty' = notEmpty /\ notFull' = notFull
    <3>. HIDE DEF s
    <3>. QED  BY <1>2, <1>3, <2>1, StepAlone
  <2>. QED  BY <1>2, <2>2, SignalStep
<1>4. CASE pc[t] = "asleep"
  <2>1. /\ pc' \in [Task -> PC] /\ pc'[t] = "woken"
        /\ \A x \in Task : x # t => pc'[x] = pc[x]
        /\ notEmpty' = notEmpty \ {t} /\ notFull' = notFull \ {t}
    <3>1. Step(t, "woken", {t}) /\ "woken" \in PC
      BY <1>2, <1>4 DEF PC
    <3>. QED  BY <1>1, <3>1 DEF Step, TypeOK
  <2>2. UNCHANGED <<handles, refs, nonblock, fds>>
    BY <1>2 DEF ends
  <2>3. TypeOK'
    BY <1>1, <1>2, <2>1, <2>2 DEF TypeOK
  <2>4. Mutex' /\ Waiters'
    BY <1>1, <1>2, <1>4, <2>1 DEF Mutex, Waiters
  <2>5. \A x \in Task : CanWrite(x)' = CanWrite(x)
    BY <1>2, <2>2 DEF CanWrite, Fits, Atomic, Free
  <2>6. AboutToSleep'
    BY <1>1, <1>2, <2>1, <2>2, <2>5 DEF AboutToSleep
  <2>7. WritersServed'
    <3>1. ASSUME NEW x \in notFull', CanWrite(x)'
          PROVE  \E u \in Task : pc'[u] = "exit" /\ op'[u].end = "r"
      <4>1. x \in notFull /\ x \in Task
        BY <1>1, <2>1 DEF TypeOK
      <4>2. PICK u \in Task : pc[u] = "exit" /\ op[u].end = "r"
        BY <1>1, <2>5, <3>1, <4>1 DEF WritersServed
      <4>. QED  BY <1>2, <1>4, <2>1, <4>2
    <3>. QED  BY <3>1 DEF WritersServed
  <2>8. ReadersServed'
    <3>1. ASSUME notEmpty' # {}, buf # <<>>
          PROVE  \E x \in Task : \/ pc'[x] \in {"woken", "loop"} /\ op'[x].end = "r"
                                 \/ pc'[x] = "exit"
      <4>1. PICK x \in Task : \/ pc[x] \in {"woken", "loop"} /\ op[x].end = "r"
                              \/ pc[x] = "exit"
        BY <1>1, <2>1, <3>1 DEF ReadersServed
      <4>2. x # t
        BY <1>4, <4>1
      <4>. QED  BY <1>2, <2>1, <4>1, <4>2
    <3>. QED  BY <1>1, <1>2, <2>1, <2>2, <3>1 DEF ReadersServed
  <2>9. \A x \in Task, f \in End : InCall(x, f)' => InCall(x, f)
    BY <1>2, <1>4, <2>1 DEF InCall, PC
  <2>10. EndsCountHolders' /\ OneClose'
    <3>1. \A x \in Task, f \in End : InCall(x, f)' => f \in fds[x]
      BY <1>1, <2>9 DEF EndsCountHolders
    <3>2. \A x \in Task : pc'[x] \in {"unborn", "dead"} => fds[x] = {}
      BY <1>1, <2>1 DEF OneClose
    <3>3. \A x \in Task : pc[x] = "close" => pc'[x] = "close"
      BY <1>4, <2>1
    <3>. QED  BY <1>2, <2>1, <3>1, <3>2, <3>3, EndsSame
  <2>11. Asking'
    BY <1>1, <1>2, <2>9 DEF Asking
  <2>. QED  BY <2>3, <2>4, <2>6, <2>7, <2>8, <2>10, <2>11 DEF PipeInv
<1>. QED  BY <1>3, <1>4

LEMMA CloseStep ==
  ASSUME PipeInv, NEW t \in Task, NEW e \in End, Close(t, e)
  PROVE  PipeInv'
<1>1. TypeOK /\ EndsCountHolders /\ OneClose
  BY DEF PipeInv
<1>2. /\ pc[t] = "user" /\ e \in fds[t] /\ refs' = [refs EXCEPT ![e] = refs[e] - 1]
      /\ UNCHANGED <<buf, handles, nonblock, owner, notEmpty, notFull, op, pending,
                     stopped, last>>
      /\ \/ refs[e] > 1 /\ fds' = [fds EXCEPT ![t] = fds[t] \ {e}] /\ pc' = pc
         \/ ~(refs[e] > 1) /\ pc' = [pc EXCEPT ![t] = "close"] /\ fds' = fds
  BY DEF Close, At
<1>3. /\ refs \in [End -> Nat] /\ fds \in [Task -> SUBSET End]
      /\ pc \in [Task -> PC] /\ nonblock' \in [End -> BOOLEAN]
  BY <1>1, <1>2 DEF TypeOK
<1>4. /\ handles[e] = 1 /\ refs[e] = Cardinality(Holders(e)) /\ refs[e] >= 1
      /\ refs[e] = 1 => Holders(e) = {t}
  <2>1. pc[t] # "close"
    BY <1>2
  <2>. QED  BY <1>2, <2>1, HolderCounts
<1>5. refs' \in [End -> Nat] /\ refs'[e] = refs[e] - 1
      /\ \A f \in End : f # e => refs'[f] = refs[f]
  BY <1>2, <1>3, <1>4
<1>6. \A x \in Task, f \in End : InCall(x, f) => f \in fds[x]
  BY <1>1 DEF EndsCountHolders
<1>7. CASE refs[e] > 1
  <2>1. /\ fds' = [fds EXCEPT ![t] = fds[t] \ {e}] /\ pc' = pc
        /\ fds' \in [Task -> SUBSET End] /\ fds'[t] = fds[t] \ {e}
        /\ \A x \in Task : x # t => fds'[x] = fds[x]
    BY <1>2, <1>3, <1>7
  <2>2. \A f \in End : f # e => Holders(f)' = Holders(f)
    BY <2>1 DEF Holders
  <2>3. Holders(e)' = Holders(e) \ {t} /\ t \in Holders(e)
    BY <1>2, <2>1 DEF Holders
  <2>4. /\ Cardinality(Holders(e)') = refs'[e] /\ Holders(e)' # {}
    <3>1. IsFiniteSet(Holders(e))
      BY PipeAssumption, FS_Subset DEF Holders
    <3>2. /\ IsFiniteSet(Holders(e) \ {t})
          /\ Cardinality(Holders(e) \ {t}) = Cardinality(Holders(e)) - 1
      BY <2>3, <3>1, FS_RemoveElement
    <3>3. Holders(e) \ {t} # {}
      BY <1>3, <1>4, <1>7, <3>2, FS_EmptySet
    <3>. QED  BY <1>4, <1>5, <2>3, <3>2, <3>3
  <2>5. EndsCountHolders'
    <3>1. ASSUME NEW f \in End
          PROVE  /\ handles'[f] = IF Holders(f)' = {} THEN 0 ELSE 1
                 /\ \/ refs'[f] = Cardinality(Holders(f)')
                    \/ refs'[f] = 0 /\ \E x \in Task : Holders(f)' = {x} /\ pc'[x] = "close"
      BY <1>1, <1>2, <1>4, <1>5, <2>1, <2>2, <2>4 DEF EndsCountHolders
    <3>2. ASSUME NEW f \in End, NEW x \in Task, InCall(x, f)'  PROVE f \in fds'[x]
      BY <1>2, <1>6, <2>1, <3>2 DEF InCall
    <3>. QED  BY <3>1, <3>2 DEF EndsCountHolders
  <2>6. OneClose'
    BY <1>1, <1>3, <1>5, <1>7, <2>1 DEF OneClose
  <2>. DEFINE s == "user"
  <2>7. s \in {"user", "close"}
    OBVIOUS
  <2>. HIDE DEF s
  <2>. QED  BY <1>2, <1>3, <1>5, <2>1, <2>5, <2>6, <2>7, OutsideStep
<1>8. CASE ~(refs[e] > 1)
  <2>1. /\ pc' = [pc EXCEPT ![t] = "close"] /\ fds' = fds
        /\ pc'[t] = "close" /\ \A x \in Task : x # t => pc'[x] = pc[x]
        /\ fds' \in [Task -> SUBSET End]
    BY <1>2, <1>3, <1>8
  <2>2. refs[e] = 1 /\ Holders(e) = {t} /\ refs'[e] = 0
    BY <1>3, <1>4, <1>5, <1>8
  <2>3. \A f \in End : Holders(f)' = Holders(f)
    BY <2>1 DEF Holders
  <2>4. EndsCountHolders'
    <3>1. ASSUME NEW f \in End
          PROVE  /\ handles'[f] = IF Holders(f)' = {} THEN 0 ELSE 1
                 /\ \/ refs'[f] = Cardinality(Holders(f)')
                    \/ refs'[f] = 0 /\ \E x \in Task : Holders(f)' = {x} /\ pc'[x] = "close"
      <4>1. CASE f = e
        BY <1>2, <1>4, <2>1, <2>2, <2>3, <4>1
      <4>2. CASE f # e
        BY <1>1, <1>2, <1>5, <2>1, <2>3, <4>2 DEF EndsCountHolders
      <4>. QED  BY <4>1, <4>2
    <3>2. ASSUME NEW f \in End, NEW x \in Task, InCall(x, f)'  PROVE f \in fds'[x]
      BY <1>2, <1>6, <2>1, <3>2 DEF InCall
    <3>. QED  BY <3>1, <3>2 DEF EndsCountHolders
  <2>5. OneClose'
    <3>1. ASSUME NEW x \in Task, fds[x] = End  PROVE \E f \in End : refs'[f] # 0
      <4>1. x \in Holders(e) /\ x = t
        BY <2>2, <3>1 DEF Holders
      <4>2. PICK f \in End : f # e
        OBVIOUS
      <4>3. f \in fds[t] /\ refs[f] >= 1
        BY <1>2, <3>1, <4>1, HolderCounts
      <4>. QED  BY <1>3, <1>5, <4>2, <4>3
    <3>. QED  BY <1>1, <2>1, <3>1 DEF OneClose
  <2>. DEFINE s == "close"
  <2>6. s \in {"user", "close"} /\ pc' = [pc EXCEPT ![t] = s]
    BY <2>1
  <2>. HIDE DEF s
  <2>. QED  BY <1>2, <1>3, <1>5, <2>1, <2>4, <2>5, <2>6, OutsideStep
<1>. QED  BY <1>7, <1>8

LEMMA ForkStep ==
  ASSUME PipeInv, NEW t \in Task, NEW u \in Task, Fork(t, u)
  PROVE  PipeInv'
<1>1. TypeOK /\ EndsCountHolders /\ OneClose
  BY DEF PipeInv
<1>2. /\ pc[t] = "user" /\ pc[u] = "unborn"
      /\ refs' = [e \in End |-> IF e \in fds[t] THEN refs[e] + 1 ELSE refs[e]]
      /\ fds' = [fds EXCEPT ![u] = fds[t]] /\ pc' = [pc EXCEPT ![u] = "user"]
      /\ UNCHANGED <<buf, handles, nonblock, owner, notEmpty, notFull, op, pending,
                     stopped, last>>
  BY DEF Fork, At
<1>3. /\ refs \in [End -> Nat] /\ fds \in [Task -> SUBSET End]
      /\ pc \in [Task -> PC] /\ nonblock' \in [End -> BOOLEAN]
  BY <1>1, <1>2 DEF TypeOK
<1>4. /\ fds' \in [Task -> SUBSET End] /\ fds'[u] = fds[t] /\ fds[u] = {} /\ u # t
      /\ \A x \in Task : x # u => fds'[x] = fds[x] /\ pc'[x] = pc[x]
      /\ pc'[u] = "user"
  BY <1>1, <1>2, <1>3 DEF OneClose
<1>5. /\ refs' \in [End -> Nat]
      /\ \A f \in End : refs'[f] = IF f \in fds[t] THEN refs[f] + 1 ELSE refs[f]
  BY <1>2, <1>3
<1>6. ASSUME NEW f \in End
      PROVE  /\ handles'[f] = IF Holders(f)' = {} THEN 0 ELSE 1
             /\ \/ refs'[f] = Cardinality(Holders(f)')
                \/ refs'[f] = 0 /\ \E x \in Task : Holders(f)' = {x} /\ pc'[x] = "close"
  <2>1. CASE f \in fds[t]
    <3>1. handles[f] = 1 /\ refs[f] = Cardinality(Holders(f))
      BY <1>2, <2>1, HolderCounts
    <3>2. Holders(f)' = Holders(f) \cup {u} /\ u \notin Holders(f)
      BY <1>4, <2>1 DEF Holders
    <3>3. IsFiniteSet(Holders(f))
      BY PipeAssumption, FS_Subset DEF Holders
    <3>4. Cardinality(Holders(f) \cup {u}) = Cardinality(Holders(f)) + 1
      BY <3>2, <3>3, FS_AddElement
    <3>. QED  BY <1>2, <1>5, <2>1, <3>1, <3>2, <3>4
  <2>2. CASE f \notin fds[t]
    <3>1. Holders(f)' = Holders(f)
      BY <1>4, <2>2 DEF Holders
    <3>2. \A x \in Task : pc[x] = "close" => pc'[x] = "close"
      BY <1>2, <1>4
    <3>. QED  BY <1>1, <1>2, <1>5, <2>2, <3>1, <3>2 DEF EndsCountHolders
  <2>. QED  BY <2>1, <2>2
<1>7. ASSUME NEW f \in End, NEW x \in Task, InCall(x, f)'  PROVE f \in fds'[x]
  BY <1>1, <1>2, <1>4, <1>7 DEF InCall, EndsCountHolders, PC
<1>8. EndsCountHolders'
  BY <1>6, <1>7 DEF EndsCountHolders
<1>9. OneClose'
  <2>1. ASSUME NEW x \in Task, fds'[x] = End  PROVE \E f \in End : refs'[f] # 0
    <3>1. fds[x] = End \/ fds[t] = End
      BY <1>4, <2>1
    <3>2. PICK f \in End : refs[f] # 0
      BY <1>1, <3>1 DEF OneClose
    <3>. QED  BY <1>3, <1>5, <3>2
  <2>. QED  BY <1>1, <1>4, <2>1 DEF OneClose
<1>. DEFINE s == "user"
<1>10. s \in {"user", "close"} /\ pc' = [pc EXCEPT ![u] = s]
  BY <1>2
<1>. HIDE DEF s
<1>. QED  BY <1>2, <1>3, <1>4, <1>5, <1>8, <1>9, <1>10, OutsideStep

\* When the last reference to an end goes, everybody asleep is woken.
LEMMA CloseLastStep ==
  ASSUME PipeInv, NEW t \in Task, NEW e \in End, CloseLast(t, e)
  PROVE  PipeInv'
<1>1. /\ TypeOK /\ Mutex /\ Waiters /\ Asking /\ EndsCountHolders /\ OneClose
  BY DEF PipeInv
<1>2. /\ pc[t] = "close" /\ e \in fds[t] /\ refs[e] = 0 /\ owner = None
      /\ handles' = [handles EXCEPT ![e] = handles[e] - 1]
      /\ Step(t, "user", IF handles[e] = 1 THEN notEmpty \cup notFull ELSE {})
      /\ fds' = [fds EXCEPT ![t] = fds[t] \ {e}]
      /\ UNCHANGED <<buf, refs, nonblock, owner, op, pending, stopped, last>>
  BY DEF CloseLast, At
<1>3. handles[e] = 1 /\ Holders(e) = {t}
  BY <1>2, HolderCounts
<1>. DEFINE W == notEmpty \cup notFull
<1>4. /\ pc' \in [Task -> PC] /\ pc'[t] = "user"
      /\ \A x \in Task : x # t => pc'[x] = IF x \in W THEN "woken" ELSE pc[x]
      /\ \A x \in Task : x \in W => x # t /\ pc[x] = "asleep"
      /\ notEmpty' = notEmpty \ W /\ notFull' = notFull \ W
      /\ Waiters'
  <2>1. "user" \in PC
    BY DEF PC
  <2>2. Step(t, "user", W) /\ W \subseteq notEmpty \cup notFull
    BY <1>2, <1>3
  <2>. HIDE DEF W
  <2>. QED  BY <1>2, <2>1, <2>2, StepMoves
<1>5. notEmpty' = {} /\ notFull' = {}
  BY <1>4
<1>6. /\ handles' \in [End -> Nat] /\ handles'[e] = 0
      /\ \A f \in End : f # e => handles'[f] = handles[f]
      /\ fds' \in [Task -> SUBSET End] /\ fds'[t] = fds[t] \ {e}
      /\ \A x \in Task : x # t => fds'[x] = fds[x]
  BY <1>1, <1>2, <1>3 DEF TypeOK
<1>. HIDE DEF W
<1>7. TypeOK'
  BY <1>1, <1>2, <1>4, <1>5, <1>6 DEF TypeOK
<1>8. Mutex' /\ AboutToSleep'
  BY <1>1, <1>2, <1>4, PipeAssumption DEF Mutex, AboutToSleep
<1>9. WritersServed' /\ ReadersServed'
  BY <1>5 DEF WritersServed, ReadersServed
<1>10. \A x \in Task, f \in End : InCall(x, f)' => x # t /\ InCall(x, f)
  BY <1>2, <1>4 DEF InCall, PC
<1>11. Asking'
  BY <1>1, <1>2, <1>10 DEF Asking
<1>12. EndsCountHolders'
  <2>1. Holders(e)' = {} /\ \A f \in End : f # e => Holders(f)' = Holders(f)
    BY <1>3, <1>6 DEF Holders
  <2>2. ASSUME NEW f \in End
        PROVE  /\ handles'[f] = IF Holders(f)' = {} THEN 0 ELSE 1
               /\ \/ refs'[f] = Cardinality(Holders(f)')
                  \/ refs'[f] = 0 /\ \E x \in Task : Holders(f)' = {x} /\ pc'[x] = "close"
    <3>1. CASE f = e
      BY <1>2, <1>6, <2>1, <3>1, FS_EmptySet
    <3>2. CASE f # e
      <4>1. /\ handles[f] = IF Holders(f) = {} THEN 0 ELSE 1
            /\ \/ refs[f] = Cardinality(Holders(f))
               \/ refs[f] = 0 /\ \E x \in Task : Holders(f) = {x} /\ pc[x] = "close"
        BY <1>1 DEF EndsCountHolders
      <4>2. ASSUME NEW x \in Task, refs[f] = 0, Holders(f) = {x}, pc[x] = "close"
            PROVE  pc'[x] = "close"
        <5>1. x # t
          <6>1. ASSUME x = t  PROVE FALSE
            <7>1. fds[t] = End
              BY <1>1, <1>2, <3>2, <4>2, <6>1 DEF Holders, TypeOK
            <7>2. PICK g \in End : refs[g] # 0
              BY <1>1, <7>1 DEF OneClose
            <7>. QED  BY <1>2, <3>2, <4>2, <7>2
          <6>. QED  BY <6>1
        <5>. QED  BY <1>4, <4>2, <5>1
      <4>. QED  BY <1>2, <1>6, <2>1, <3>2, <4>1, <4>2
    <3>. QED  BY <3>1, <3>2
  <2>3. ASSUME NEW f \in End, NEW x \in Task, InCall(x, f)'  PROVE f \in fds'[x]
    BY <1>1, <1>6, <1>10, <2>3 DEF EndsCountHolders
  <2>. QED  BY <2>2, <2>3 DEF EndsCountHolders
<1>13. OneClose'
  <2>1. \A x \in Task : pc'[x] \in {"unborn", "dead"} => x # t /\ pc[x] = pc'[x]
    BY <1>4
  <2>2. \A x \in Task : fds'[x] = End => x # t
    BY <1>6
  <2>. QED  BY <1>1, <1>2, <1>6, <2>1, <2>2 DEF OneClose
<1>. QED  BY <1>4, <1>7, <1>8, <1>9, <1>11, <1>12, <1>13 DEF PipeInv

LEMMA StartsRight == Init => PipeInv
<1>. SUFFICES ASSUME Init PROVE PipeInv
  OBVIOUS
<1>1. /\ buf = <<>> /\ fds \in InitFds /\ owner = None /\ notEmpty = {} /\ notFull = {}
      /\ handles = [e \in End |-> IF Holders(e) = {} THEN 0 ELSE 1]
      /\ refs = [e \in End |-> Cardinality(Holders(e))]
      /\ pc = [t \in Task |-> IF fds[t] = {} THEN "unborn" ELSE "user"]
      /\ op = [t \in Task |-> NoCall]
  BY DEF Init
<1>2. \A t \in Task : pc[t] = IF fds[t] = {} THEN "unborn" ELSE "user"
  BY <1>1
<1>3. \A e \in End : IsFiniteSet(Holders(e)) /\ Cardinality(Holders(e)) \in Nat
  BY PipeAssumption, FS_Subset, FS_CardinalityType DEF Holders
<1>4. TypeOK
  <2>1. buf \in Seq(Byte) /\ Len(buf) <= PIPE_BUF_SIZE
    BY <1>1, EmptySeq, PipeAssumption
  <2>2. NoCall \in Request
    BY DEF NoCall, Request
  <2>3. handles \in [End -> Nat] /\ refs \in [End -> Nat]
    BY <1>1, <1>3
  <2>. QED  BY <1>1, <2>1, <2>2, <2>3, PipeAssumption DEF Init, TypeOK, PC
<1>5. Mutex /\ Waiters /\ AboutToSleep /\ WritersServed /\ ReadersServed
  BY <1>1, <1>2, PipeAssumption DEF Mutex, Waiters, AboutToSleep, WritersServed, ReadersServed
<1>6. \A t \in Task, e \in End : ~InCall(t, e)
  BY <1>2 DEF InCall
<1>7. Asking /\ EndsCountHolders
  BY <1>1, <1>6 DEF Asking, EndsCountHolders
<1>8. OneClose
  <2>1. ASSUME NEW t \in Task, fds[t] = End  PROVE \E e \in End : refs[e] # 0
    <3>1. Holders("r") # {}
      BY <2>1 DEF Holders
    <3>. QED  BY <1>1, <1>3, <3>1, FS_EmptySet
  <2>. QED  BY <1>1, <1>2, <2>1 DEF OneClose
<1>. QED  BY <1>4, <1>5, <1>7, <1>8 DEF PipeInv

LEMMA NothingMoves ==
  ASSUME PipeInv, UNCHANGED vars
  PROVE  PipeInv'
<1>1. UNCHANGED <<buf, handles, refs, nonblock, owner, notEmpty, notFull, fds, pc, op,
                  pending, stopped, last>>
  BY DEF vars
<1>. QED
  BY <1>1 DEF PipeInv, TypeOK, Mutex, Waiters, Asking, AboutToSleep, WritersServed,
              ReadersServed, EndsCountHolders, OneClose, InCall, CanWrite, Fits, Atomic,
              Free, Holders

LEMMA StaysRight ==
  ASSUME PipeInv, [Next]_vars
  PROVE  PipeInv'
<1>1. CASE UNCHANGED vars \/ Gone
  BY <1>1, NothingMoves DEF Gone
<1>2. ASSUME NEW t \in Task, NEW e \in End,
             Close(t, e) \/ SetFl(t, e) \/ \E n \in Sizes[e] : Call(t, e, n)
      PROVE  PipeInv'
  BY <1>2, CloseStep, SetFlStep, CallStep
<1>3. ASSUME NEW t \in Task, Inside(t)
      PROVE  PipeInv'
  BY <1>3, ReadLoopStep, WriteBrokenStep, WriteAllStep, WriteSomeStep, WaitStep, FinishStep
  DEF Inside, WriteLoop
<1>4. ASSUME NEW t \in Task, Acquire(t)
      PROVE  PipeInv'
  BY <1>4, LockStep, RelockStep, CloseLastStep DEF Acquire
<1>5. ASSUME NEW t \in Task, \E u \in Task : Fork(t, u)
      PROVE  PipeInv'
  BY <1>5, ForkStep
<1>6. ASSUME NEW t \in Task, Die(t) \/ Kill(t) \/ Handler(t) \/ Stop(t) \/ Continue(t)
      PROVE  PipeInv'
  BY <1>6, SignalSteps, KillStep
<1>. QED  BY <1>1, <1>2, <1>3, <1>4, <1>5, <1>6 DEF Next

-----------------------------------------------------------------------------
\* The inductive invariant: whatever the processes, the buffer and the calls.
THEOREM PipeAlways == Spec => []PipeInv
<1>1. Init => PipeInv
  BY StartsRight
<1>2. PipeInv /\ [Next]_vars => PipeInv'
  BY StaysRight
<1>. QED  BY <1>1, <1>2, PTL DEF Spec

\* The types, and a buffer never fuller than its size.
THEOREM TypesAlways == Spec => []TypeOK
<1>1. PipeInv => TypeOK
  BY DEF PipeInv
<1>. QED  BY <1>1, PipeAlways, PTL

\* pipe_read's signal_all and the whole-write rule lose no writer: while the
\* mutex is free no writer sleeps that could write or should get EPIPE.
THEOREM WritersNeverForgotten == Spec => []WriterNotForgotten
<1>1. PipeInv => WriterNotForgotten
  <2>. SUFFICES ASSUME PipeInv, owner = None, NEW t \in notFull  PROVE ~CanWrite(t)
    BY DEF WriterNotForgotten
  <2>1. \A u \in Task : pc[u] # "exit"
    BY PipeAssumption DEF PipeInv, Mutex
  <2>. QED  BY <2>1 DEF PipeInv, WritersServed
<1>. QED  BY <1>1, PipeAlways, PTL

\* The chain of single wake-ups of pipe_read and pipe_write reaches every reader:
\* while bytes are there and a reader sleeps, another one is on its way to them.
THEOREM ReadersNeverForgotten == Spec => []ReaderNotForgotten
<1>1. PipeInv => ReaderNotForgotten
  <2>. SUFFICES ASSUME PipeInv, owner = None, notEmpty # {}
                PROVE  /\ handles["w"] # 0
                       /\ buf # <<>> => \E t \in Task : pc[t] = "woken" /\ op[t].end = "r"
    BY DEF ReaderNotForgotten
  <2>1. \A u \in Task : pc[u] \notin {"loop", "exit"}
    BY PipeAssumption DEF PipeInv, Mutex
  <2>. QED  BY <2>1 DEF PipeInv, ReadersServed
<1>. QED  BY <1>1, PipeAlways, PTL

\* vfs_close, fork and pipe_on_handle_close keep the counts: an end is open
\* exactly while somebody has it, and nobody is inside a call on a closed end.
THEOREM CountsFollowHolders == Spec => []EndsCountHolders
<1>1. PipeInv => EndsCountHolders
  BY DEF PipeInv
<1>. QED  BY <1>1, PipeAlways, PTL

-----------------------------------------------------------------------------
(* What the processes see of the pipe                                      *)

InProgress == {"lock", "loop", "wait", "asleep", "woken"}
Outside    == {"user", "close", "unborn", "dead"}

\* A call that is not answered has bytes to go, and none of them is through
\* unless it is a write of more than the buffer holds.
Unanswered(t) ==
  /\ op[t].rc = None /\ op[t].done < op[t].n
  /\ op[t].end = "r" \/ Atomic(t) => op[t].done = 0
CallState(t) ==
  /\ pc[t] \in InProgress => Unanswered(t)
  /\ pc[t] = "exit" => op[t].rc # None
  /\ pc[t] \in Outside => op[t] = NoCall
CallsInv == \A t \in Task : CallState(t)

\* What a step of process t leaves to the others.
Elsewhere(t) == \A x \in Task : x # t =>
  /\ op'[x] = op[x]
  /\ \/ pc'[x] = pc[x]
     \/ pc[x] \in InProgress /\ pc'[x] \in InProgress
     \/ pc[x] \in Outside /\ pc'[x] \in Outside

LEMMA CallKept ==
  ASSUME CallsInv, NEW x \in Task, op'[x] = op[x],
         \/ pc'[x] = pc[x]
         \/ pc[x] \in InProgress /\ pc'[x] \in InProgress
         \/ pc[x] \in Outside /\ pc'[x] \in Outside
  PROVE  CallState(x)'
<1>1. CallState(x)
  BY DEF CallsInv
<1>2. InProgress \cap Outside = {} /\ "exit" \notin InProgress /\ "exit" \notin Outside
  BY DEF InProgress, Outside
<1>3. Unanswered(x) => Unanswered(x)'
  BY DEF Unanswered, Atomic
<1>. QED  BY <1>1, <1>2, <1>3 DEF CallState

LEMMA CallsKept ==
  ASSUME CallsInv, NEW t \in Task, Elsewhere(t), CallState(t)'
  PROVE  CallsInv'
<1>1. ASSUME NEW x \in Task PROVE CallState(x)'
  BY CallKept DEF Elsewhere
<1>. QED  BY <1>1 DEF CallsInv

LEMMA StepElsewhere ==
  ASSUME PipeInv, NEW t \in Task, NEW s \in PC, NEW W,
         W \subseteq notEmpty \cup notFull,
         pc[t] # "asleep", s # "asleep", Step(t, s, W),
         \A x \in Task : x # t => op'[x] = op[x]
  PROVE  Elsewhere(t) /\ pc'[t] = s
<1>1. /\ pc'[t] = s
      /\ \A x \in Task : x # t => pc'[x] = IF x \in W THEN "woken" ELSE pc[x]
      /\ \A x \in Task : x \in W => x # t /\ pc[x] = "asleep"
  BY StepMoves
<1>2. ASSUME NEW x \in Task, x # t
      PROVE  \/ pc'[x] = pc[x]
             \/ pc[x] \in InProgress /\ pc'[x] \in InProgress
  <2>1. CASE x \in W
    BY <1>1, <1>2, <2>1 DEF InProgress
  <2>2. CASE x \notin W
    BY <1>1, <1>2, <2>2
  <2>. QED  BY <2>1, <2>2
<1>. QED  BY <1>1, <1>2 DEF Elsewhere

LEMMA StepQuiet ==
  ASSUME PipeInv, NEW t \in Task, NEW s \in PC,
         pc[t] # "asleep", s # "asleep", Step(t, s, {}),
         \A x \in Task : x # t => op'[x] = op[x]
  PROVE  Elsewhere(t) /\ pc'[t] = s
<1>1. pc'[t] = s /\ \A x \in Task : x # t => pc'[x] = pc[x]
  BY StepAlone
<1>. QED  BY <1>1 DEF Elsewhere

\* The answer of a call is decided.
LEMMA AnswerCalls ==
  ASSUME PipeInv, CallsInv, NEW t \in Task, NEW rc \in Int, Answer(t, rc),
         pc[t] \in {"loop", "woken"}
  PROVE  CallsInv' /\ op' = [op EXCEPT ![t] = [op[t] EXCEPT !.rc = rc]]
<1>1. op' = [op EXCEPT ![t] = [op[t] EXCEPT !.rc = rc]] /\ Step(t, "exit", {})
  BY DEF Answer
<1>2. op \in [Task -> Request] /\ op[t] \in Request
  BY DEF PipeInv, TypeOK
<1>3. op'[t].rc = rc /\ \A x \in Task : x # t => op'[x] = op[x]
  BY <1>1, <1>2 DEF Request
<1>4. Elsewhere(t) /\ pc'[t] = "exit"
  <2>1. "exit" \in PC
    BY DEF PC
  <2>. QED  BY <1>1, <1>3, <2>1, StepQuiet
<1>5. CallState(t)'
  <2>1. "exit" \notin InProgress /\ "exit" \notin Outside /\ rc # None
    BY PipeAssumption DEF InProgress, Outside
  <2>. QED  BY <1>3, <1>4, <2>1 DEF CallState
<1>. QED  BY <1>1, <1>4, <1>5, CallsKept

\* Steps that leave the calls alone and no process enters or leaves one.
LEMMA CallsSame ==
  ASSUME CallsInv, op' = op,
         \A x \in Task :
           \/ pc'[x] = pc[x]
           \/ pc[x] \in InProgress /\ pc'[x] \in InProgress
           \/ pc[x] \in Outside /\ pc'[x] \in Outside
  PROVE  CallsInv'
<1>1. ASSUME NEW x \in Task PROVE CallState(x)'
  BY CallKept
<1>. QED  BY <1>1 DEF CallsInv

\* A step that goes on inside a call, or outside of any.
LEMMA StepsOn ==
  ASSUME PipeInv, CallsInv, NEW t \in Task, NEW s \in PC, Step(t, s, {}), op' = op,
         s # "asleep", pc[t] # "asleep",
         \/ pc[t] \in InProgress /\ s \in InProgress
         \/ pc[t] \in Outside /\ s \in Outside
  PROVE  CallsInv'
<1>1. Elsewhere(t) /\ pc'[t] = s
  BY StepQuiet
<1>2. ASSUME NEW x \in Task
      PROVE  \/ pc'[x] = pc[x]
             \/ pc[x] \in InProgress /\ pc'[x] \in InProgress
             \/ pc[x] \in Outside /\ pc'[x] \in Outside
  BY <1>1 DEF Elsewhere
<1>. QED  BY <1>2, CallsSame

\* A process inside the loop has an unanswered call, with bytes to go.
LEMMA InLoop ==
  ASSUME PipeInv, CallsInv, NEW t \in Task, pc[t] \in {"loop", "woken"}
  PROVE  /\ op[t] \in Request /\ op[t].n \in Nat /\ op[t].done \in Nat
         /\ op[t].rc = None /\ op[t].done < op[t].n /\ op[t] # NoCall
         /\ op[t].end = "r" \/ Atomic(t) => op[t].done = 0
<1>1. CallState(t) /\ op[t] \in Request
  BY DEF CallsInv, PipeInv, TypeOK
<1>2. Unanswered(t)
  BY <1>1 DEF CallState, InProgress
<1>3. op[t].n \in Nat /\ op[t].done \in Nat
  BY <1>1 DEF Request
<1>4. op[t] # NoCall
  BY <1>2 DEF Unanswered, NoCall
<1>. QED  BY <1>1, <1>2, <1>3, <1>4 DEF Unanswered

-----------------------------------------------------------------------------
\* What the processes see: each step is one of PipeStream, or nothing.
Unseen == UNCHANGED <<buf, handles, nonblock, op>>

LEMMA Stutters ==
  ASSUME Unseen
  PROVE  UNCHANGED PS!vars
BY DEF Unseen, PS!vars

LEMMA CallAsks ==
  ASSUME PipeInv, CallsInv, NEW t \in Task, NEW e \in End, NEW n \in Sizes[e], Call(t, e, n)
  PROVE  CallsInv' /\ PS!Ask(t)
<1>. DEFINE r == [end |-> e, n |-> n, done |-> 0, rc |-> None]
<1>1. /\ pc[t] = "user" /\ e \in fds[t] /\ op' = [op EXCEPT ![t] = r]
      /\ Step(t, "lock", {})
      /\ UNCHANGED <<buf, handles, nonblock>>
  BY DEF Call, At, ends
<1>2. n \in Nat /\ n > 0 /\ r.rc = None /\ r.n = n /\ r.done = 0
  BY PipeAssumption
<1>3. PS!Ask(t)
  <2>1. op[t] = NoCall
    <3>1. CallState(t)
      BY DEF CallsInv
    <3>. QED  BY <1>1, <3>1 DEF CallState, Outside
  <2>2. handles[e] # 0
    BY <1>1, HolderCounts
  <2>. QED  BY <1>1, <2>1, <2>2 DEF PS!Ask, PS!NoCall, NoCall
<1>. HIDE DEF r
<1>4. op'[t] = r /\ \A x \in Task : x # t => op'[x] = op[x]
  BY <1>1 DEF PipeInv, TypeOK
<1>5. Elsewhere(t) /\ pc'[t] = "lock"
  <2>1. "lock" \in PC
    BY DEF PC
  <2>. QED  BY <1>1, <1>4, <2>1, StepQuiet
<1>6. CallState(t)'
  <2>1. Unanswered(t)'
    BY <1>2, <1>4 DEF Unanswered
  <2>2. "lock" \notin Outside
    BY DEF Outside
  <2>. QED  BY <1>5, <2>1, <2>2 DEF CallState
<1>. QED  BY <1>3, <1>5, <1>6, CallsKept

LEMMA LockSilent ==
  ASSUME PipeInv, CallsInv, NEW t \in Task, Lock(t)
  PROVE  CallsInv' /\ Unseen
<1>1. pc[t] = "lock" /\ Step(t, "loop", {}) /\ op' = op /\ Unseen
  BY DEF Lock, At, Unseen, ends
<1>2. "loop" \in PC /\ pc[t] \in InProgress /\ "loop" \in InProgress
  BY <1>1 DEF PC, InProgress
<1>. QED  BY <1>1, <1>2, StepsOn

LEMMA RelockSeen ==
  ASSUME PipeInv, CallsInv, NEW t \in Task, Relock(t)
  PROVE  CallsInv' /\ (PS!Interrupted(t) \/ Unseen)
<1>1. pc[t] = "woken" /\ UNCHANGED <<buf, handles, nonblock>>
  BY DEF Relock, At, ends
<1>2. CASE pending[t]
  <2>1. Answer(t, Ended(t, EINTR)) /\ Ended(t, EINTR) \in Int
    BY <1>2, EndedInt DEF Relock, EINTR
  <2>2. CallsInv'
    BY <1>1, <2>1, AnswerCalls
  <2>3. \E e \in End : PS!Waits(t, e)
    BY <1>1, InLoop DEF PS!Waits, PS!NoCall, NoCall, Request
  <2>4. PS!Answer(t, PS!Ended(t, -4))
    BY <2>1 DEF PS!Answer, PS!Ended, Answer, Ended, EINTR
  <2>. QED  BY <1>1, <2>2, <2>3, <2>4 DEF PS!Interrupted, PS!End
<1>3. CASE ~pending[t]
  <2>1. Step(t, "loop", {}) /\ op' = op
    BY <1>3 DEF Relock
  <2>2. "loop" \in PC /\ pc[t] \in InProgress /\ "loop" \in InProgress
    BY <1>1 DEF PC, InProgress
  <2>. QED  BY <1>1, <2>1, <2>2, StepsOn DEF Unseen
<1>. QED  BY <1>2, <1>3

LEMMA ReadLoopSeen ==
  ASSUME PipeInv, CallsInv, NEW t \in Task, ReadLoop(t)
  PROVE  /\ CallsInv'
         /\ PS!Take(t) \/ PS!EndOfFile(t) \/ PS!Refused(t, "r") \/ Unseen
<1>. DEFINE k == Less(op[t].n, Len(buf))
<1>1. pc[t] = "loop" /\ op[t].end = "r" /\ UNCHANGED <<handles, nonblock>>
  BY DEF ReadLoop, At, ends
<1>2. /\ op[t].rc = None /\ op[t].n \in Nat /\ op[t].n > 0 /\ op[t] # NoCall
      /\ op[t].done = 0
  BY <1>1, InLoop
<1>3. buf \in Seq(Byte) /\ Len(buf) \in Nat
  BY DEF PipeInv, TypeOK
<1>4. k \in Nat /\ (k > 0 => buf # <<>>) /\ (k = 0 => buf = <<>>)
  BY <1>2, <1>3 DEF Less
<1>5. PS!Waits(t, "r")
  BY <1>1, <1>2 DEF PS!Waits, PS!NoCall, NoCall
<1>6. CASE k > 0 /\ buf' = SubSeq(buf, k + 1, Len(buf)) /\ Answer(t, k)
  <2>1. PS!Take(t)
    BY <1>1, <1>4, <1>5, <1>6 DEF PS!Take, PS!Answer, Answer, PS!Less, Less
  <2>2. CallsInv'
    BY <1>1, <1>4, <1>6, AnswerCalls
  <2>. QED  BY <2>1, <2>2
<1>7. CASE k = 0 /\ handles["w"] = 0 /\ Answer(t, 0) /\ UNCHANGED buf
  <2>1. PS!EndOfFile(t)
    BY <1>1, <1>4, <1>5, <1>7 DEF PS!EndOfFile, PS!Answer, Answer
  <2>2. CallsInv'
    BY <1>1, <1>7, AnswerCalls
  <2>. QED  BY <2>1, <2>2
<1>8. CASE k = 0 /\ handles["w"] # 0 /\ nonblock["r"] /\ Answer(t, EAGAIN) /\ UNCHANGED buf
  <2>1. PS!Refused(t, "r")
    <3>1. PS!Ended(t, -11) = EAGAIN
      BY <1>2 DEF PS!Ended, EAGAIN
    <3>2. PS!Answer(t, PS!Ended(t, -11))
      BY <1>8, <3>1 DEF PS!Answer, Answer
    <3>. QED  BY <1>1, <1>4, <1>5, <1>8, <3>2 DEF PS!Refused
  <2>2. EAGAIN \in Int
    BY DEF EAGAIN
  <2>3. CallsInv'
    BY <1>1, <1>8, <2>2, AnswerCalls
  <2>. QED  BY <2>1, <2>3
<1>9. CASE Step(t, "wait", {}) /\ UNCHANGED <<buf, op>>
  <2>1. "wait" \in PC /\ pc[t] \in InProgress /\ "wait" \in InProgress
    BY <1>1 DEF PC, InProgress
  <2>. QED  BY <1>1, <1>9, <2>1, StepsOn DEF Unseen
<1>. QED  BY <1>6, <1>7, <1>8, <1>9 DEF ReadLoop

LEMMA WriteBrokenSeen ==
  ASSUME PipeInv, CallsInv, NEW t \in Task, WriteLoop(t), WriteBroken(t)
  PROVE  CallsInv' /\ PS!Broken(t)
<1>1. /\ pc[t] = "loop" /\ op[t].end = "w" /\ handles["r"] = 0
      /\ UNCHANGED <<buf, handles, nonblock>>
  BY DEF WriteLoop, WriteBroken, At, ends
<1>2. Answer(t, Ended(t, EPIPE)) /\ Ended(t, EPIPE) \in Int
  BY EndedInt DEF WriteBroken, EPIPE
<1>3. CallsInv'
  BY <1>1, <1>2, AnswerCalls
<1>4. PS!Waits(t, "w")
  BY <1>1, InLoop DEF PS!Waits, PS!NoCall, NoCall
<1>5. PS!Answer(t, PS!Ended(t, -32))
  BY <1>2 DEF PS!Answer, PS!Ended, Answer, Ended, EPIPE
<1>. QED  BY <1>1, <1>3, <1>4, <1>5 DEF PS!Broken

\* A write that has got to d bytes, with answer c or none.
LEMMA WriteCalls ==
  ASSUME PipeInv, CallsInv, NEW t \in Task, pc[t] = "loop", op[t].end = "w",
         NEW d \in Nat, NEW c \in Int \cup {None},
         op' = [op EXCEPT ![t].done = d, ![t].rc = c],
         NEW s \in {"wait", "exit"}, NEW W, W \subseteq notEmpty, Step(t, s, W),
         s = "exit" => c # None,
         s = "wait" => c = None /\ d < op[t].n /\ (Atomic(t) => d = 0)
  PROVE  CallsInv'
<1>1. /\ op' \in [Task -> Request] /\ op'[t].end = "w" /\ op'[t].n = op[t].n
      /\ \A x \in Task : x # t => op'[x] = op[x]
  BY Progress
<1>2. op'[t].done = d /\ op'[t].rc = c
  <2>1. op \in [Task -> Request] /\ op[t] \in Request
    BY DEF PipeInv, TypeOK
  <2>. QED  BY <2>1 DEF Request
<1>3. Elsewhere(t) /\ pc'[t] = s
  <2>1. s \in PC /\ s # "asleep" /\ W \subseteq notEmpty \cup notFull
    BY DEF PC
  <2>. QED  BY <1>1, <2>1, StepElsewhere
<1>4. CallState(t)'
  <2>1. s = "exit" => s \notin InProgress /\ s \notin Outside
    BY DEF InProgress, Outside
  <2>2. s = "wait" => Unanswered(t)' /\ s \notin Outside
    BY <1>1, <1>2 DEF Unanswered, Outside, Atomic
  <2>. QED  BY <1>2, <1>3, <2>1, <2>2 DEF CallState
<1>. QED  BY <1>3, <1>4, CallsKept

LEMMA WriteAllSeen ==
  ASSUME PipeInv, CallsInv, NEW t \in Task, WriteLoop(t), WriteAll(t)
  PROVE  CallsInv' /\ \E k \in 1..PIPE_BUF_SIZE : PS!Put(t, k)
<1>. DEFINE k == op[t].n - op[t].done
<1>1. /\ pc[t] = "loop" /\ op[t].end = "w" /\ handles["r"] # 0 /\ k <= Free
      /\ UNCHANGED <<handles, nonblock>>
      /\ buf' = buf \o Piece(t, k)
      /\ op' = [op EXCEPT ![t].done = op[t].n, ![t].rc = op[t].n]
      /\ Step(t, "exit", {})
  BY DEF WriteLoop, WriteAll, At, ends
<1>2. /\ op[t].rc = None /\ op[t].n \in Nat /\ op[t].done \in Nat /\ op[t] # NoCall
      /\ op[t].done < op[t].n /\ (Atomic(t) => op[t].done = 0)
  BY <1>1, InLoop
<1>3. Len(buf) \in Nat /\ PIPE_BUF_SIZE \in Nat
  BY PipeAssumption DEF PipeInv, TypeOK
<1>4. /\ k \in 1..PIPE_BUF_SIZE /\ Len(buf) + k <= PIPE_BUF_SIZE
      /\ op[t].done + k = op[t].n
  BY <1>1, <1>2, <1>3 DEF Free
<1>5. CallsInv'
  <2>1. op[t].n \in Int \cup {None} /\ op[t].n # None
    BY <1>2, PipeAssumption
  <2>. DEFINE s == "exit"  W == {}
  <2>2. s \in {"wait", "exit"} /\ s # "wait" /\ W \subseteq notEmpty /\ Step(t, s, W)
    BY <1>1
  <2>. HIDE DEF s, W
  <2>. QED  BY <1>1, <1>2, <2>1, <2>2, WriteCalls
<1>6. PS!Waits(t, "w")
  BY <1>1, <1>2 DEF PS!Waits, PS!NoCall, NoCall
<1>7. op[t].n <= PIPE_BUF_SIZE => k = op[t].n
  BY <1>2 DEF Atomic
<1>8. PICK c : c = k
  OBVIOUS
<1>. HIDE DEF k
<1>9. PS!Put(t, c)
  <2>1. op[t].done + c = op[t].n
    BY <1>4, <1>8
  <2>2. op[t].n = IF op[t].done + c = op[t].n \/ nonblock["w"] THEN op[t].done + c ELSE None
    BY <2>1
  <2>3. op' = [op EXCEPT ![t].done = op[t].done + c, ![t].rc =
                 IF op[t].done + c = op[t].n \/ nonblock["w"]
                   THEN op[t].done + c ELSE None]
    BY <1>1, <2>1, <2>2, Zenon
  <2>4. buf' = buf \o Piece(t, c)
    BY <1>1, <1>8
  <2>5. /\ c > 0 /\ op[t].done + c <= op[t].n /\ Len(buf) + c <= PIPE_BUF_SIZE
        /\ op[t].n <= PIPE_BUF_SIZE => c = op[t].n
    BY <1>2, <1>4, <1>7, <1>8, <2>1
  <2>. QED  BY <1>1, <1>6, <2>3, <2>4, <2>5 DEF PS!Put, Piece
<1>. QED  BY <1>4, <1>5, <1>8, <1>9

LEMMA WriteSomeSeen ==
  ASSUME PipeInv, CallsInv, NEW t \in Task, WriteLoop(t), WriteSome(t)
  PROVE  /\ CallsInv'
         /\ \/ \E k \in 1..PIPE_BUF_SIZE : PS!Put(t, k)
            \/ PS!Refused(t, "w")
            \/ Unseen
<1>. DEFINE k == IF Fits(t) THEN Free ELSE 0
            done == op[t].done + k
            rc == IF ~nonblock["w"] THEN None ELSE IF done > 0 THEN done ELSE EAGAIN
            s == IF nonblock["w"] THEN "exit" ELSE "wait"
<1>1. /\ pc[t] = "loop" /\ op[t].end = "w" /\ handles["r"] # 0
      /\ ~(Fits(t) /\ op[t].n - op[t].done <= Free)
      /\ UNCHANGED <<handles, nonblock>>
      /\ buf' = buf \o Piece(t, k)
      /\ op' = [op EXCEPT ![t].done = done, ![t].rc = rc]
  BY DEF WriteLoop, WriteSome, At, ends
<1>2. /\ op[t].rc = None /\ op[t].n \in Nat /\ op[t].done \in Nat /\ op[t] # NoCall
      /\ op[t].done < op[t].n /\ (Atomic(t) => op[t].done = 0)
  BY <1>1, InLoop
<1>3. Len(buf) \in Nat /\ PIPE_BUF_SIZE \in Nat /\ Free \in Nat /\ op \in [Task -> Request]
  BY PipeAssumption DEF PipeInv, TypeOK, Free
<1>4. /\ k \in Nat /\ k <= Free /\ done \in Nat /\ done < op[t].n
      /\ Atomic(t) => k = 0 /\ done = 0
  BY <1>1, <1>2, <1>3 DEF Fits, Atomic
<1>5. rc \in Int \cup {None} /\ (nonblock["w"] => rc # None)
  BY <1>4, PipeAssumption DEF EAGAIN
<1>6. PICK W \in IF Fits(t) /\ done > 0 THEN OneOf(notEmpty) ELSE {{}} : Step(t, s, W)
  BY DEF WriteSome
<1>7. CallsInv'
  <2>1. W \subseteq notEmpty
    <3>1. W = {} \/ W \in OneOf(notEmpty)
      BY <1>6
    <3>. QED  BY <3>1, OneOfWaits
  <2>2. /\ s \in {"wait", "exit"} /\ (s = "exit" => rc # None)
        /\ s = "wait" => rc = None /\ done < op[t].n /\ (Atomic(t) => done = 0)
    BY <1>4, <1>5
  <2>. HIDE DEF s, rc, done, k
  <2>. QED  BY <1>1, <1>4, <1>5, <1>6, <2>1, <2>2, WriteCalls
<1>8. PS!Waits(t, "w")
  BY <1>1, <1>2 DEF PS!Waits, PS!NoCall, NoCall
<1>9. CASE k > 0
  <2>1. PICK c : c = k
    OBVIOUS
  <2>2. c \in 1..PIPE_BUF_SIZE /\ Len(buf) + c <= PIPE_BUF_SIZE /\ op[t].done + c = done
    BY <1>3, <1>4, <1>9, <2>1 DEF Free
  <2>3. op[t].n > PIPE_BUF_SIZE
    BY <1>2, <1>3, <1>4, <1>9 DEF Atomic
  <2>4. rc = IF done = op[t].n \/ nonblock["w"] THEN done ELSE None
    BY <1>2, <1>4, <1>9
  <2>. HIDE DEF k, rc, done
  <2>5. op' = [op EXCEPT ![t].done = op[t].done + c, ![t].rc =
                 IF op[t].done + c = op[t].n \/ nonblock["w"]
                   THEN op[t].done + c ELSE None]
    BY <1>1, <2>2, <2>4, Zenon
  <2>6. op[t].done + c <= op[t].n
    BY <1>2, <1>4, <2>2
  <2>7. buf' = buf \o Piece(t, c) /\ c > 0 /\ ~(op[t].n <= PIPE_BUF_SIZE)
    BY <1>1, <1>2, <1>3, <1>9, <2>1, <2>3
  <2>8. PS!Put(t, c)
    BY <1>1, <1>8, <2>2, <2>5, <2>6, <2>7 DEF PS!Put, Piece
  <2>. QED  BY <1>7, <2>2, <2>8
<1>10. CASE k = 0
  <2>1. done = op[t].done /\ op[t] \in Request
    BY <1>2, <1>3, <1>10
  <2>2. buf' = buf
    <3>1. k \in Int /\ k <= Free /\ k <= 0
      BY <1>4, <1>10
    <3>. HIDE DEF k
    <3>. QED  BY <1>1, <3>1, PieceFits
  <2>3. op' = [op EXCEPT ![t].rc = rc]
    <3>. HIDE DEF rc, done
    <3>1. op' = [op EXCEPT ![t] = [op[t] EXCEPT !.done = done, !.rc = rc]]
      BY <1>1, <1>3
    <3>2. [op[t] EXCEPT !.done = done, !.rc = rc] = [op[t] EXCEPT !.rc = rc]
      BY <2>1 DEF Request
    <3>. QED  BY <3>1, <3>2
  <2>4. CASE ~nonblock["w"]
    <3>1. rc = op[t].rc
      BY <1>2, <2>4
    <3>2. [op[t] EXCEPT !.rc = rc] = op[t]
      <4>. HIDE DEF rc
      <4>. QED  BY <2>1, <3>1 DEF Request
    <3>. HIDE DEF rc
    <3>3. op' = op
      BY <1>3, <2>3, <3>2
    <3>. QED  BY <1>1, <1>7, <2>2, <3>3 DEF Unseen
  <2>5. CASE nonblock["w"]
    <3>1. rc = PS!Ended(t, -11)
      BY <2>1, <2>5 DEF PS!Ended, EAGAIN
    <3>2. PS!Answer(t, PS!Ended(t, -11))
      <4>. HIDE DEF rc
      <4>. QED  BY <2>3, <3>1 DEF PS!Answer
    <3>3. Len(buf) + (IF op[t].n <= PIPE_BUF_SIZE THEN op[t].n ELSE 1) > PIPE_BUF_SIZE
      <4>1. CASE Atomic(t)
        <5>1. ~Fits(t)
          BY <1>1, <1>2, <1>3, <4>1 DEF Fits
        <5>. QED  BY <1>2, <1>3, <4>1, <5>1 DEF Fits, Atomic, Free
      <4>2. CASE ~Atomic(t)
        <5>1. Free = 0
          BY <1>10, <4>2 DEF Fits
        <5>. QED  BY <1>2, <1>3, <4>2, <5>1 DEF Atomic, Free
      <4>. QED  BY <4>1, <4>2
    <3>4. PS!Refused(t, "w")
      BY <1>1, <1>8, <2>2, <2>5, <3>2, <3>3 DEF PS!Refused
    <3>. QED  BY <1>7, <3>4
  <2>. QED  BY <2>4, <2>5
<1>. QED  BY <1>4, <1>9, <1>10

LEMMA WaitSilent ==
  ASSUME PipeInv, CallsInv, NEW t \in Task, Wait(t)
  PROVE  CallsInv' /\ Unseen
<1>1. /\ pc[t] = "wait" /\ pc' = [pc EXCEPT ![t] = "asleep"]
      /\ op' = op /\ Unseen
  BY DEF Wait, At, Unseen, ends
<1>2. ASSUME NEW x \in Task
      PROVE  \/ pc'[x] = pc[x]
             \/ pc[x] \in InProgress /\ pc'[x] \in InProgress
  BY <1>1 DEF InProgress, PipeInv, TypeOK
<1>. QED  BY <1>1, <1>2, CallsSame

LEMMA FinishReturns ==
  ASSUME PipeInv, CallsInv, NEW t \in Task, Finish(t)
  PROVE  CallsInv' /\ PS!Return(t)
<1>1. /\ pc[t] = "exit" /\ op' = [op EXCEPT ![t] = NoCall]
      /\ UNCHANGED <<buf, handles, nonblock>>
  BY DEF Finish, At, ends
<1>2. op'[t] = NoCall /\ \A x \in Task : x # t => op'[x] = op[x]
  BY <1>1 DEF PipeInv, TypeOK
<1>3. op[t].rc # None /\ op[t] # NoCall
  <2>1. CallState(t)
    BY DEF CallsInv
  <2>. QED  BY <1>1, <2>1 DEF CallState, NoCall
<1>4. PICK W \in IF op[t].end = "r" THEN WokenByRead ELSE WokenByWrite :
        Step(t, "user", W)
  BY DEF Finish
<1>5. W \subseteq notEmpty \cup notFull
  <2>1. CASE op[t].end = "r"
    <3>1. PICK V \in IF buf = <<>> THEN {{}} ELSE OneOf(notEmpty) : W = notFull \cup V
      BY <1>4, <2>1 DEF WokenByRead
    <3>. QED  BY <3>1, OneOfWaits
  <2>2. CASE op[t].end # "r"
    <3>1. PICK V \in OneOf(notEmpty),
               U \in IF Free = 0 THEN {{}} ELSE OneOf(notFull) : W = V \cup U
      BY <1>4, <2>2 DEF WokenByWrite
    <3>2. V \subseteq notEmpty /\ U \subseteq notFull
      BY <3>1, OneOfWaits
    <3>. QED  BY <3>1, <3>2
  <2>. QED  BY <2>1, <2>2
<1>6. Elsewhere(t) /\ pc'[t] = "user"
  <2>1. "user" \in PC
    BY DEF PC
  <2>. QED  BY <1>1, <1>2, <1>4, <1>5, <2>1, StepElsewhere
<1>7. CallState(t)'
  BY <1>2, <1>6 DEF CallState, InProgress
<1>8. PS!Return(t)
  BY <1>1, <1>3 DEF PS!Return, PS!NoCall, NoCall
<1>. QED  BY <1>6, <1>7, <1>8, CallsKept

LEMMA CloseLastSeen ==
  ASSUME PipeInv, CallsInv, NEW t \in Task, NEW e \in End, CloseLast(t, e)
  PROVE  CallsInv' /\ PS!Closed
<1>1. /\ pc[t] = "close" /\ e \in fds[t]
      /\ handles' = [handles EXCEPT ![e] = handles[e] - 1]
      /\ Step(t, "user", IF handles[e] = 1 THEN notEmpty \cup notFull ELSE {})
      /\ UNCHANGED <<buf, nonblock, op>>
  BY DEF CloseLast, At
<1>2. handles[e] = 1 /\ handles \in [End -> Nat]
  BY <1>1, HolderCounts DEF PipeInv, TypeOK
<1>3. PS!Closed
  <2>1. handles'[e] = 0 /\ \A f \in End : f # e => handles'[f] = handles[f]
    BY <1>1, <1>2
  <2>2. {f \in End : handles'[f] # 0} = {f \in End : handles[f] # 0} \ {e}
    BY <2>1
  <2>3. e \in {f \in End : handles[f] # 0}
    BY <1>2
  <2>. QED  BY <1>1, <2>2, <2>3 DEF PS!Closed
<1>. DEFINE W == notEmpty \cup notFull
<1>4. Step(t, "user", W) /\ W \subseteq notEmpty \cup notFull /\ "user" \in PC
  BY <1>1, <1>2 DEF PC
<1>. HIDE DEF W
<1>5. Elsewhere(t) /\ pc'[t] = "user"
  BY <1>1, <1>4, StepElsewhere
<1>6. ASSUME NEW x \in Task
      PROVE  \/ pc'[x] = pc[x]
             \/ pc[x] \in InProgress /\ pc'[x] \in InProgress
             \/ pc[x] \in Outside /\ pc'[x] \in Outside
  BY <1>1, <1>5 DEF Elsewhere, Outside
<1>7. CallsInv'
  BY <1>1, <1>6, CallsSame
<1>. QED  BY <1>3, <1>7

LEMMA CloseSilent ==
  ASSUME PipeInv, CallsInv, NEW t \in Task, NEW e \in End, Close(t, e)
  PROVE  CallsInv' /\ Unseen
<1>1. /\ pc[t] = "user" /\ op' = op /\ Unseen
      /\ pc' = pc \/ pc' = [pc EXCEPT ![t] = "close"]
  BY DEF Close, At, Unseen
<1>2. ASSUME NEW x \in Task
      PROVE  \/ pc'[x] = pc[x]
             \/ pc[x] \in Outside /\ pc'[x] \in Outside
  BY <1>1 DEF Outside, PipeInv, TypeOK
<1>. QED  BY <1>1, <1>2, CallsSame

LEMMA ForkSilent ==
  ASSUME PipeInv, CallsInv, NEW t \in Task, NEW u \in Task, Fork(t, u)
  PROVE  CallsInv' /\ Unseen
<1>1. /\ pc[u] = "unborn" /\ op' = op /\ Unseen
      /\ pc' = [pc EXCEPT ![u] = "user"]
  BY DEF Fork, At, Unseen
<1>2. ASSUME NEW x \in Task
      PROVE  \/ pc'[x] = pc[x]
             \/ pc[x] \in Outside /\ pc'[x] \in Outside
  BY <1>1 DEF Outside, PipeInv, TypeOK
<1>. QED  BY <1>1, <1>2, CallsSame

LEMMA SetFlSeen ==
  ASSUME PipeInv, CallsInv, NEW t \in Task, NEW e \in End, SetFl(t, e)
  PROVE  CallsInv' /\ PS!Flags
<1>1. /\ e \in fds[t] /\ nonblock' = [nonblock EXCEPT ![e] = ~nonblock[e]]
      /\ UNCHANGED <<buf, handles, op, pc>>
  BY DEF SetFl
<1>2. e \in {f \in End : handles[f] # 0}
  BY <1>1, HolderCounts
<1>3. PS!Flags
  BY <1>1, <1>2 DEF PS!Flags
<1>. QED  BY <1>1, <1>3, CallsSame

LEMMA KillSilent ==
  ASSUME PipeInv, CallsInv, NEW t \in Task, Kill(t)
  PROVE  CallsInv' /\ Unseen
<1>1. /\ op' = op /\ Unseen
      /\ Step(t, IF pc[t] = "asleep" THEN "woken" ELSE pc[t],
              IF pc[t] = "asleep" THEN {t} ELSE {})
  BY DEF Kill, Unseen, ends
<1>2. pc \in [Task -> PC]
  BY DEF PipeInv, TypeOK
<1>3. ASSUME NEW x \in Task
      PROVE  \/ pc'[x] = pc[x]
             \/ pc[x] \in InProgress /\ pc'[x] \in InProgress
  <2>1. CASE pc[t] = "asleep"
    BY <1>1, <1>2, <2>1 DEF Step, InProgress
  <2>2. CASE pc[t] # "asleep"
    BY <1>1, <1>2, <2>2 DEF Step
  <2>. QED  BY <2>1, <2>2
<1>. QED  BY <1>1, <1>3, CallsSame

LEMMA SignalsSilent ==
  ASSUME PipeInv, CallsInv, NEW t \in Task,
         Die(t) \/ Handler(t) \/ Stop(t) \/ Continue(t)
  PROVE  CallsInv' /\ Unseen
<1>1. /\ op' = op /\ Unseen
      /\ pc' = pc \/ (pc[t] = "user" /\ pc' = [pc EXCEPT ![t] = "dead"])
  BY DEF Die, Handler, Stop, Continue, At, Unseen, ends
<1>2. ASSUME NEW x \in Task
      PROVE  \/ pc'[x] = pc[x]
             \/ pc[x] \in Outside /\ pc'[x] \in Outside
  BY <1>1 DEF Outside, PipeInv, TypeOK
<1>. QED  BY <1>1, <1>2, CallsSame

LEMMA NothingSilent ==
  ASSUME CallsInv, UNCHANGED vars
  PROVE  CallsInv' /\ Unseen
<1>1. UNCHANGED <<buf, handles, nonblock, op, pc>>
  BY DEF vars, ends
<1>. QED  BY <1>1, CallsSame DEF Unseen

-----------------------------------------------------------------------------
\* Runs of bytes in which each atomic write stands in one piece.
Whole(s) ==
  /\ \A i \in 1..(Len(s) - 1) : Next2(s[i], s[i + 1])
  /\ s # <<>> => (s[Len(s)].n <= PIPE_BUF_SIZE => s[Len(s)].i = s[Len(s)].n)

Passed == IF last = None THEN buf ELSE <<last>> \o buf

LEMMA PassedWhole == AtomicWrites <=> Whole(Passed)
BY DEF AtomicWrites, Whole, Passed

\* What is left of such a run when bytes are taken from its front.
LEMMA WholeSuffix ==
  ASSUME NEW S, NEW s \in Seq(S), NEW r \in Seq(S), NEW d \in Nat,
         Len(s) = d + Len(r), \A i \in 1..Len(r) : r[i] = s[i + d], Whole(s)
  PROVE  Whole(r)
<1>1. Len(s) \in Nat /\ Len(r) \in Nat
  OBVIOUS
<1>2. ASSUME NEW i \in 1..(Len(r) - 1)  PROVE Next2(r[i], r[i + 1])
  <2>1. i + d \in 1..(Len(s) - 1) /\ i \in 1..Len(r) /\ i + 1 \in 1..Len(r)
    BY <1>1
  <2>2. r[i] = s[i + d] /\ r[i + 1] = s[i + 1 + d] /\ i + 1 + d = (i + d) + 1
    BY <2>1
  <2>3. Next2(s[i + d], s[(i + d) + 1])
    BY <2>1 DEF Whole
  <2>. QED  BY <2>2, <2>3
<1>3. ASSUME r # <<>>  PROVE r[Len(r)] = s[Len(s)] /\ s # <<>>
  <2>1. Len(r) # 0
    BY <1>3, EmptySeq
  <2>2. Len(r) \in 1..Len(r) /\ Len(r) + d = Len(s) /\ Len(s) # 0
    BY <1>1, <2>1
  <2>. QED  BY <2>2, EmptySeq
<1>. QED  BY <1>2, <1>3 DEF Whole

\* In r, the bytes d + 1 to d + k of a write of n bytes follow those of s.
Adds(s, r, k, t, d, n) ==
  /\ n <= PIPE_BUF_SIZE => d = 0 /\ k = n
  /\ Len(r) = Len(s) + k
  /\ \A i \in 1..Len(s) : r[i] = s[i]
  /\ \A i \in 1..k : r[Len(s) + i] = [by |-> t, i |-> d + i, n |-> n]

\* Bytes put at its end: all of a write, or some of one that is not atomic.
LEMMA WholeAppend ==
  ASSUME NEW s \in Seq(Byte), NEW r \in Seq(Byte), NEW k \in Nat, k > 0,
         NEW t \in Task, NEW d \in Nat, NEW n \in Nat, Adds(s, r, k, t, d, n), Whole(s)
  PROVE  Whole(r)
<1>. USE DEF Adds
<1>1. Len(s) \in Nat /\ Len(r) \in Nat /\ PIPE_BUF_SIZE \in Nat
  BY PipeAssumption
<1>2. ASSUME NEW i \in 1..(Len(r) - 1)  PROVE Next2(r[i], r[i + 1])
  <2>1. CASE i < Len(s)
    <3>1. i \in 1..(Len(s) - 1) /\ i \in 1..Len(s) /\ i + 1 \in 1..Len(s)
      BY <1>1, <2>1
    <3>. QED  BY <3>1 DEF Whole
  <2>2. CASE i = Len(s)
    <3>1. i \in 1..Len(s) /\ 1 \in 1..k /\ s # <<>>
      BY <1>1, <2>2, EmptySeq
    <3>2. r[i] = s[Len(s)] /\ r[i + 1] = [by |-> t, i |-> d + 1, n |-> n]
      BY <2>2, <3>1
    <3>3. r[i].n <= PIPE_BUF_SIZE => r[i].i = r[i].n
      BY <3>1, <3>2 DEF Whole
    <3>4. r[i].n <= PIPE_BUF_SIZE => ~(r[i].i < r[i].n)
      <4>1. r[i] \in Byte
        BY <3>1, <3>2
      <4>2. r[i].n \in Nat
        BY <4>1 DEF Byte
      <4>. QED  BY <3>3, <4>2
    <3>5. ~(r[i + 1].n <= PIPE_BUF_SIZE /\ r[i + 1].i > 1)
      BY <3>2
    <3>. QED  BY <3>4, <3>5 DEF Next2
  <2>3. CASE i > Len(s)
    <3>1. PICK j : j = i - Len(s)
      OBVIOUS
    <3>2. j \in 1..k /\ j + 1 \in 1..k /\ i = Len(s) + j /\ i + 1 = Len(s) + (j + 1)
      BY <1>1, <2>3, <3>1
    <3>3. /\ r[i] = [by |-> t, i |-> d + j, n |-> n]
          /\ r[i + 1] = [by |-> t, i |-> d + (j + 1), n |-> n]
      BY <3>2
    <3>4. d + (j + 1) = (d + j) + 1 /\ d + j = (d + (j + 1)) - 1
      BY <3>2
    <3>5. PICK x, y : x = r[i] /\ y = r[i + 1]
      OBVIOUS
    <3>6. /\ x = [by |-> t, i |-> d + j, n |-> n]
          /\ y = [by |-> t, i |-> d + (j + 1), n |-> n]
      BY <3>3, <3>5
    <3>7. y = [x EXCEPT !.i = x.i + 1] /\ x = [y EXCEPT !.i = y.i - 1]
      BY <3>4, <3>6
    <3>. QED  BY <3>5, <3>7 DEF Next2
  <2>. QED  BY <1>1, <2>1, <2>2, <2>3
<1>3. r[Len(r)].n <= PIPE_BUF_SIZE => r[Len(r)].i = r[Len(r)].n
  <2>1. k \in 1..k /\ Len(r) = Len(s) + k
    OBVIOUS
  <2>2. r[Len(r)] = [by |-> t, i |-> d + k, n |-> n]
    BY <2>1
  <2>. QED  BY <2>2
<1>. QED  BY <1>2, <1>3 DEF Whole

\* The run seen so far: its length and its bytes.
LEMMA PassedIs ==
  ASSUME NEW b \in Seq(Byte), NEW l \in Byte \cup {None}, NEW s,
         s = IF l = None THEN b ELSE <<l>> \o b
  PROVE  /\ s \in Seq(Byte)
         /\ l = None => s = b
         /\ l # None => /\ Len(s) = 1 + Len(b) /\ s[1] = l
                        /\ \A i \in 1..Len(b) : s[1 + i] = b[i]
<1>1. CASE l = None
  BY <1>1
<1>2. CASE l # None
  <2>1. l \in Byte
    BY <1>2
  <2>2. <<l>> \in Seq(Byte) /\ Len(<<l>>) = 1 /\ <<l>>[1] = l
    BY <2>1
  <2>3. s = <<l>> \o b
    BY <1>2
  <2>4. Len(b) \in Nat
    OBVIOUS
  <2>. QED  BY <1>2, <2>2, <2>3, <2>4
<1>. QED  BY <1>1, <1>2

LEMMA PieceAppends ==
  ASSUME NEW t \in Task, NEW k \in Nat, k > 0, buf \in Seq(Byte), op[t] \in Request,
         buf' = buf \o Piece(t, k)
  PROVE  /\ buf' \in Seq(Byte) /\ Len(buf') = Len(buf) + k
         /\ \A i \in 1..Len(buf) : buf'[i] = buf[i]
         /\ \A i \in 1..k :
              buf'[Len(buf) + i] = [by |-> t, i |-> op[t].done + i, n |-> op[t].n]
<1>1. ASSUME NEW i \in 1..k
      PROVE [by |-> t, i |-> op[t].done + i, n |-> op[t].n] \in Byte
  BY DEF Byte, Request
<1>2. /\ Piece(t, k) \in [1..k -> Byte]
      /\ \A i \in 1..k : Piece(t, k)[i] = [by |-> t, i |-> op[t].done + i, n |-> op[t].n]
  BY <1>1 DEF Piece
<1>3. Piece(t, k) \in Seq(Byte)
  BY <1>2, SeqDef
<1>4. Len(Piece(t, k)) = k
  <2>1. /\ Len(Piece(t, k)) \in Nat
        /\ DOMAIN Piece(t, k) = 1..Len(Piece(t, k))
    BY <1>3, LenProperties
  <2>2. DOMAIN Piece(t, k) = 1..k
    BY <1>2
  <2>3. PICK m \in Nat : m = Len(Piece(t, k)) /\ 1..m = 1..k
    BY <2>1, <2>2
  <2>4. m = k
    <3>1. k \in 1..m /\ m \in 1..k
      BY <2>3
    <3>. QED  BY <3>1
  <2>. QED  BY <2>3, <2>4
<1>5. PICK p \in Seq(Byte) : p = Piece(t, k)
  BY <1>3
<1>6. /\ Len(p) = k /\ buf' = buf \o p
      /\ \A i \in 1..k : p[i] = [by |-> t, i |-> op[t].done + i, n |-> op[t].n]
  BY <1>2, <1>4, <1>5
<1>7. Len(buf) \in Nat
  OBVIOUS
<1>8. /\ buf \o p \in Seq(Byte) /\ Len(buf \o p) = Len(buf) + k
      /\ \A i \in 1..Len(buf) : (buf \o p)[i] = buf[i]
      /\ \A i \in 1..k : (buf \o p)[Len(buf) + i] = p[i]
  <2>1. /\ Len(buf \o p) = Len(buf) + Len(p)
        /\ \A i \in 1..(Len(buf) + Len(p)) :
             (buf \o p)[i] = IF i <= Len(buf) THEN buf[i] ELSE p[i - Len(buf)]
    BY ConcatProperties
  <2>2. ASSUME NEW i \in 1..k  PROVE (buf \o p)[Len(buf) + i] = p[i]
    <3>1. Len(buf) + i \in 1..(Len(buf) + Len(p)) /\ (Len(buf) + i) - Len(buf) = i
          /\ ~(Len(buf) + i <= Len(buf))
      BY <1>6, <1>7
    <3>. QED  BY <2>1, <3>1
  <2>. QED  BY <1>6, <1>7, <2>1, <2>2
<1>. QED  BY <1>6, <1>8

\* pipe_write adds all of an atomic write or nothing of it.
LEMMA PutKeepsWhole ==
  ASSUME PipeInv, AtomicWrites, NEW t \in Task, NEW k \in 1..PIPE_BUF_SIZE, PS!Put(t, k),
         last' = last
  PROVE  AtomicWrites'
<1>1. /\ buf \in Seq(Byte) /\ last \in Byte \cup {None} /\ op[t] \in Request
      /\ PIPE_BUF_SIZE \in Nat
  BY PipeAssumption DEF PipeInv, TypeOK
<1>2. /\ buf' = buf \o Piece(t, k) /\ op[t].done + k <= op[t].n
      /\ op[t].n <= PIPE_BUF_SIZE => k = op[t].n
  BY DEF PS!Put, Piece
<1>3. /\ op[t].n \in Nat /\ op[t].done \in Nat /\ k \in Nat /\ k > 0
      /\ op[t].n <= PIPE_BUF_SIZE => op[t].done = 0 /\ k = op[t].n
  BY <1>1, <1>2 DEF Request
<1>4. /\ buf' \in Seq(Byte) /\ Len(buf') = Len(buf) + k
      /\ \A i \in 1..Len(buf) : buf'[i] = buf[i]
      /\ \A i \in 1..k :
           buf'[Len(buf) + i] = [by |-> t, i |-> op[t].done + i, n |-> op[t].n]
  BY <1>1, <1>2, <1>3, PieceAppends
<1>5. PICK l, b, c, s, r : /\ l = last /\ b = buf /\ c = buf' /\ s = Passed
                           /\ r = IF l = None THEN c ELSE <<l>> \o c
  OBVIOUS
<1>6. /\ s \in Seq(Byte) /\ (l = None => s = b)
      /\ l # None => /\ Len(s) = 1 + Len(b) /\ s[1] = l
                     /\ \A i \in 1..Len(b) : s[1 + i] = b[i]
  BY <1>1, <1>5, PassedIs DEF Passed
<1>7. /\ r \in Seq(Byte) /\ (l = None => r = c)
      /\ l # None => /\ Len(r) = 1 + Len(c) /\ r[1] = l
                     /\ \A i \in 1..Len(c) : r[1 + i] = c[i]
  BY <1>1, <1>4, <1>5, PassedIs
<1>8. /\ Len(b) \in Nat /\ Len(c) = Len(b) + k
      /\ \A i \in 1..Len(b) : c[i] = b[i]
      /\ \A i \in 1..k :
           c[Len(b) + i] = [by |-> t, i |-> op[t].done + i, n |-> op[t].n]
  BY <1>1, <1>4, <1>5
<1>9. /\ Len(r) = Len(s) + k /\ \A i \in 1..Len(s) : r[i] = s[i]
      /\ \A i \in 1..k : r[Len(s) + i] = [by |-> t, i |-> op[t].done + i, n |-> op[t].n]
  <2>1. CASE l = None
    BY <1>6, <1>7, <1>8, <2>1
  <2>2. CASE l # None
    <3>1. ASSUME NEW i \in 1..Len(s)  PROVE r[i] = s[i]
      <4>1. CASE i = 1
        BY <1>6, <1>7, <2>2, <4>1
      <4>2. CASE i # 1
        <5>1. PICK j : j = i - 1
          OBVIOUS
        <5>2. j \in 1..Len(b) /\ j \in 1..Len(c) /\ i = 1 + j
          BY <1>3, <1>6, <1>8, <2>2, <4>2, <5>1
        <5>. QED  BY <1>6, <1>7, <1>8, <2>2, <5>2
      <4>. QED  BY <4>1, <4>2
    <3>2. ASSUME NEW i \in 1..k
          PROVE  r[Len(s) + i] = [by |-> t, i |-> op[t].done + i, n |-> op[t].n]
      <4>1. Len(b) + i \in 1..Len(c) /\ Len(s) + i = 1 + (Len(b) + i)
        BY <1>3, <1>6, <1>8, <2>2
      <4>. QED  BY <1>7, <1>8, <2>2, <4>1
    <3>3. Len(r) = Len(s) + k
      <4>1. Len(r) = 1 + Len(c) /\ Len(s) = 1 + Len(b)
        BY <1>6, <1>7, <2>2
      <4>2. Len(b) \in Nat /\ Len(c) = Len(b) + k
        BY <1>8
      <4>. QED  BY ONLY <1>3, <4>1, <4>2
    <3>. QED  BY <3>1, <3>2, <3>3
  <2>. QED  BY <2>1, <2>2
<1>10. Whole(s)
  BY <1>5, PassedWhole
<1>11. Whole(r)
  <2>1. PICK d, n : d = op[t].done /\ n = op[t].n
    OBVIOUS
  <2>2. d \in Nat /\ n \in Nat /\ Adds(s, r, k, t, d, n)
    BY <1>3, <1>9, <2>1 DEF Adds
  <2>. QED  BY <1>3, <1>6, <1>7, <1>10, <2>2, WholeAppend
<1>12. r = IF last' = None THEN buf' ELSE <<last'>> \o buf'
  BY <1>5
<1>. QED  BY <1>11, <1>12 DEF AtomicWrites, Whole

\* pipe_read takes bytes from the front; the last of them is remembered.
LEMMA TakeKeepsWhole ==
  ASSUME PipeInv, AtomicWrites, NEW k \in Nat, k > 0, k <= Len(buf),
         buf' = SubSeq(buf, k + 1, Len(buf)), last' = buf[k]
  PROVE  AtomicWrites'
<1>1. buf \in Seq(Byte) /\ last \in Byte \cup {None} /\ Len(buf) \in Nat
  BY DEF PipeInv, TypeOK
<1>2. /\ buf' \in Seq(Byte) /\ Len(buf') = Len(buf) - k
      /\ \A i \in 1..Len(buf') : buf'[i] = buf[k + i]
  <2>1. k + 1 \in Int /\ Len(buf) \in Int /\ \A i \in (k + 1)..Len(buf) : buf[i] \in Byte
    BY <1>1
  <2>2. /\ buf' \in Seq(Byte)
        /\ Len(buf') = IF k + 1 <= Len(buf) THEN Len(buf) - (k + 1) + 1 ELSE 0
        /\ \A i \in 1..(Len(buf) - (k + 1) + 1) : buf'[i] = buf[(k + 1) + i - 1]
    BY <2>1, SubSeqProperties
  <2>3. Len(buf') = Len(buf) - k
    BY <1>1, <2>2
  <2>4. ASSUME NEW i \in 1..Len(buf')  PROVE buf'[i] = buf[k + i]
    <3>1. i \in 1..(Len(buf) - (k + 1) + 1) /\ (k + 1) + i - 1 = k + i
      BY <1>1, <2>3
    <3>. QED  BY <2>2, <3>1
  <2>. QED  BY <2>2, <2>3, <2>4
<1>3. last' \in Byte
  BY <1>1
<1>4. PICK l, m, b, c, s, r :
        /\ l = last /\ m = last' /\ b = buf /\ c = buf' /\ s = Passed
        /\ r = IF m = None THEN c ELSE <<m>> \o c
  OBVIOUS
<1>5. /\ s \in Seq(Byte) /\ (l = None => s = b)
      /\ l # None => /\ Len(s) = 1 + Len(b) /\ s[1] = l
                     /\ \A i \in 1..Len(b) : s[1 + i] = b[i]
  BY <1>1, <1>4, PassedIs DEF Passed
<1>6. /\ r \in Seq(Byte) /\ (m = None => r = c)
      /\ m # None => /\ Len(r) = 1 + Len(c) /\ r[1] = m
                     /\ \A i \in 1..Len(c) : r[1 + i] = c[i]
  <2>1. /\ c \in Seq(Byte) /\ m \in Byte \cup {None}
        /\ r = IF m = None THEN c ELSE <<m>> \o c
    BY <1>2, <1>3, <1>4
  <2>. QED  BY ONLY <2>1, PassedIs
<1>7. /\ Len(b) \in Nat /\ Len(c) = Len(b) - k /\ k <= Len(b) /\ m = b[k]
      /\ \A i \in 1..Len(c) : c[i] = b[k + i]
      /\ Whole(s)
  BY <1>1, <1>2, <1>4, PassedWhole
\* Counted from its first byte, b starts at o in s and what is left at k + o.
<1>8. PICK o \in {0, 1} : /\ Len(s) = o + Len(b)
                          /\ \A i \in 1..Len(b) : s[i + o] = b[i]
  <2>1. CASE l = None
    BY <1>5, <1>7, <2>1
  <2>2. CASE l # None
    BY <1>5, <1>7, <2>2
  <2>. QED  BY <2>1, <2>2
<1>9. CASE m = None
  <2>1. Len(s) = (k + o) + Len(r) /\ k + o \in Nat
    <3>1. Len(r) = Len(c)
      BY <1>6, <1>9
    <3>2. o \in Nat /\ Len(b) \in Nat /\ Len(c) = Len(b) - k /\ Len(s) = o + Len(b)
      BY <1>7, <1>8
    <3>. QED  BY ONLY <3>1, <3>2, k \in Nat
  <2>2. ASSUME NEW i \in 1..Len(r)  PROVE r[i] = s[i + (k + o)]
    <3>1. k + i \in 1..Len(b) /\ (k + i) + o = i + (k + o)
      BY <1>6, <1>7, <1>9
    <3>. QED  BY <1>6, <1>7, <1>8, <1>9, <3>1
  <2>3. Whole(r)
    BY <1>5, <1>6, <1>7, <2>1, <2>2, WholeSuffix
  <2>. QED  BY <1>4, <2>3 DEF AtomicWrites, Whole
<1>10. CASE m # None
  <2>. DEFINE d == (k + o) - 1
  <2>1. Len(s) = d + Len(r) /\ d \in Nat
    <3>1. Len(r) = 1 + Len(c)
      BY <1>6, <1>10
    <3>2. o \in Nat /\ Len(b) \in Nat /\ Len(c) = Len(b) - k /\ Len(s) = o + Len(b)
      BY <1>7, <1>8
    <3>. QED  BY ONLY <3>1, <3>2, k \in Nat, k > 0
  <2>2. ASSUME NEW i \in 1..Len(r)  PROVE r[i] = s[i + d]
    <3>1. CASE i = 1
      <4>1. k \in 1..Len(b) /\ k + o = i + d
        BY <1>7, <3>1
      <4>. QED  BY <1>6, <1>7, <1>8, <1>10, <3>1, <4>1
    <3>2. CASE i # 1
      <4>1. PICK j : j = i - 1
        OBVIOUS
      <4>2. /\ j \in 1..Len(c) /\ i = 1 + j /\ k + j \in 1..Len(b)
            /\ (k + j) + o = i + d
        BY <1>6, <1>7, <1>8, <1>10, <3>2, <4>1
      <4>. QED  BY <1>6, <1>7, <1>8, <1>10, <4>2
    <3>. QED  BY <3>1, <3>2
  <2>. HIDE DEF d
  <2>3. Whole(r)
    BY <1>5, <1>6, <1>7, <2>1, <2>2, WholeSuffix
  <2>. QED  BY <1>4, <2>3 DEF AtomicWrites, Whole
<1>. QED  BY <1>9, <1>10

LEMMA NothingPasses ==
  ASSUME AtomicWrites, UNCHANGED <<buf, last>>
  PROVE  AtomicWrites'
BY DEF AtomicWrites

LEMMA StreamStep ==
  ASSUME PipeInv, CallsInv, [Next]_vars
  PROVE  CallsInv' /\ [PS!Next]_(PS!vars)
<1>1. CASE UNCHANGED vars \/ Gone
  BY <1>1, NothingSilent, Stutters DEF Gone
<1>2. ASSUME NEW t \in Task, NEW e \in End,
             Close(t, e) \/ SetFl(t, e) \/ \E n \in Sizes[e] : Call(t, e, n)
      PROVE  CallsInv' /\ [PS!Next]_(PS!vars)
  <2>1. CASE Close(t, e)
    BY <2>1, CloseSilent, Stutters
  <2>2. CASE SetFl(t, e)
    BY <2>2, SetFlSeen DEF PS!Next
  <2>3. CASE \E n \in Sizes[e] : Call(t, e, n)
    BY <2>3, CallAsks DEF PS!Next
  <2>. QED  BY <1>2, <2>1, <2>2, <2>3
<1>3. ASSUME NEW t \in Task, ReadLoop(t)
      PROVE  CallsInv' /\ [PS!Next]_(PS!vars)
  <2>1. "r" \in PS!End
    BY DEF PS!End
  <2>. QED  BY <1>3, <2>1, ReadLoopSeen, Stutters DEF PS!Next
<1>4. ASSUME NEW t \in Task, WriteLoop(t)
      PROVE  CallsInv' /\ [PS!Next]_(PS!vars)
  <2>1. CASE WriteBroken(t)
    BY <1>4, <2>1, WriteBrokenSeen DEF PS!Next
  <2>2. CASE WriteAll(t)
    BY <1>4, <2>2, WriteAllSeen DEF PS!Next
  <2>3. CASE WriteSome(t)
    <3>1. "w" \in PS!End
      BY DEF PS!End
    <3>. QED  BY <1>4, <2>3, <3>1, WriteSomeSeen, Stutters DEF PS!Next
  <2>. QED  BY <1>4, <2>1, <2>2, <2>3 DEF WriteLoop
<1>5. ASSUME NEW t \in Task, Wait(t) \/ Finish(t)
      PROVE  CallsInv' /\ [PS!Next]_(PS!vars)
  BY <1>5, WaitSilent, FinishReturns, Stutters DEF PS!Next
<1>6. ASSUME NEW t \in Task, Acquire(t)
      PROVE  CallsInv' /\ [PS!Next]_(PS!vars)
  BY <1>6, LockSilent, RelockSeen, CloseLastSeen, Stutters DEF Acquire, PS!Next
<1>7. ASSUME NEW t \in Task, \E u \in Task : Fork(t, u)
      PROVE  CallsInv' /\ [PS!Next]_(PS!vars)
  BY <1>7, ForkSilent, Stutters
<1>8. ASSUME NEW t \in Task, Die(t) \/ Kill(t) \/ Handler(t) \/ Stop(t) \/ Continue(t)
      PROVE  CallsInv' /\ [PS!Next]_(PS!vars)
  BY <1>8, KillSilent, SignalsSilent, Stutters
<1>. QED  BY <1>1, <1>2, <1>3, <1>4, <1>5, <1>6, <1>7, <1>8 DEF Next, Inside

LEMMA WholeStep ==
  ASSUME PipeInv, CallsInv, AtomicWrites, [Next]_vars
  PROVE  AtomicWrites'
<1>1. CASE UNCHANGED vars \/ Gone
  BY <1>1, NothingPasses DEF Gone, vars
<1>2. ASSUME NEW t \in Task, ReadLoop(t)
      PROVE  AtomicWrites'
  <2>. DEFINE k == Less(op[t].n, Len(buf))
  <2>1. \/ k > 0 /\ buf' = SubSeq(buf, k + 1, Len(buf)) /\ last' = buf[k]
        \/ UNCHANGED <<buf, last>>
    BY <1>2 DEF ReadLoop
  <2>2. k \in Nat /\ k <= Len(buf)
    BY DEF PipeInv, TypeOK, Request, Less
  <2>. HIDE DEF k
  <2>. QED  BY <2>1, <2>2, TakeKeepsWhole, NothingPasses
<1>3. ASSUME NEW t \in Task, WriteLoop(t)
      PROVE  AtomicWrites'
  <2>1. last' = last
    BY <1>3 DEF WriteLoop
  <2>2. (\E k \in 1..PIPE_BUF_SIZE : PS!Put(t, k)) \/ buf' = buf
    <3>1. CASE WriteBroken(t)
      BY <3>1 DEF WriteBroken
    <3>2. CASE WriteAll(t)
      BY <1>3, <3>2, WriteAllSeen
    <3>3. CASE WriteSome(t)
      BY <1>3, <3>3, WriteSomeSeen DEF PS!Refused, Unseen
    <3>. QED  BY <1>3, <3>1, <3>2, <3>3 DEF WriteLoop
  <2>. QED  BY <2>1, <2>2, PutKeepsWhole, NothingPasses
<1>4. ASSUME NEW t \in Task, NEW e \in End,
             Close(t, e) \/ SetFl(t, e) \/ \E n \in Sizes[e] : Call(t, e, n)
      PROVE  AtomicWrites'
  BY <1>4, NothingPasses DEF Close, SetFl, Call
<1>5. ASSUME NEW t \in Task, Wait(t) \/ Finish(t) \/ Acquire(t)
      PROVE  AtomicWrites'
  BY <1>5, NothingPasses DEF Wait, Finish, Acquire, Lock, Relock, CloseLast
<1>6. ASSUME NEW t \in Task, \E u \in Task : Fork(t, u)
      PROVE  AtomicWrites'
  BY <1>6, NothingPasses DEF Fork
<1>7. ASSUME NEW t \in Task, Die(t) \/ Kill(t) \/ Handler(t) \/ Stop(t) \/ Continue(t)
      PROVE  AtomicWrites'
  BY <1>7, NothingPasses DEF Die, Kill, Handler, Stop, Continue
<1>. QED  BY <1>1, <1>2, <1>3, <1>4, <1>5, <1>6, <1>7 DEF Next, Inside

LEMMA StartsEmpty == Init => CallsInv /\ AtomicWrites /\ PS!Init
<1>. SUFFICES ASSUME Init PROVE CallsInv /\ AtomicWrites /\ PS!Init
  OBVIOUS
<1>1. /\ buf = <<>> /\ last = None /\ nonblock = [e \in End |-> FALSE]
      /\ op = [t \in Task |-> NoCall]
      /\ pc = [t \in Task |-> IF fds[t] = {} THEN "unborn" ELSE "user"]
  BY DEF Init
<1>2. CallsInv
  <2>1. ASSUME NEW t \in Task  PROVE CallState(t)
    <3>1. pc[t] \in {"user", "unborn"} /\ op[t] = NoCall
      BY <1>1
    <3>. QED  BY <3>1 DEF CallState, InProgress
  <2>. QED  BY <2>1 DEF CallsInv
<1>3. AtomicWrites
  <2>1. Len(buf) = 0
    BY <1>1
  <2>2. \A i \in 1..(Len(buf) - 1) : FALSE
    BY <2>1
  <2>. QED  BY <1>1, <2>2 DEF AtomicWrites
<1>4. PS!Init
  BY <1>1 DEF PS!Init, PS!NoCall, NoCall, PS!End
<1>. QED  BY <1>2, <1>3, <1>4

-----------------------------------------------------------------------------
\* Where each process is in its call: the inductive invariant of what follows.
LEMMA CallsAlways == Spec => [](PipeInv /\ CallsInv)
<1>1. Init => PipeInv /\ CallsInv
  BY StartsRight, StartsEmpty
<1>2. PipeInv /\ CallsInv /\ [Next]_vars => (PipeInv /\ CallsInv)'
  BY StaysRight, StreamStep
<1>. QED  BY <1>1, <1>2, PTL DEF Spec

\* pipe_write's promise that writes of at most PIPE_BUF_SIZE bytes are atomic:
\* whatever the writers, their bytes never mix, in the buffer or as read.
THEOREM WritesStayWhole == Spec => []AtomicWrites
<1>1. Init => AtomicWrites
  BY StartsEmpty
<1>2. PipeInv /\ CallsInv /\ AtomicWrites /\ [Next]_vars => AtomicWrites'
  BY WholeStep
<1>. QED  BY <1>1, <1>2, CallsAlways, PTL DEF Spec

\* What pipe.c does is what a pipe promises: every step of a call, a close, a
\* fork or a signal is a step of one queue of bytes or is not seen at all, and
\* each call ends with bytes moved or for a reason true when it is decided.
THEOREM PipeImplements == Spec => ImplementsPipeStream
<1>1. Init => PS!Init
  BY StartsEmpty
<1>2. PipeInv /\ CallsInv /\ [Next]_vars => [PS!Next]_(PS!vars)
  BY StreamStep
<1>. QED  BY <1>1, <1>2, CallsAlways, PTL DEF Spec, ImplementsPipeStream, PS!Spec
=============================================================================

------------------------------ MODULE FdTables ------------------------------
(***************************************************************************)
(* What descriptors promise: each process has a table from descriptors to  *)
(* open file descriptions, and a set of open descriptors that exec closes. *)
(* A description is used anew only when no process refers to it.           *)
(***************************************************************************)
EXTENDS Integers

CONSTANTS Proc, File, MaxHandles, First, None

VARIABLES table, cloexec, alive
vars == <<table, cloexec, alive>>

Fd     == 0..(MaxHandles - 1)
Empty  == [i \in Fd |-> None]
Named(f) == \E p \in Proc, i \in Fd : table[p][i] = f
LowestFree(p, ge, i) ==
  /\ i >= ge /\ table[p][i] = None
  /\ \A j \in ge..(i - 1) : table[p][j] # None

\* Descriptors I of p are closed by exec, if c, or not.
Flag(p, I, c) == cloexec' = [cloexec EXCEPT ![p] = IF c THEN @ \cup I ELSE @ \ I]

Open(p, f, c) == \E i \in Fd :
  /\ LowestFree(p, 0, i)
  /\ table' = [table EXCEPT ![p][i] = f] /\ ~Named(f)
  /\ Flag(p, {i}, c) /\ UNCHANGED alive

Pipe(p, r, w, c) == \E i, j \in Fd :
  /\ LowestFree(p, 0, i) /\ LowestFree(p, i + 1, j)
  /\ table' = [table EXCEPT ![p][i] = r, ![p][j] = w]
  /\ r # w /\ ~Named(r) /\ ~Named(w)
  /\ Flag(p, {i, j}, c) /\ UNCHANGED alive

Close(p, i) ==
  /\ table[p][i] # None
  /\ table' = [table EXCEPT ![p][i] = None]
  /\ Flag(p, {i}, FALSE) /\ UNCHANGED alive

\* dup2 onto any other slot, dup onto a free one; the flag is never inherited,
\* and set only with a free slot (F_DUPFD_CLOEXEC).
Dup(p, i, j, c) ==
  /\ table[p][i] # None /\ i # j
  /\ c => table[p][j] = None
  /\ table' = [table EXCEPT ![p][j] = table[p][i]]
  /\ Flag(p, {j}, c) /\ UNCHANGED alive

SetFd(p, i, c) ==
  table[p][i] # None /\ UNCHANGED <<table, alive>> /\ Flag(p, {i}, c)

Fork(p, c) ==
  /\ c \notin alive /\ alive' = alive \cup {c}
  /\ table' = [table EXCEPT ![c] = table[p]]
  /\ cloexec' = [cloexec EXCEPT ![c] = cloexec[p]]

Exec(p) ==
  /\ table' = [table EXCEPT ![p] =
                 [i \in Fd |-> IF i \in cloexec[p] THEN None ELSE @[i]]]
  /\ cloexec' = [cloexec EXCEPT ![p] = {}]
  /\ UNCHANGED alive

Exit(p) ==
  /\ alive' = alive \ {p}
  /\ table' = [table EXCEPT ![p] = Empty]
  /\ cloexec' = [cloexec EXCEPT ![p] = {}]

Init ==
  /\ table = [p \in Proc |-> Empty]
  /\ cloexec = [p \in Proc |-> {}]
  /\ alive = {First}

\* A process has its table to itself.
Calls(p) ==
  /\ \A q \in Proc : q # p => table'[q] = table[q]
  /\ \/ \E i \in Fd : Close(p, i)
     \/ \E c \in BOOLEAN :
          \/ \E i \in Fd : SetFd(p, i, c)
          \/ \E i, j \in Fd : Dup(p, i, j, c)
          \/ \E f \in File : Open(p, f, c)
          \/ \E r, w \in File : Pipe(p, r, w, c)
     \/ Exec(p) \/ Exit(p)

Next == \E p \in alive : Calls(p) \/ \E c \in Proc : Fork(p, c)

Spec == Init /\ [][Next]_vars
=============================================================================

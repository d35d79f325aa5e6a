------------------------ MODULE TilckSignals_proofs ------------------------
EXTENDS TilckSignals, WellFoundedInduction, TLAPS

LEMMA LeastExists ==
  ASSUME NEW S, S \subseteq Nat, S # {}
  PROVE  \E s \in S : \A o \in S : s <= o
<1> DEFINE R == {p \in Nat \X Nat : p[1] < p[2]}
<1>1. IsWellFoundedOn(R, Nat)
  BY NatLessThanWellFounded DEF OpToRel
<1>2. \E s \in S : \A o \in S : ~(<<o, s>> \in R)
  <2> HIDE DEF R
  <2> QED BY <1>1, WFMin
<1>3. \A s, o \in S : ~(<<o, s>> \in R) => s <= o
  <2> TAKE s, o \in S
  <2>1. s \in Nat /\ o \in Nat
    OBVIOUS
  <2>2. o < s => <<o, s>> \in R
    BY <2>1
  <2> QED BY <2>1, <2>2
<1> QED BY <1>2, <1>3

-----------------------------------------------------------------------------
(* What the parts of process_signals do to a task.                          *)

USE SignalsAssumption DEF Actions

LEMMA LowestIn ==
  ASSUME NEW S, S \subseteq Sig, S # {}
  PROVE  Lowest(S) \in S
<1>1. S \subseteq Nat
  OBVIOUS
<1>2. \E s \in S : \A o \in S : s <= o
  BY <1>1, LeastExists
<1> QED BY <1>2 DEF Lowest

LEMMA UnmaskedType ==
  ASSUME NEW r \in TaskRecord
  PROVE  /\ Unmasked(r) \in TaskRecord
         /\ Unmasked(r) = [r EXCEPT !.mask = r.mask \ r.faults]
BY DEF Unmasked, TaskRecord

LEMMA KilledType ==
  ASSUME NEW r \in TaskRecord, NEW current \in BOOLEAN
  PROVE  /\ Killed(r, current) \in TaskRecord
         /\ Killed(r, current) =
              IF current THEN [r EXCEPT !.state = "zombie"]
              ELSE [r EXCEPT !.code = "trampoline"]
<1>1. CASE current
  BY <1>1 DEF Killed, TaskRecord, States
<1>2. CASE ~current
  BY <1>2 DEF Killed, TaskRecord, Code
<1> QED BY <1>1, <1>2

LEMMA UnpostedType ==
  ASSUME NEW r \in TaskRecord, NEW s \in Sig
  PROVE  /\ Unposted(r, s) \in TaskRecord
         /\ Unposted(r, s) = [r EXCEPT !.pending = r.pending \ {s},
                                       !.faults  = r.faults \ {s}]
BY DEF Unposted, TaskRecord

LEMMA HandledType ==
  ASSUME NEW r \in TaskRecord, NEW s \in Sig, r.nested = 0, Frames(r)
  PROVE  /\ Handled(r, s) \in TaskRecord
         /\ Handled(r, s).nested = 1
         /\ Handled(r, s).saved \in {"main", "trampoline"}
         /\ \E e \in Code : Handled(r, s) =
              [r EXCEPT !.saved = r.code, !.code = e, !.nested = 1]
<1>1. Entry(r.handlers[s]) \in Code
  BY DEF Entry, Code
<1>2. Handled(r, s) = [r EXCEPT !.saved = r.code,
                                !.code = Entry(r.handlers[s]), !.nested = 1]
  BY DEF Handled, TaskRecord
<1>3. r.code \in {"main", "trampoline"}
  BY DEF Frames
<1> QED BY <1>1, <1>2, <1>3 DEF TaskRecord, Code

(* What process_signals leaves alone, and what it brings about.             *)
Same(d, r) ==
  /\ d.at = r.at /\ d.suspended = r.suspended
  /\ d.stop_pending = r.stop_pending /\ d.vfork_stopped = r.vfork_stopped
  /\ d.lender = r.lender

Arrived(d, r, current) ==
  /\ d \in TaskRecord /\ Frames(d) /\ Same(d, r)
  /\ d.state = r.state \/ (current /\ d.state = "zombie")
  /\ r.nested = 1 => d.nested = 1
  /\ d.state = "zombie" \/ d.code = "trampoline" \/ Attended(d)

LEMMA UnmaskedFields ==
  ASSUME NEW r \in TaskRecord, Frames(r)
  PROVE  /\ Frames(Unmasked(r)) /\ Same(Unmasked(r), r)
         /\ Unmasked(r).state = r.state /\ Unmasked(r).nested = r.nested
         /\ Unmasked(r).pending = r.pending
         /\ Unmasked(r).code = r.code /\ Unmasked(r).handlers = r.handlers
         /\ Unmasked(r).saved = r.saved
         /\ Unmasked(r).mask \subseteq r.mask
BY UnmaskedType DEF Frames, Same, TaskRecord

LEMMA UnpostedFields ==
  ASSUME NEW r \in TaskRecord, NEW s \in Sig, Frames(r)
  PROVE  /\ Frames(Unposted(r, s)) /\ Same(Unposted(r, s), r)
         /\ Unposted(r, s).state = r.state /\ Unposted(r, s).nested = r.nested
         /\ Unposted(r, s).pending \subseteq r.pending
<1> DEFINE u == Unposted(r, s)
<1>1. u = [r EXCEPT !.pending = r.pending \ {s}, !.faults = r.faults \ {s}]
  BY UnpostedType
<1> HIDE DEF u
<1>2. Same(u, r) /\ u.state = r.state /\ u.nested = r.nested
  BY <1>1 DEF Same, TaskRecord
<1>3. u.saved = r.saved /\ u.code = r.code /\ u.pending = r.pending \ {s}
  BY <1>1 DEF TaskRecord
<1>4. Frames(u)
  BY <1>2, <1>3 DEF Frames
<1> QED BY <1>2, <1>3, <1>4 DEF u

LEMMA KilledArrives ==
  ASSUME NEW r \in TaskRecord, NEW current \in BOOLEAN, Frames(r)
  PROVE  Arrived(Killed(r, current), r, current)
<1> DEFINE k == Killed(r, current)
<1>1. CASE current
  <2>1. k = [r EXCEPT !.state = "zombie"] /\ k \in TaskRecord
    BY <1>1, KilledType
  <2> HIDE DEF k
  <2>2. k.state = "zombie" /\ Frames(k) /\ Same(k, r) /\ k.nested = r.nested
    BY <2>1 DEF Frames, Same, TaskRecord
  <2> QED BY <1>1, <2>1, <2>2 DEF Arrived, k
<1>2. CASE ~current
  <2>1. k = [r EXCEPT !.code = "trampoline"] /\ k \in TaskRecord
    BY <1>2, KilledType
  <2> HIDE DEF k
  <2>2. /\ k.code = "trampoline" /\ k.state = r.state
        /\ Frames(k) /\ Same(k, r) /\ k.nested = r.nested
    BY <2>1 DEF Frames, Same, TaskRecord
  <2> QED BY <1>2, <2>1, <2>2 DEF Arrived, k
<1> QED BY <1>1, <1>2

LEMMA HandledArrives ==
  ASSUME NEW r \in TaskRecord, NEW s \in Sig, NEW current \in BOOLEAN,
         Frames(r), r.nested = 0, KILL \notin r.pending
  PROVE  Arrived(Handled(r, s), r, current) /\ Handled(r, s).nested = 1
<1> DEFINE h == Handled(r, s)
<1>1. PICK e \in Code : h = [r EXCEPT !.saved = r.code, !.code = e,
                                      !.nested = 1]
  BY HandledType
<1>2. h \in TaskRecord /\ h.nested = 1 /\ h.saved \in {"main", "trampoline"}
  BY HandledType
<1> HIDE DEF h
<1>3. h.state = r.state /\ Same(h, r) /\ h.pending = r.pending
  BY <1>1 DEF Same, TaskRecord
<1>4. Frames(h) /\ Attended(h)
  BY <1>2, <1>3 DEF Frames, Attended
<1>5. Arrived(h, r, current)
  BY <1>2, <1>3, <1>4 DEF Arrived
<1> QED BY <1>2, <1>5 DEF h

LEMMA ArrivedThrough ==
  ASSUME NEW d, NEW u, NEW r, NEW current \in BOOLEAN,
         Arrived(d, u, current), Same(u, r), u.state = r.state,
         u.nested = r.nested
  PROVE  Arrived(d, r, current)
BY DEF Arrived, Same

LEMMA ProcessedArrives ==
  ASSUME NEW r \in TaskRecord, Frames(r), NEW current \in BOOLEAN,
         NEW d \in Processed(r, current, FALSE)
  PROVE  Arrived(d, r, current)
<1> DEFINE u == Unmasked(r)
<1>1. /\ u \in TaskRecord /\ Frames(u) /\ Same(u, r)
      /\ u.state = r.state /\ u.nested = r.nested
  BY UnmaskedType, UnmaskedFields
<1> HIDE DEF u
<1>2. SUFFICES Arrived(d, u, current)
  BY <1>1, ArrivedThrough
<1>4. CASE KILL \in u.pending
  <2>1. d = Killed(u, current)
    BY <1>4 DEF Processed, u
  <2> QED BY <1>1, <2>1, KilledArrives
<1>5. CASE KILL \notin u.pending /\ Deliverable(u) = {}
  <2>1. d = u
    BY <1>5 DEF Processed, u
  <2>2. Attended(u) /\ Same(u, u)
    BY <1>5 DEF Attended, Same
  <2> QED BY <1>1, <2>1, <2>2 DEF Arrived
<1>6. CASE KILL \notin u.pending /\ Deliverable(u) # {}
  <2> DEFINE s == Lowest(Deliverable(u))
  <2>1. Deliverable(u) \subseteq Sig
    BY <1>1 DEF Deliverable, TaskRecord
  <2>2. s \in Sig
    BY <1>6, <2>1, LowestIn
  <2>3. d \in Delivered(u, current, s, FALSE)
    BY <1>6 DEF Processed, u
  <2> HIDE DEF s
  <2>4. u.nested \in {0, 1}
    BY <1>1 DEF TaskRecord
  <2>5. CASE u.nested = 1
    <3>1. d = Killed(u, current) \/ d = u
      BY <2>3, <2>5 DEF Delivered
    <3>2. Attended(u) /\ Same(u, u)
      BY <1>6, <2>5 DEF Attended, Same
    <3>3. CASE d = u
      BY <1>1, <3>2, <3>3 DEF Arrived
    <3>4. CASE d = Killed(u, current)
      BY <1>1, <3>4, KilledArrives
    <3> QED BY <3>1, <3>3, <3>4
  <2>6. CASE u.nested = 0
    <3> DEFINE w == Unposted(u, s)
    <3>1. \/ d = Killed(u, current)
          \/ d = Handled(w, s)
          \/ d = Killed(w, current)
      BY <2>3, <2>6 DEF Delivered, Interrupted
    <3>2. /\ w \in TaskRecord /\ Frames(w) /\ Same(w, u)
          /\ w.state = u.state /\ w.nested = u.nested
          /\ w.pending \subseteq u.pending
      BY <1>1, <2>2, UnpostedType, UnpostedFields
    <3> HIDE DEF w
    <3>3. CASE d = Killed(u, current)
      BY <1>1, <3>3, KilledArrives
    <3>4. CASE d = Handled(w, s)
      <4>1. KILL \notin w.pending /\ w.nested = 0
        BY <1>6, <2>6, <3>2
      <4>2. Arrived(d, w, current)
        BY <2>2, <3>2, <3>4, <4>1, HandledArrives
      <4> QED BY <3>2, <4>2, ArrivedThrough
    <3>5. CASE d = Killed(w, current)
      <4>1. Arrived(d, w, current)
        BY <3>2, <3>5, KilledArrives
      <4> QED BY <3>2, <4>1, ArrivedThrough
    <3> QED BY <3>1, <3>3, <3>4, <3>5
  <2> QED BY <2>4, <2>5, <2>6
<1> QED BY <1>4, <1>5, <1>6

LEMMA PendingDelivered ==
  ASSUME NEW r \in TaskRecord, Frames(r), PendingSignals(r),
         NEW d \in Processed(r, TRUE, FALSE)
  PROVE  d.state = "zombie" \/ d.nested = 1
<1> DEFINE u == Unmasked(r)
<1>1. u \in TaskRecord /\ Frames(u) /\ u.nested = r.nested
  BY UnmaskedType, UnmaskedFields
<1>2. u.pending = r.pending /\ u.mask \subseteq r.mask
  BY UnmaskedFields
<1>3. r.nested = 0 /\ Deliverable(r) # {}
  BY DEF PendingSignals
<1> HIDE DEF u
<1>4. Deliverable(u) # {} /\ Deliverable(u) \subseteq Sig
  BY <1>1, <1>2, <1>3 DEF Deliverable, TaskRecord
<1>5. ASSUME NEW v \in TaskRecord
      PROVE  Killed(v, TRUE).state = "zombie"
  <2>1. Killed(v, TRUE) = [v EXCEPT !.state = "zombie"]
    BY KilledType
  <2> QED BY <2>1 DEF TaskRecord
<1>6. CASE KILL \in u.pending
  <2>1. d = Killed(u, TRUE)
    BY <1>6 DEF Processed, u
  <2> QED BY <1>1, <1>5, <2>1
<1>7. CASE KILL \notin u.pending
  <2> DEFINE s == Lowest(Deliverable(u))
             w == Unposted(u, s)
  <2>1. s \in Sig
    BY <1>4, LowestIn
  <2>2. d \in Delivered(u, TRUE, s, FALSE)
    BY <1>4, <1>7 DEF Processed, u
  <2> HIDE DEF s
  <2>3. u.nested = 0
    BY <1>1, <1>3
  <2>4. d = Killed(u, TRUE) \/ d \in Interrupted(u, TRUE, s)
    <3>1. ~(u.nested > 0)
      BY <2>3
    <3>2. Delivered(u, TRUE, s, FALSE) =
            IF u.handlers[s] = "default" THEN {Killed(u, TRUE)}
            ELSE Interrupted(u, TRUE, s)
      BY <3>1 DEF Delivered
    <3>3. CASE u.handlers[s] = "default"
      BY <2>2, <3>2, <3>3
    <3>4. CASE u.handlers[s] # "default"
      BY <2>2, <3>2, <3>4
    <3> QED BY <3>3, <3>4
  <2>5. \/ d = Killed(u, TRUE)
        \/ d = Handled(w, s)
        \/ d = Killed(w, TRUE)
    BY <2>3, <2>4 DEF Interrupted
  <2>6. w \in TaskRecord
    BY <1>1, <2>1, UnpostedType
  <2>7. Frames(w) /\ w.nested = 0
    BY <1>1, <2>1, <2>3, UnpostedFields
  <2> HIDE DEF w
  <2>8. CASE d = Killed(u, TRUE)
    BY <1>1, <1>5, <2>8
  <2>9. CASE d = Handled(w, s)
    BY <2>1, <2>6, <2>7, <2>9, HandledType
  <2>10. CASE d = Killed(w, TRUE)
    BY <1>5, <2>6, <2>10
  <2> QED BY <2>5, <2>8, <2>9, <2>10
<1> QED BY <1>6, <1>7

-----------------------------------------------------------------------------
(* The inductive invariant: each task by itself, and who has lent to whom.  *)

Runs(r) ==
  r.state = "running" /\ r.at = "user" /\ r.code # "trampoline" => Attended(r)

Good(r) ==
  /\ r \in TaskRecord
  /\ Woken(r) /\ Suspension(r) /\ Frames(r) /\ Runs(r)
  /\ r.vfork_stopped => r.state = "stopped"
  /\ r.state \in {"free", "zombie"} => r.lender = None

Parked(r) == r.state = "stopped" /\ r.vfork_stopped

Lending(f) ==
  /\ \A c \in Task : f[c].lender # None => Parked(f[f[c].lender])
  /\ \A c, d \in Task :
       f[c].lender = f[d].lender /\ f[c].lender # None => c = d

Invariant(f) ==
  /\ f \in [Task -> TaskRecord]
  /\ \A t \in Task : Good(f[t])
  /\ Lending(f)

LEMMA LenderIsTask ==
  ASSUME NEW f, Invariant(f), NEW t \in Task
  PROVE  f[t] \in TaskRecord /\ f[t].lender \in Task \cup {None}
<1>1. f[t] \in TaskRecord
  BY DEF Invariant
<1> QED BY <1>1 DEF TaskRecord

LEMMA ZombieGood ==
  /\ Good(NoTask) /\ NoTask.lender = None
  /\ Good([NoTask EXCEPT !.state = "zombie"])
  /\ [NoTask EXCEPT !.state = "zombie"].lender = None
<1> DEFINE z == [NoTask EXCEPT !.state = "zombie"]
<1>1. NoTask \in TaskRecord /\ z \in TaskRecord
  BY DEF NoTask, TaskRecord, States, Places, Code, Dispositions
<1>2. NoTask.lender = None /\ z.lender = None
  BY DEF NoTask
<1>3. /\ NoTask.state = "free" /\ ~NoTask.suspended /\ NoTask.nested = 0
      /\ NoTask.saved = None /\ NoTask.code = "main" /\ ~NoTask.vfork_stopped
  BY DEF NoTask
<1>4. /\ z.state = "zombie" /\ ~z.suspended /\ z.nested = 0
      /\ z.saved = None /\ z.code = "main" /\ ~z.vfork_stopped
  BY DEF NoTask
<1> HIDE DEF z
<1>5. Good(NoTask)
  BY <1>1, <1>2, <1>3 DEF Good, Woken, Suspension, Frames, Runs
<1>6. Good(z)
  BY <1>1, <1>2, <1>4 DEF Good, Woken, Suspension, Frames, Runs
<1> QED BY <1>2, <1>5, <1>6 DEF z

LEMMA Replaced ==
  ASSUME NEW f, Invariant(f), NEW t \in Task, NEW r, Good(r),
         r.lender = f[t].lender, f[t].vfork_stopped => r.vfork_stopped
  PROVE  Invariant([f EXCEPT ![t] = r])
<1> DEFINE g == [f EXCEPT ![t] = r]
<1>1. f \in [Task -> TaskRecord] /\ r \in TaskRecord
  BY DEF Invariant, Good
<1>2. g \in [Task -> TaskRecord] /\ g[t] = r
  BY <1>1
<1>3. \A u \in Task : u # t => g[u] = f[u]
  BY <1>1
<1> HIDE DEF g
<1>4. \A u \in Task : Good(g[u])
  BY <1>2, <1>3 DEF Invariant
<1>5. \A u \in Task : g[u].lender = f[u].lender
  BY <1>2, <1>3
<1>6. \A u \in Task : Parked(f[u]) => Parked(g[u])
  <2> SUFFICES ASSUME Parked(f[t]) PROVE Parked(r)
    BY <1>2, <1>3
  <2> QED BY DEF Parked, Good
<1>7. ASSUME NEW c \in Task, g[c].lender # None
      PROVE  Parked(g[g[c].lender])
  <2>1. f[c].lender \in Task
    BY <1>5, <1>7, LenderIsTask
  <2>2. Parked(f[f[c].lender])
    BY <1>5, <1>7 DEF Invariant, Lending
  <2> QED BY <1>5, <1>6, <2>1, <2>2
<1>8. Lending(g)
  BY <1>5, <1>7 DEF Invariant, Lending
<1> QED BY <1>2, <1>4, <1>8 DEF Invariant, g

LEMMA ReleasedGood ==
  ASSUME NEW r, Good(r), Parked(r)
  PROVE  Good(Released(r)) /\ Released(r).lender = r.lender
<1> DEFINE g == Released(r)
<1>1. r \in TaskRecord
  BY DEF Good
<1>2. g = [r EXCEPT !.state = "runnable", !.vfork_stopped = FALSE]
  BY DEF Released
<1> HIDE DEF g
<1>3. g \in TaskRecord /\ g.state = "runnable" /\ ~g.vfork_stopped
  BY <1>1, <1>2 DEF TaskRecord, States
<1>4. /\ g.suspended = r.suspended /\ g.nested = r.nested /\ g.at = r.at
      /\ g.saved = r.saved /\ g.code = r.code /\ g.lender = r.lender
  BY <1>1, <1>2 DEF TaskRecord
<1>5. Good(g)
  BY <1>3, <1>4 DEF Good, Woken, Suspension, Frames, Runs
<1> QED BY <1>4, <1>5 DEF g

\* Task t gives back what it has borrowed and is r from then on.
LEMMA LentBack ==
  ASSUME NEW f, Invariant(f), NEW t \in Task, f[t].state # "stopped",
         NEW r, Good(r), r.lender = None,
         NEW g, g = [u \in Task |-> IF u = t THEN r
                       ELSE IF u = f[t].lender THEN Released(f[u]) ELSE f[u]]
  PROVE  Invariant(g)
<1> DEFINE p == f[t].lender
<1>1. p \in Task \cup {None}
  BY LenderIsTask
<1>2. p \in Task => Parked(f[p])
  BY SignalsAssumption DEF Invariant, Lending
<1>3. p # t
  BY <1>2 DEF Parked
<1> HIDE DEF p
<1>4. g[t] = r
  OBVIOUS
<1>5. p \in Task => Good(f[p]) /\ g[p] = Released(f[p])
  BY <1>3 DEF p, Invariant
<1>6. ASSUME NEW u \in Task, u # t, u # p
      PROVE  g[u] = f[u]
  BY <1>6 DEF p
<1>7. p \in Task => Good(g[p]) /\ g[p].lender = f[p].lender
  BY <1>2, <1>5, ReleasedGood
<1>8. \A u \in Task : Good(g[u])
  BY <1>4, <1>6, <1>7 DEF Invariant
<1>9. g \in [Task -> TaskRecord]
  <2>1. \A u \in Task : g[u] \in TaskRecord
    BY <1>8 DEF Good
  <2>2. g = [u \in Task |-> g[u]]
    OBVIOUS
  <2> HIDE DEF Good
  <2> QED BY <2>1, <2>2
<1>10. \A u \in Task : u # t => g[u].lender = f[u].lender
  BY <1>6, <1>7
<1>11. ASSUME NEW c \in Task, g[c].lender # None
       PROVE  Parked(g[g[c].lender])
  <2>1. c # t
    BY <1>4, <1>11
  <2>2. f[c].lender = g[c].lender
    BY <1>10, <2>1
  <2>3. f[c].lender \in Task /\ Parked(f[f[c].lender])
    BY <1>11, <2>2, LenderIsTask DEF Invariant, Lending
  <2>4. f[c].lender # t
    BY <2>3 DEF Parked
  <2>5. f[c].lender # p
    BY <1>11, <2>1, <2>2 DEF p, Invariant, Lending
  <2> QED BY <1>6, <2>2, <2>3, <2>4, <2>5
<1>12. ASSUME NEW c \in Task, NEW d \in Task,
              g[c].lender = g[d].lender, g[c].lender # None
       PROVE  c = d
  <2>1. c # t /\ d # t
    BY <1>4, <1>12
  <2>2. f[c].lender = f[d].lender /\ f[c].lender # None
    BY <1>10, <1>12, <2>1
  <2> QED BY <2>2 DEF Invariant, Lending
<1> QED BY <1>8, <1>9, <1>11, <1>12 DEF Invariant, Lending

LEMMA AfterGood ==
  ASSUME NEW f, Invariant(f), NEW t \in Task, NEW r, Good(r),
         r.state # "zombie",
         r.lender = f[t].lender, f[t].vfork_stopped => r.vfork_stopped
  PROVE  Invariant(After(f, t, r))
<1>1. f \in [Task -> TaskRecord]
  BY DEF Invariant
<1>2. After(f, t, r) = [f EXCEPT ![t] = r]
  BY <1>1 DEF After
<1>3. Invariant([f EXCEPT ![t] = r])
  BY Replaced
<1> QED BY <1>2, <1>3

LEMMA AfterZombie ==
  ASSUME NEW f, Invariant(f), NEW t \in Task, f[t].state # "stopped",
         NEW r, r.state = "zombie", r.lender = f[t].lender
  PROVE  Invariant(After(f, t, r))
<1> DEFINE z == [NoTask EXCEPT !.state = "zombie"]
<1>1. Good(z) /\ z.lender = None
  BY ZombieGood
<1> HIDE DEF z
<1>2. After(f, t, r) = [u \in Task |-> IF u = t THEN z
        ELSE IF u = f[t].lender THEN Released(f[u]) ELSE f[u]]
  BY DEF After, z
<1> QED BY <1>1, <1>2, LentBack

\* A running task goes through process_signals on its way to user mode.
Leaving(r) ==
  /\ r \in TaskRecord /\ Frames(r)
  /\ r.state = "running" /\ ~r.vfork_stopped
  /\ r.suspended => r.nested = 1 \/ PendingSignals(r)

LEMMA LeftGood ==
  ASSUME NEW r, Leaving(r), r.at = "user",
         NEW d \in Processed(r, TRUE, FALSE)
  PROVE  d.lender = r.lender /\ (d.state = "zombie" \/
           (Good(d) /\ d.state = "running"))
<1>1. Arrived(d, r, TRUE)
  BY ProcessedArrives DEF Leaving
<1>2. d \in TaskRecord /\ Frames(d) /\ Same(d, r)
  BY <1>1 DEF Arrived
<1>3. SUFFICES ASSUME d.state # "zombie"
               PROVE  Good(d) /\ d.state = "running"
  BY <1>2 DEF Same
<1>4. d.state = "running" /\ d.at = "user" /\ ~d.vfork_stopped
  BY <1>1, <1>2, <1>3 DEF Arrived, Same, Leaving
<1>5. Suspension(d)
  <2>1. SUFFICES ASSUME r.suspended PROVE d.nested = 1
    BY <1>2 DEF Suspension, Same
  <2>2. CASE r.nested = 1
    BY <1>1, <2>2 DEF Arrived
  <2>3. CASE PendingSignals(r)
    BY <1>3, <2>3, PendingDelivered DEF Leaving
  <2> QED BY <2>1, <2>2, <2>3 DEF Leaving
<1>6. Runs(d)
  BY <1>1, <1>3 DEF Arrived, Runs
<1> QED BY <1>2, <1>4, <1>5, <1>6 DEF Good, Woken

LEMMA ProcessedKeeps ==
  ASSUME NEW f, Invariant(f), NEW t \in Task, f[t].state = "running",
         NEW r, Leaving(r), r.at = "user", r.lender = f[t].lender,
         NEW d \in Processed(r, TRUE, FALSE)
  PROVE  Invariant(After(f, t, d))
<1>1. d.lender = f[t].lender
  BY LeftGood
<1>2. ~f[t].vfork_stopped
  BY DEF Invariant, Good
<1>3. CASE d.state = "zombie"
  BY <1>1, <1>3, AfterZombie
<1>4. CASE d.state # "zombie"
  <2>1. Good(d)
    BY <1>4, LeftGood
  <2> QED BY <1>1, <1>2, <1>4, <2>1, AfterGood
<1> QED BY <1>3, <1>4

LEMMA ReturnsKeeps ==
  ASSUME Invariant(ti), NEW t \in Task, ti[t].state = "running",
         NEW r, Leaving(r), r.lender = ti[t].lender, Returns(t, r)
  PROVE  Invariant(ti')
<1> DEFINE b == [r EXCEPT !.at = "user"]
<1>1. PICK d \in Processed(b, TRUE, FALSE) : ti' = After(ti, t, d)
  BY DEF Returns, Becomes
<1>2. r \in TaskRecord
  BY DEF Leaving
<1>3. b \in TaskRecord /\ b.at = "user" /\ b.lender = r.lender
  BY <1>2 DEF TaskRecord, Places
<1>4. /\ b.state = r.state /\ b.vfork_stopped = r.vfork_stopped
      /\ b.suspended = r.suspended /\ b.nested = r.nested
      /\ b.saved = r.saved /\ b.code = r.code
      /\ b.pending = r.pending /\ b.mask = r.mask
  BY <1>2 DEF TaskRecord
<1> HIDE DEF b
<1>5. Leaving(b)
  BY <1>3, <1>4 DEF Leaving, Frames, PendingSignals, Deliverable
<1> QED BY <1>1, <1>3, <1>5, ProcessedKeeps

LEMMA PauseLoopKeeps ==
  ASSUME Invariant(ti), NEW t \in Task, ti[t].state = "running",
         NEW r \in TaskRecord, Frames(r), r.state = "running",
         ~r.vfork_stopped, r.lender = ti[t].lender, PauseLoop(t, r)
  PROVE  Invariant(ti')
<1>1. CASE PendingSignals(r)
  <2>1. Returns(t, r)
    BY <1>1 DEF PauseLoop
  <2>2. Leaving(r)
    BY <1>1 DEF Leaving
  <2> QED BY <2>1, <2>2, ReturnsKeeps
<1>2. CASE ~PendingSignals(r)
  <2> DEFINE b == Asleep(r, "pause")
  <2>1. ti' = After(ti, t, b)
    BY <1>2 DEF PauseLoop, Becomes
  <2>2. b \in TaskRecord /\ b.state = "sleeping" /\ b.at = "pause"
    <3>1. b = [r EXCEPT !.state = "sleeping", !.at = "pause",
                        !.late = KILL \in r.pending]
      BY DEF Asleep
    <3>2. (KILL \in r.pending) \in BOOLEAN
      OBVIOUS
    <3> HIDE DEF b
    <3> QED BY <3>1, <3>2 DEF TaskRecord, States, Places
  <2>3. /\ b.vfork_stopped = r.vfork_stopped /\ b.nested = r.nested
        /\ b.saved = r.saved /\ b.code = r.code /\ b.lender = r.lender
        /\ b.pending = r.pending /\ b.mask = r.mask
    BY DEF Asleep, TaskRecord
  <2> HIDE DEF b
  <2>4. Woken(b)
    BY <1>2, <2>3 DEF Woken, PendingSignals, Deliverable
  <2>5. Frames(b) /\ Suspension(b) /\ Runs(b)
    BY <2>2, <2>3 DEF Frames, Suspension, Runs
  <2>6. Good(b)
    BY <2>2, <2>3, <2>4, <2>5 DEF Good
  <2>7. ~ti[t].vfork_stopped
    BY DEF Invariant, Good
  <2> QED BY <2>1, <2>2, <2>3, <2>6, <2>7, AfterGood
<1> QED BY <1>1, <1>2

-----------------------------------------------------------------------------
(* Posting a signal.                                                        *)

\* What a signal that is sent changes of a task.
Touched(q, r) ==
  /\ q \in TaskRecord
  /\ q.code = r.code /\ q.saved = r.saved /\ q.nested = r.nested
  /\ q.suspended = r.suspended /\ q.mask = r.mask /\ q.lender = r.lender
  /\ q.vfork_stopped = r.vfork_stopped
  /\ q.state = r.state \/ ~r.vfork_stopped

LEMMA PostedGood ==
  ASSUME NEW r, Good(r), NEW s \in Sig, NEW fault \in BOOLEAN,
         NEW q, q = Posted(r, s, fault)
  PROVE  /\ Touched(q, r) /\ q.at = r.at
         /\ r.state = "running" => q.state = "running"
         /\ r.state \notin {"running", "free", "zombie"} =>
              Good(q) /\ q.state \notin {"running", "zombie"}
<1>1. r \in TaskRecord
  BY DEF Good
<1> DEFINE p == [r EXCEPT !.pending = r.pending \cup {s},
                          !.faults  = IF fault THEN r.faults \cup {s}
                                      ELSE r.faults]
           a == [p EXCEPT !.stop_pending = FALSE,
                          !.state = IF \/ p.state = "sleeping" /\ p.at \notin Undisturbed
                                       \/ p.state = "stopped"
                                    THEN "runnable" ELSE p.state]
<1>2. q = IF s \in r.mask THEN p ELSE IF p.vfork_stopped THEN p ELSE a
  BY <1>1 DEF Posted, Awake, TaskRecord
<1>3. p \in TaskRecord /\ p.pending = r.pending \cup {s} /\ p.at = r.at
  BY <1>1 DEF TaskRecord
<1>4. /\ p.code = r.code /\ p.saved = r.saved /\ p.nested = r.nested
      /\ p.suspended = r.suspended /\ p.mask = r.mask
      /\ p.lender = r.lender /\ p.vfork_stopped = r.vfork_stopped
      /\ p.state = r.state
  BY <1>1 DEF TaskRecord
<1> HIDE DEF p
<1>5. /\ a \in TaskRecord /\ a.pending = p.pending /\ a.at = p.at
      /\ a.state = IF \/ p.state = "sleeping" /\ p.at \notin Undisturbed
                      \/ p.state = "stopped"
                   THEN "runnable" ELSE p.state
  BY <1>3 DEF TaskRecord, States
<1>6. /\ a.code = p.code /\ a.saved = p.saved /\ a.nested = p.nested
      /\ a.suspended = p.suspended /\ a.mask = p.mask
      /\ a.lender = p.lender /\ a.vfork_stopped = p.vfork_stopped
  BY <1>3 DEF TaskRecord
<1> HIDE DEF a
<1>7. CASE s \in r.mask \/ p.vfork_stopped
  <2>1. q = p
    BY <1>2, <1>7
  <2>2. Touched(p, r)
    BY <1>3, <1>4 DEF Touched
  <2>3. Deliverable(p) = Deliverable(r) \/ p.state = "stopped"
    BY <1>3, <1>4, <1>7 DEF Deliverable, Good
  <2>4. Woken(p)
    BY <1>3, <1>4, <2>3 DEF Woken, Good
  <2>5. Suspension(p) /\ Frames(p)
    BY <1>3, <1>4 DEF Suspension, Frames, Good
  <2>6. r.state \notin {"running", "free", "zombie"} => Good(p)
    BY <1>3, <1>4, <2>4, <2>5 DEF Good, Runs
  <2> QED BY <1>3, <1>4, <2>1, <2>2, <2>6
<1>8. CASE s \notin r.mask /\ ~p.vfork_stopped
  <2>1. q = a
    BY <1>2, <1>8
  <2>2. Touched(a, r)
    BY <1>4, <1>5, <1>6, <1>8 DEF Touched
  <2>3. Woken(a)
    BY <1>5, <1>6, <1>4 DEF Woken, Undisturbed
  <2>4. Suspension(a) /\ Frames(a)
    BY <1>3, <1>4, <1>5, <1>6 DEF Suspension, Frames, Good
  <2>5. r.state = "running" => a.state = "running"
    BY <1>4, <1>5
  <2>6. r.state \notin {"running", "free", "zombie"} =>
          a.state \notin {"running", "free", "zombie"}
    BY <1>4, <1>5
  <2>7. r.state \notin {"running", "free", "zombie"} => Good(a)
    BY <1>4, <1>5, <1>6, <1>8, <2>3, <2>4, <2>6 DEF Good, Runs
  <2> QED BY <1>3, <1>5, <2>1, <2>2, <2>5, <2>6, <2>7
<1> QED BY <1>7, <1>8

LEMMA StoppedGood ==
  ASSUME NEW r, Good(r), r.state \notin {"free", "zombie"},
         r.state = "running" => r.at = "user",
         NEW q, q = Stopped(r)
  PROVE  /\ Touched(q, r) /\ Good(q) /\ q.state \notin {"running", "zombie"}
         /\ r.state = "running" => q.state = "stopped"
<1>1. r \in TaskRecord
  BY DEF Good
<1>2. CASE r.state = "sleeping"
  <2>1. q = [r EXCEPT !.stop_pending = TRUE]
    BY <1>2 DEF Stopped
  <2>2. q \in TaskRecord /\ q.state = "sleeping" /\ q.at = r.at
    BY <1>1, <1>2, <2>1 DEF TaskRecord
  <2>3. /\ q.code = r.code /\ q.saved = r.saved /\ q.nested = r.nested
        /\ q.suspended = r.suspended /\ q.mask = r.mask
        /\ q.lender = r.lender /\ q.vfork_stopped = r.vfork_stopped
        /\ q.pending = r.pending
    BY <1>1, <2>1 DEF TaskRecord
  <2>4. Touched(q, r)
    BY <1>2, <2>2, <2>3 DEF Touched
  <2>5. Woken(q) /\ Suspension(q) /\ Frames(q)
    BY <1>2, <2>2, <2>3
       DEF Good, Woken, Suspension, Frames, Deliverable
  <2>6. Good(q)
    BY <1>2, <2>2, <2>3, <2>5 DEF Good, Runs
  <2> QED BY <1>2, <2>2, <2>4, <2>6
<1>3. CASE r.state = "runnable"
  <2>1. q = [r EXCEPT !.state = "stopped"]
    BY <1>3 DEF Stopped
  <2>2. q \in TaskRecord /\ q.state = "stopped" /\ q.at = r.at
    BY <1>1, <2>1 DEF TaskRecord, States
  <2>3. /\ q.code = r.code /\ q.saved = r.saved /\ q.nested = r.nested
        /\ q.suspended = r.suspended /\ q.mask = r.mask
        /\ q.lender = r.lender /\ q.vfork_stopped = r.vfork_stopped
    BY <1>1, <2>1 DEF TaskRecord
  <2>4. ~r.vfork_stopped
    BY <1>3 DEF Good
  <2>5. Touched(q, r)
    BY <2>2, <2>3, <2>4 DEF Touched
  <2>6. Suspension(q) /\ Frames(q)
    BY <2>2, <2>3 DEF Good, Suspension, Frames
  <2>7. Good(q)
    BY <2>2, <2>3, <2>6 DEF Good, Runs, Woken
  <2> QED BY <2>2, <2>5, <2>7
<1>4. CASE r.state = "running"
  <2>1. q = [r EXCEPT !.state = "stopped", !.at = "call"]
    BY <1>4 DEF Stopped
  <2>2. q \in TaskRecord /\ q.state = "stopped" /\ q.at = "call"
    BY <1>1, <2>1 DEF TaskRecord, States, Places
  <2>3. /\ q.code = r.code /\ q.saved = r.saved /\ q.nested = r.nested
        /\ q.suspended = r.suspended /\ q.mask = r.mask
        /\ q.lender = r.lender /\ q.vfork_stopped = r.vfork_stopped
    BY <1>1, <2>1 DEF TaskRecord
  <2>4. ~r.vfork_stopped
    BY <1>4 DEF Good
  <2>5. Touched(q, r)
    BY <2>2, <2>3, <2>4 DEF Touched
  <2>6. r.suspended => r.nested = 1
    BY <1>4 DEF Good, Suspension
  <2>7. Suspension(q) /\ Frames(q)
    BY <2>2, <2>3, <2>6 DEF Good, Suspension, Frames
  <2>8. Good(q)
    BY <2>2, <2>3, <2>7 DEF Good, Runs, Woken
  <2> QED BY <2>2, <2>5, <2>8
<1>5. CASE r.state = "stopped"
  <2>1. q = r
    BY <1>5 DEF Stopped
  <2> QED BY <1>1, <1>5, <2>1 DEF Touched
<1> QED BY <1>1, <1>2, <1>3, <1>4, <1>5 DEF TaskRecord, States

LEMMA ContinuedGood ==
  ASSUME NEW r, Good(r), r.state \notin {"free", "zombie"},
         NEW q, q = Continued(r)
  PROVE  /\ Touched(q, r) /\ Good(q) /\ q.state # "zombie"
         /\ q.state = "running" <=> r.state = "running"
<1>1. r \in TaskRecord
  BY DEF Good
<1>2. CASE r.vfork_stopped
  <2>1. q = r
    BY <1>2 DEF Continued
  <2> QED BY <1>1, <2>1 DEF Touched
<1>3. CASE ~r.vfork_stopped
  <2>1. q = [r EXCEPT !.stop_pending = FALSE,
                      !.state = IF r.state = "stopped" THEN "runnable"
                                ELSE r.state]
    BY <1>1, <1>3 DEF Continued, TaskRecord
  <2>2. /\ q \in TaskRecord /\ q.at = r.at /\ q.pending = r.pending
        /\ q.state = IF r.state = "stopped" THEN "runnable" ELSE r.state
    BY <1>1, <2>1 DEF TaskRecord, States
  <2>3. /\ q.code = r.code /\ q.saved = r.saved /\ q.nested = r.nested
        /\ q.suspended = r.suspended /\ q.mask = r.mask
        /\ q.lender = r.lender /\ q.vfork_stopped = r.vfork_stopped
    BY <1>1, <2>1 DEF TaskRecord
  <2>4. Touched(q, r)
    BY <1>3, <2>2, <2>3 DEF Touched
  <2>5. q.state = "runnable" \/ q.state = r.state
    BY <2>2
  <2>6. Suspension(q) /\ Frames(q) /\ Woken(q) /\ Runs(q)
    BY <2>2, <2>3, <2>5
       DEF Good, Suspension, Frames, Woken, Runs, Deliverable, Attended
  <2>7. Good(q)
    BY <1>3, <2>2, <2>3, <2>5, <2>6 DEF Good
  <2> QED BY <2>2, <2>4, <2>7
<1> QED BY <1>2, <1>3

LEMMA SentGood ==
  ASSUME Invariant(ti), NEW t \in Task, Live(t),
         ti[t].state = "running" => ti[t].at = "user",
         NEW s \in Sig, NEW fault \in BOOLEAN, NEW q, q = Sent(t, s, fault)
  PROVE  /\ Touched(q, ti[t]) /\ q.state # "zombie"
         /\ q.state # "running" => Good(q)
         /\ q.state = "running" => ti[t].state = "running"
         /\ ti[t].state = "running" => q.state \in {"running", "stopped"}
         /\ ti[t].state = "running" /\ Default[s] = "terminate" =>
              q.state = "running"
<1>1. Good(ti[t]) /\ ti[t].state \notin {"free", "zombie"}
  BY DEF Invariant, Live
<1>2. CASE q = Posted(ti[t], s, fault)
  <2>1. /\ Touched(q, ti[t])
        /\ ti[t].state = "running" => q.state = "running"
        /\ ti[t].state \notin {"running", "free", "zombie"} =>
             Good(q) /\ q.state # "zombie"
    BY <1>1, <1>2, PostedGood
  <2>2. q.state = "running" => ti[t].state = "running"
    BY <1>1, <1>2, PostedGood
  <2> QED BY <1>1, <2>1, <2>2
<1>3. CASE q = Stopped(ti[t]) /\ Default[s] # "terminate"
  BY <1>1, <1>3, StoppedGood
<1>4. CASE q = Continued(ti[t])
  BY <1>1, <1>4, ContinuedGood
<1>5. CASE q = ti[t]
  BY <1>1, <1>5 DEF Touched, Good
<1>6. \/ q = Posted(ti[t], s, fault) \/ q = Continued(ti[t]) \/ q = ti[t]
      \/ q = Stopped(ti[t]) /\ Default[s] # "terminate"
  BY DEF Sent
<1> QED BY <1>2, <1>3, <1>4, <1>5, <1>6

-----------------------------------------------------------------------------
(* The steps.                                                               *)

LEMMA InitGood ==
  ASSUME Init
  PROVE  Invariant(ti)
<1> DEFINE z == [NoTask EXCEPT !.state = "running"]
<1>1. PICK f \in Task : ti = [t \in Task |-> IF t = f THEN z ELSE NoTask]
  BY DEF Init
<1>2. z \in TaskRecord
  BY DEF NoTask, TaskRecord, States, Places, Code, Dispositions
<1>3. /\ z.state = "running" /\ ~z.suspended /\ z.nested = 0
      /\ z.saved = None /\ z.code = "main" /\ ~z.vfork_stopped
      /\ z.pending = {} /\ z.lender = None
  BY DEF NoTask
<1> HIDE DEF z
<1>4. Good(z)
  BY <1>2, <1>3
     DEF Good, Woken, Suspension, Frames, Runs, Attended, Deliverable
<1>5. Good(NoTask) /\ NoTask.lender = None
  BY ZombieGood
<1>6. \A t \in Task : Good(ti[t]) /\ ti[t].lender = None
  BY <1>1, <1>3, <1>4, <1>5
<1>7. ti \in [Task -> TaskRecord]
  BY <1>1, <1>2, <1>5 DEF Good
<1>8. Lending(ti)
  BY <1>6 DEF Lending
<1> QED BY <1>6, <1>7, <1>8 DEF Invariant

LEMMA PreemptedGood ==
  ASSUME Invariant(ti),
         NEW g, g = [u \in Task |-> IF ti[u].state = "running"
                                    THEN [ti[u] EXCEPT !.state = "runnable"]
                                    ELSE ti[u]]
  PROVE  Invariant(g)
<1>1. ASSUME NEW u \in Task
      PROVE  /\ Good(g[u]) /\ g[u].lender = ti[u].lender
             /\ Parked(ti[u]) => Parked(g[u])
  <2>1. Good(ti[u]) /\ ti[u] \in TaskRecord
    BY DEF Invariant, Good
  <2>2. CASE ti[u].state = "running"
    <3> DEFINE b == [ti[u] EXCEPT !.state = "runnable"]
    <3>1. g[u] = b
      BY <2>2
    <3>2. b \in TaskRecord /\ b.state = "runnable"
      BY <2>1 DEF TaskRecord, States
    <3>3. /\ b.at = ti[u].at /\ b.code = ti[u].code /\ b.saved = ti[u].saved
          /\ b.nested = ti[u].nested /\ b.suspended = ti[u].suspended
          /\ b.vfork_stopped = ti[u].vfork_stopped
          /\ b.lender = ti[u].lender
      BY <2>1 DEF TaskRecord
    <3> HIDE DEF b
    <3>4. Good(b)
      BY <2>1, <2>2, <3>2, <3>3 DEF Good, Woken, Suspension, Frames, Runs
    <3> QED BY <2>2, <3>1, <3>3, <3>4 DEF Parked
  <2>3. CASE ti[u].state # "running"
    BY <2>1, <2>3
  <2> QED BY <2>2, <2>3
<1>2. g \in [Task -> TaskRecord]
  <2>1. \A u \in Task : g[u] \in TaskRecord
    BY <1>1 DEF Good
  <2>2. g = [u \in Task |-> g[u]]
    OBVIOUS
  <2> QED BY <2>1, <2>2
<1>3. ASSUME NEW c \in Task, g[c].lender # None
      PROVE  Parked(g[g[c].lender])
  <2>1. ti[c].lender \in Task /\ Parked(ti[ti[c].lender])
    BY <1>1, <1>3, LenderIsTask DEF Invariant, Lending
  <2> QED BY <1>1, <2>1
<1>4. Lending(g)
  BY <1>1, <1>3 DEF Invariant, Lending
<1> QED BY <1>1, <1>2, <1>4 DEF Invariant

LEMMA ScheduleKeeps ==
  ASSUME Invariant(ti), NEW t \in Task, Schedule(t)
  PROVE  Invariant(ti')
<1> DEFINE g == [u \in Task |-> IF ti[u].state = "running"
                                THEN [ti[u] EXCEPT !.state = "runnable"]
                                ELSE ti[u]]
<1>1. ti[t].state = "runnable" /\ Good(ti[t]) /\ ti[t] \in TaskRecord
  BY DEF Schedule, Invariant, Good
<1>2. ~ti[t].vfork_stopped /\ Frames(ti[t])
  BY <1>1 DEF Good
<1>3. PICK d \in IF ti[t].at = "user" THEN Processed(ti[t], FALSE, FALSE)
                 ELSE {ti[t]} :
        ti' = [u \in Task |->
                 IF u = t THEN [d EXCEPT !.state = "running"]
                 ELSE IF ti[u].state = "running"
                   THEN [ti[u] EXCEPT !.state = "runnable"]
                 ELSE ti[u]]
  BY DEF Schedule
<1> DEFINE r == [d EXCEPT !.state = "running"]
<1>4. Invariant(g) /\ g \in [Task -> TaskRecord]
  BY PreemptedGood DEF Invariant
<1>5. ti' = [g EXCEPT ![t] = r] /\ g[t] = ti[t]
  BY <1>1, <1>3
<1>6. CASE ti[t].at = "user"
  <2>1. Arrived(d, ti[t], FALSE)
    BY <1>1, <1>2, <1>3, <1>6, ProcessedArrives
  <2>2. d \in TaskRecord /\ Frames(d) /\ Same(d, ti[t])
    BY <2>1 DEF Arrived
  <2>3. d.code = "trampoline" \/ Attended(d)
    BY <1>1, <2>1 DEF Arrived
  <2>4. r \in TaskRecord /\ r.state = "running"
    BY <2>2 DEF TaskRecord, States
  <2>5. /\ r.at = d.at /\ r.code = d.code /\ r.saved = d.saved
        /\ r.nested = d.nested /\ r.suspended = d.suspended
        /\ r.vfork_stopped = d.vfork_stopped /\ r.lender = d.lender
        /\ r.pending = d.pending /\ r.mask = d.mask
    BY <2>2 DEF TaskRecord
  <2> HIDE DEF r
  <2>6. Frames(r) /\ Runs(r) /\ Woken(r)
    BY <2>2, <2>3, <2>4, <2>5
       DEF Frames, Runs, Woken, Attended, Deliverable
  <2>7. ti[t].suspended => ti[t].nested = 1
    BY <1>1, <1>6 DEF Good, Suspension
  <2>8. Suspension(r)
    BY <2>1, <2>2, <2>5, <2>7 DEF Suspension, Same, Arrived
  <2>9. Good(r) /\ r.lender = ti[t].lender
    BY <1>2, <2>2, <2>4, <2>5, <2>6, <2>8 DEF Good, Same
  <2>10. Invariant([g EXCEPT ![t] = r])
    BY <1>2, <1>4, <1>5, <2>9, Replaced
  <2> QED BY <1>5, <2>10 DEF r
<1>7. CASE ti[t].at # "user"
  <2>1. d = ti[t]
    BY <1>3, <1>7
  <2>2. r \in TaskRecord /\ r.state = "running"
    BY <1>1, <2>1 DEF TaskRecord, States
  <2>3. /\ r.at = d.at /\ r.code = d.code /\ r.saved = d.saved
        /\ r.nested = d.nested /\ r.suspended = d.suspended
        /\ r.vfork_stopped = d.vfork_stopped /\ r.lender = d.lender
    BY <1>1, <2>1 DEF TaskRecord
  <2> HIDE DEF r
  <2>4. Frames(r) /\ Runs(r) /\ Woken(r) /\ Suspension(r)
    BY <1>1, <1>7, <2>1, <2>2, <2>3
       DEF Good, Frames, Runs, Woken, Suspension
  <2>5. Good(r) /\ r.lender = ti[t].lender
    BY <1>2, <2>1, <2>2, <2>3, <2>4 DEF Good
  <2>6. Invariant([g EXCEPT ![t] = r])
    BY <1>2, <1>4, <1>5, <2>5, Replaced
  <2> QED BY <1>5, <2>6 DEF r
<1> QED BY <1>6, <1>7

LEMMA SendKeeps ==
  ASSUME Invariant(ti), NEW t \in Task, NEW s \in Sig, Send(t, s)
  PROVE  Invariant(ti')
<1> DEFINE q == Sent(t, s, FALSE)
<1>1. Live(t) /\ ti[t].state # "running" /\ ti' = After(ti, t, q)
  BY DEF Send, Becomes
<1> HIDE DEF q
<1>2. /\ Touched(q, ti[t]) /\ q.state # "zombie"
      /\ q.state # "running" => Good(q)
      /\ q.state = "running" => ti[t].state = "running"
  BY <1>1, SentGood DEF q
<1>3. Good(q) /\ q.lender = ti[t].lender
  BY <1>1, <1>2 DEF Touched
<1>4. q.vfork_stopped = ti[t].vfork_stopped
  BY <1>2 DEF Touched
<1> QED BY <1>1, <1>2, <1>3, <1>4, AfterGood

LEMMA SentLeaves ==
  ASSUME Invariant(ti), NEW t \in Task, InUser(t),
         NEW s \in Sig, NEW fault \in BOOLEAN, NEW q, q = Sent(t, s, fault),
         q.state = "running"
  PROVE  Leaving(q) /\ q.lender = ti[t].lender
<1>1. ti[t].state = "running" /\ ti[t].at = "user" /\ Live(t)
  BY DEF InUser, Live
<1>2. Touched(q, ti[t])
  BY <1>1, SentGood
<1>3. Frames(ti[t]) /\ (ti[t].suspended => ti[t].nested = 1)
  BY <1>1 DEF Invariant, Good, Suspension
<1>4. ~ti[t].vfork_stopped
  BY <1>1 DEF Invariant, Good
<1>5. Frames(q)
  BY <1>2, <1>3 DEF Touched, Frames
<1> QED BY <1>2, <1>3, <1>4, <1>5 DEF Leaving, Touched

LEMMA RaiseKeeps ==
  ASSUME Invariant(ti), NEW t \in Task, NEW s \in Sig, Raise(t, s)
  PROVE  Invariant(ti')
<1> DEFINE q == Sent(t, s, FALSE)
<1>1. ti[t].state = "running" /\ ti[t].at = "user" /\ Live(t) /\ InUser(t)
  BY DEF Raise, Acts, InUser, Live
<1>2. IF q.state = "stopped" THEN Becomes(t, q) ELSE Returns(t, q)
  BY DEF Raise
<1>0. q = Sent(t, s, FALSE) /\ FALSE \in BOOLEAN
  OBVIOUS
<1> HIDE DEF q
<1>3. Touched(q, ti[t]) /\ q.state # "zombie" /\ (q.state # "running" => Good(q))
      /\ q.state \in {"running", "stopped"}
  BY <1>0, <1>1, SentGood
<1>4. q.lender = ti[t].lender /\ q.vfork_stopped = ti[t].vfork_stopped
  BY <1>3 DEF Touched
<1>5. CASE q.state = "stopped"
  <2>1. ti' = After(ti, t, q) /\ Good(q)
    BY <1>2, <1>3, <1>5 DEF Becomes
  <2> QED BY <1>3, <1>4, <2>1, AfterGood
<1>6. CASE q.state # "stopped"
  <2>1. q.state = "running"
    BY <1>3, <1>6
  <2>2. Leaving(q)
    BY <1>0, <1>1, <2>1, SentLeaves
  <2>3. Returns(t, q)
    BY <1>2, <1>6
  <2> QED BY <1>1, <1>4, <2>2, <2>3, ReturnsKeeps
<1> QED BY <1>5, <1>6

LEMMA RunningLeaves ==
  ASSUME Invariant(ti), NEW t \in Task, ti[t].state = "running",
         ti[t].at # "pause"
  PROVE  Leaving(ti[t]) /\ (ti[t].suspended => ti[t].nested = 1)
<1>1. Good(ti[t])
  BY DEF Invariant
<1>2. ti[t].suspended => ti[t].nested = 1
  BY <1>1 DEF Good, Suspension
<1> QED BY <1>1, <1>2 DEF Leaving, Good

LEMMA FaultKeeps ==
  ASSUME Invariant(ti), NEW t \in Task, NEW s \in Faults, Fault(t, s)
  PROVE  Invariant(ti')
<1>1. ti[t].state = "running" /\ ti[t].at = "user" /\ Live(t) /\ InUser(t)
  BY DEF Fault, InUser, Live
<1>2. PICK u \in Sig : u = s /\ Default[u] = "terminate"
  OBVIOUS
<1>3. PICK fault \in BOOLEAN : fault = TRUE
  OBVIOUS
<1>4. PICK q : q = Sent(t, u, fault)
  OBVIOUS
<1>5. q.state = "running"
  BY <1>1, <1>2, <1>4, SentGood
<1>6. Leaving(q) /\ q.lender = ti[t].lender
  BY <1>1, <1>4, <1>5, SentLeaves
<1>7. Returns(t, q)
  BY <1>2, <1>3, <1>4 DEF Fault
<1> QED BY <1>1, <1>6, <1>7, ReturnsKeeps

LEMMA SigactionKeeps ==
  ASSUME Invariant(ti), NEW t \in Task, NEW s \in Sig, NEW h \in Dispositions,
         Sigaction(t, s, h)
  PROVE  Invariant(ti')
<1> DEFINE b == [ti[t] EXCEPT !.handlers[s] = h]
<1>1. ti[t].state = "running" /\ ti[t].at = "user" /\ Returns(t, b)
  BY DEF Sigaction, Acts, InUser
<1>2. Leaving(ti[t]) /\ (ti[t].suspended => ti[t].nested = 1)
  BY <1>1, RunningLeaves
<1>3. ti[t] \in TaskRecord
  BY <1>2 DEF Leaving
<1>4. b \in TaskRecord
  BY <1>3 DEF TaskRecord
<1>5. /\ b.state = ti[t].state /\ b.vfork_stopped = ti[t].vfork_stopped
      /\ b.suspended = ti[t].suspended /\ b.nested = ti[t].nested
      /\ b.saved = ti[t].saved /\ b.code = ti[t].code
      /\ b.lender = ti[t].lender
  BY <1>3 DEF TaskRecord
<1> HIDE DEF b
<1>6. Leaving(b)
  BY <1>2, <1>4, <1>5 DEF Leaving, Frames
<1> QED BY <1>1, <1>5, <1>6, ReturnsKeeps

LEMMA SigprocmaskKeeps ==
  ASSUME Invariant(ti), NEW t \in Task, NEW m \in SUBSET Sig,
         Sigprocmask(t, m)
  PROVE  Invariant(ti')
<1> DEFINE b == [ti[t] EXCEPT !.mask = m \ Fixed]
<1>1. ti[t].state = "running" /\ ti[t].at = "user" /\ Returns(t, b)
  BY DEF Sigprocmask, Acts, InUser
<1>2. Leaving(ti[t]) /\ (ti[t].suspended => ti[t].nested = 1)
  BY <1>1, RunningLeaves
<1>3. ti[t] \in TaskRecord
  BY <1>2 DEF Leaving
<1>4. b \in TaskRecord
  BY <1>3 DEF TaskRecord
<1>5. /\ b.state = ti[t].state /\ b.vfork_stopped = ti[t].vfork_stopped
      /\ b.suspended = ti[t].suspended /\ b.nested = ti[t].nested
      /\ b.saved = ti[t].saved /\ b.code = ti[t].code
      /\ b.lender = ti[t].lender
  BY <1>3 DEF TaskRecord
<1> HIDE DEF b
<1>6. Leaving(b)
  BY <1>2, <1>4, <1>5 DEF Leaving, Frames
<1> QED BY <1>1, <1>5, <1>6, ReturnsKeeps

LEMMA PauseKeeps ==
  ASSUME Invariant(ti), NEW t \in Task, Pause(t) \/ PauseAgain(t)
  PROVE  Invariant(ti')
<1>1. ti[t].state = "running" /\ PauseLoop(t, ti[t])
  BY DEF Pause, PauseAgain, InUser
<1>2. ti[t] \in TaskRecord /\ Frames(ti[t]) /\ ~ti[t].vfork_stopped
  BY <1>1 DEF Invariant, Good
<1> QED BY <1>1, <1>2, PauseLoopKeeps

LEMMA SigsuspendKeeps ==
  ASSUME Invariant(ti), NEW t \in Task, NEW m \in SUBSET Sig,
         Sigsuspend(t, m)
  PROVE  Invariant(ti')
<1> DEFINE b == [ti[t] EXCEPT !.old_mask = ti[t].mask, !.mask = m \ Fixed,
                              !.suspended = TRUE]
<1>1. ti[t].state = "running" /\ PauseLoop(t, b)
  BY DEF Sigsuspend, Acts, InUser
<1>2. ti[t] \in TaskRecord /\ Frames(ti[t]) /\ ~ti[t].vfork_stopped
  BY <1>1 DEF Invariant, Good
<1>3. b \in TaskRecord
  BY <1>2 DEF TaskRecord
<1>4. /\ b.state = ti[t].state /\ b.vfork_stopped = ti[t].vfork_stopped
      /\ b.nested = ti[t].nested /\ b.saved = ti[t].saved
      /\ b.code = ti[t].code /\ b.lender = ti[t].lender
  BY <1>2 DEF TaskRecord
<1> HIDE DEF b
<1>5. Frames(b)
  BY <1>2, <1>4 DEF Frames
<1> QED BY <1>1, <1>2, <1>3, <1>4, <1>5, PauseLoopKeeps

LEMMA SigsuspendFailsKeeps ==
  ASSUME Invariant(ti), NEW t \in Task, SigsuspendFails(t)
  PROVE  Invariant(ti')
<1> DEFINE b == [ti[t] EXCEPT !.old_mask = ti[t].mask]
<1>1. ti[t].state = "running" /\ ti[t].at = "user" /\ Returns(t, b)
  BY DEF SigsuspendFails, Acts, InUser
<1>2. Leaving(ti[t]) /\ (ti[t].suspended => ti[t].nested = 1)
  BY <1>1, RunningLeaves
<1>3. ti[t] \in TaskRecord
  BY <1>2 DEF Leaving
<1>4. b \in TaskRecord
  BY <1>3 DEF TaskRecord
<1>5. /\ b.state = ti[t].state /\ b.vfork_stopped = ti[t].vfork_stopped
      /\ b.suspended = ti[t].suspended /\ b.nested = ti[t].nested
      /\ b.saved = ti[t].saved /\ b.code = ti[t].code
      /\ b.lender = ti[t].lender
  BY <1>3 DEF TaskRecord
<1> HIDE DEF b
<1>6. Leaving(b)
  BY <1>2, <1>4, <1>5 DEF Leaving, Frames
<1> QED BY <1>1, <1>5, <1>6, ReturnsKeeps

LEMMA CallEndsKeeps ==
  ASSUME Invariant(ti), NEW t \in Task, CallEnds(t)
  PROVE  Invariant(ti')
<1>1. /\ ti[t].state = "running" /\ ti[t].at # "pause"
      /\ Returns(t, ti[t])
  BY DEF CallEnds
<1>2. Leaving(ti[t])
  BY <1>1, RunningLeaves
<1> QED BY <1>1, <1>2, ReturnsKeeps

\* A task that only changes where it is, and that not to user mode.
LEMMA MovedKeeps ==
  ASSUME Invariant(ti), NEW t \in Task, NEW s \in States, NEW p \in Places,
         NEW stop \in BOOLEAN, NEW late \in BOOLEAN,
         s \in {"running", "sleeping", "runnable", "stopped"},
         ti[t].at # "pause", p \notin {"pause", "user"},
         ti[t].state \in {"running", "sleeping"},
         ti' = After(ti, t, [ti[t] EXCEPT !.state = s, !.stop_pending = stop,
                                          !.at = p, !.late = late])
  PROVE  Invariant(ti')
<1> DEFINE b == [ti[t] EXCEPT !.state = s, !.stop_pending = stop, !.at = p,
                              !.late = late]
<1>1. Good(ti[t]) /\ ti[t] \in TaskRecord
  BY DEF Invariant, Good
<1>2. b \in TaskRecord /\ b.state = s /\ b.at = p
  BY <1>1 DEF TaskRecord
<1>3. /\ b.vfork_stopped = ti[t].vfork_stopped
      /\ b.suspended = ti[t].suspended /\ b.nested = ti[t].nested
      /\ b.saved = ti[t].saved /\ b.code = ti[t].code
      /\ b.lender = ti[t].lender
  BY <1>1 DEF TaskRecord
<1>4. ti' = After(ti, t, b)
  OBVIOUS
<1> HIDE DEF b
<1>5. ~b.vfork_stopped
  BY <1>1, <1>3 DEF Good
<1>6. Frames(b) /\ Suspension(b) /\ Woken(b) /\ Runs(b)
  BY <1>1, <1>2, <1>3 DEF Good, Frames, Suspension, Woken, Runs
<1>7. Good(b) /\ b.state # "zombie"
  BY <1>2, <1>5, <1>6 DEF Good
<1> QED BY <1>3, <1>4, <1>7, AfterGood

\* The parts of a call that may sleep.
Waiting(t) == Enter(t) \/ Sleep(t) \/ Lock(t) \/ WakeUp(t) \/ WaitAgain(t)

LEMMA WaitingMoves ==
  ASSUME Invariant(ti), NEW t \in Task, Waiting(t)
  PROVE  \E s \in {"running", "sleeping", "runnable", "stopped"},
            p \in {"begun", "wait", "lock", "relock"},
            stop \in BOOLEAN, late \in BOOLEAN :
           ti' = After(ti, t, [ti[t] EXCEPT !.state = s, !.stop_pending = stop,
                                            !.at = p, !.late = late])
<1>1. /\ ti[t] \in TaskRecord
      /\ ti[t].stop_pending \in BOOLEAN /\ ti[t].late \in BOOLEAN
  BY DEF Invariant, TaskRecord
<1>2. CASE Enter(t)
  <2>1. ti[t].state = "running"
    BY <1>2 DEF Enter, Acts, InUser
  <2>2. [ti[t] EXCEPT !.at = "begun"] =
          [ti[t] EXCEPT !.state = "running",
                        !.stop_pending = ti[t].stop_pending,
                        !.at = "begun", !.late = ti[t].late]
    BY <1>1, <2>1 DEF TaskRecord
  <2> QED BY <1>1, <1>2, <2>2 DEF Enter, Becomes
<1>3. CASE Sleep(t)
  <2>1. Asleep(ti[t], "wait") =
          [ti[t] EXCEPT !.state = "sleeping",
                        !.stop_pending = ti[t].stop_pending,
                        !.at = "wait", !.late = KILL \in ti[t].pending]
    BY <1>1 DEF Asleep, TaskRecord
  <2>2. (KILL \in ti[t].pending) \in BOOLEAN
    OBVIOUS
  <2> QED BY <1>1, <1>3, <2>1, <2>2 DEF Sleep, Becomes
<1>4. CASE Lock(t)
  <2> DEFINE p == IF ti[t].at = "begun" THEN "lock" ELSE "relock"
  <2>1. [ti[t] EXCEPT !.state = "sleeping",
                      !.at = IF @ = "begun" THEN "lock" ELSE "relock"] =
          [ti[t] EXCEPT !.state = "sleeping",
                        !.stop_pending = ti[t].stop_pending,
                        !.at = p, !.late = ti[t].late]
    BY <1>1 DEF TaskRecord
  <2> QED BY <1>1, <1>4, <2>1 DEF Lock, Becomes
<1>5. CASE WakeUp(t)
  <2> DEFINE s == IF ti[t].stop_pending THEN "stopped" ELSE "runnable"
             p == IF ti[t].at = "lock" THEN "begun" ELSE "wait"
  <2>1. ti[t].state = "sleeping"
    BY <1>5 DEF WakeUp
  <2>2. [ti[t] EXCEPT !.state = IF @ = "sleeping" /\ ti[t].stop_pending
                                THEN "stopped" ELSE "runnable",
                      !.stop_pending = FALSE,
                      !.at = IF @ = "lock" THEN "begun" ELSE "wait"] =
          [ti[t] EXCEPT !.state = s, !.stop_pending = FALSE,
                        !.at = p, !.late = ti[t].late]
    BY <1>1, <2>1 DEF TaskRecord
  <2> QED BY <1>1, <1>5, <2>2 DEF WakeUp, Becomes
<1>6. CASE WaitAgain(t)
  <2>1. ti[t].state = "running"
    BY <1>6 DEF WaitAgain
  <2>2. [ti[t] EXCEPT !.at = "begun"] =
          [ti[t] EXCEPT !.state = "running",
                        !.stop_pending = ti[t].stop_pending,
                        !.at = "begun", !.late = ti[t].late]
    BY <1>1, <2>1 DEF TaskRecord
  <2> QED BY <1>1, <1>6, <2>2 DEF WaitAgain, Becomes
<1> QED BY <1>2, <1>3, <1>4, <1>5, <1>6 DEF Waiting

LEMMA WaitingKeeps ==
  ASSUME Invariant(ti), NEW t \in Task, Waiting(t)
  PROVE  Invariant(ti')
<1>1. PICK s \in {"running", "sleeping", "runnable", "stopped"},
           p \in {"begun", "wait", "lock", "relock"},
           stop \in BOOLEAN, late \in BOOLEAN :
        ti' = After(ti, t, [ti[t] EXCEPT !.state = s, !.stop_pending = stop,
                                         !.at = p, !.late = late])
  BY WaitingMoves
<1>2. ti[t].state \in {"running", "sleeping"} /\ ti[t].at # "pause"
  BY DEF Waiting, Enter, Sleep, Lock, WakeUp, WaitAgain, Acts, InUser,
     Undisturbed
<1>3. s \in States /\ p \in Places /\ p \notin {"pause", "user"}
  BY DEF States, Places
<1> QED BY <1>1, <1>2, <1>3, MovedKeeps

\* rt_sigreturn goes to the next handler, back, or nowhere.
LEMMA SigreturnKeeps ==
  ASSUME Invariant(ti), NEW t \in Task, Sigreturn(t)
  PROVE  Invariant(ti')
<1> DEFINE u == Unmasked(ti[t])
           Ret(d) == [(IF d = u THEN Resumed(u) ELSE d) EXCEPT !.nested = @ - 1]
<1>1. ti[t].state = "running" /\ ti[t].at = "user" /\ ti[t].nested > 0
  BY DEF Sigreturn, Acts, InUser
<1>2. Leaving(ti[t]) /\ Good(ti[t]) /\ ti[t] \in TaskRecord
  BY <1>1, RunningLeaves DEF Good, Invariant
<1>3. PICK d \in Processed(ti[t], TRUE, TRUE) :
        IF d.state = "zombie" THEN Becomes(t, d) ELSE Returns(t, Ret(d))
  BY DEF Sigreturn
<1>4. /\ u \in TaskRecord /\ Frames(u) /\ Same(u, ti[t])
      /\ u.state = ti[t].state /\ u.nested = ti[t].nested
  BY <1>2, UnmaskedType, UnmaskedFields DEF Leaving
<1>5. u.nested = 1 /\ u.lender = ti[t].lender
  <2>1. ti[t].nested \in {0, 1}
    BY <1>2 DEF TaskRecord
  <2> QED BY <1>1, <1>4, <2>1 DEF Same
<1>6. Processed(ti[t], TRUE, TRUE) =
        IF KILL \in u.pending THEN {Killed(u, TRUE)}
        ELSE IF Deliverable(u) = {} THEN {u}
        ELSE Delivered(u, TRUE, Lowest(Deliverable(u)), TRUE)
  BY DEF Processed
<1>7. Killed(u, TRUE).state = "zombie" /\ Killed(u, TRUE).lender = u.lender
  <2>1. Killed(u, TRUE) = [u EXCEPT !.state = "zombie"]
    BY <1>4, KilledType
  <2> QED BY <1>4, <2>1 DEF TaskRecord
<1> HIDE DEF u
<1>8. CASE d = Killed(u, TRUE)
  <2>1. d.state = "zombie" /\ d.lender = ti[t].lender
    BY <1>5, <1>7, <1>8
  <2>2. ti' = After(ti, t, d)
    BY <1>3, <2>1 DEF Becomes
  <2> QED BY <1>1, <2>1, <2>2, AfterZombie
<1>9. CASE d = u
  <2> DEFINE r == Resumed(u)
             b == [r EXCEPT !.nested = r.nested - 1]
  <2>1. d.state # "zombie"
    BY <1>1, <1>4, <1>9
  <2>2. Returns(t, b)
    BY <1>3, <1>9, <2>1
  <2>3. r = [u EXCEPT !.mask = IF u.suspended THEN u.old_mask ELSE u.mask,
                      !.suspended = FALSE, !.code = u.saved, !.saved = None]
    BY <1>4 DEF Resumed, TaskRecord
  <2>4. u.saved \in {"main", "trampoline"}
    BY <1>4, <1>5 DEF Frames
  <2> HIDE DEF r
  <2>5. /\ r \in TaskRecord /\ r.nested = 1 /\ r.saved = None
        /\ r.code = u.saved /\ ~r.suspended /\ r.state = u.state
        /\ r.lender = u.lender /\ r.vfork_stopped = u.vfork_stopped
    BY <1>4, <1>5, <2>3, <2>4 DEF TaskRecord, Code
  <2>6. b \in TaskRecord /\ b.nested = 0
    BY <2>5 DEF TaskRecord
  <2>7. /\ b.saved = None /\ b.code = u.saved
        /\ ~b.suspended /\ b.state = u.state /\ b.lender = u.lender
        /\ b.vfork_stopped = u.vfork_stopped
    BY <2>5 DEF TaskRecord
  <2> HIDE DEF b
  <2>8. Leaving(b)
    BY <1>2, <1>4, <2>4, <2>6, <2>7 DEF Leaving, Frames, Same
  <2> QED BY <1>1, <1>5, <2>2, <2>7, <2>8, ReturnsKeeps
<1>10. ASSUME NEW s \in Sig, d = Handled(Unposted(u, s), s)
       PROVE  Invariant(ti')
  <2> DEFINE w == Unposted(u, s)
             b == [d EXCEPT !.nested = d.nested - 1]
  <2>1. /\ w \in TaskRecord /\ Frames(w) /\ Same(w, u)
        /\ w.state = u.state /\ w.nested = 1
    BY <1>4, <1>5, UnpostedType, UnpostedFields
  <2> HIDE DEF w
  <2>2. /\ d = [w EXCEPT !.saved = w.saved, !.code = Entry(w.handlers[s]),
                          !.nested = 2]
        /\ d = Handled(w, s)
    <3>1. d = Handled(w, s)
      BY <1>10 DEF w
    <3>2. Handled(w, s) =
            [w EXCEPT !.saved = IF w.nested = 0 THEN w.code ELSE w.saved,
                      !.code = Entry(w.handlers[s]),
                      !.nested = w.nested + 1]
      BY <2>1 DEF Handled, TaskRecord
    <3> QED BY <2>1, <3>1, <3>2
  <2>3. /\ d.nested = 2 /\ d.state = w.state /\ d.saved = w.saved
        /\ d.lender = w.lender /\ d.vfork_stopped = w.vfork_stopped
    BY <2>1, <2>2 DEF TaskRecord
  <2>4. Returns(t, b)
    BY <1>1, <1>3, <1>4, <1>5, <2>1, <2>3
  <2>5. Entry(w.handlers[s]) \in Code
    BY DEF Entry, Code
  <2>6. b = [d EXCEPT !.nested = 1]
    BY <2>3
  <2>7. b \in TaskRecord
    <3>1. ASSUME NEW e \in Code, NEW p \in Code \cup {None},
                 NEW x, x = [w EXCEPT !.saved = p, !.code = e, !.nested = 2]
          PROVE  [x EXCEPT !.nested = 1] \in TaskRecord
      BY <2>1, <3>1 DEF TaskRecord
    <3>2. w.saved \in Code \cup {None}
      BY <2>1 DEF TaskRecord
    <3> HIDE DEF b
    <3> QED BY <2>2, <2>5, <2>6, <3>1, <3>2
  <2>8. /\ b.nested = 1 /\ b.saved = w.saved /\ b.state = w.state
        /\ b.lender = w.lender /\ b.vfork_stopped = w.vfork_stopped
    BY <2>1, <2>2, <2>3 DEF TaskRecord
  <2> HIDE DEF b
  <2>9. Leaving(b)
    BY <1>2, <1>4, <2>1, <2>7, <2>8 DEF Leaving, Frames, Same
  <2>10. b.lender = ti[t].lender
    BY <1>5, <2>1, <2>8 DEF Same
  <2> QED BY <1>1, <2>4, <2>9, <2>10, ReturnsKeeps
<1>11. CASE KILL \notin u.pending /\ Deliverable(u) # {}
  <2> DEFINE s == Lowest(Deliverable(u))
  <2>1. s \in Sig
    BY <1>4, <1>11, LowestIn DEF Deliverable, TaskRecord
  <2>2. d \in Delivered(u, TRUE, s, TRUE)
    BY <1>6, <1>11
  <2> HIDE DEF s
  <2>3. d = Killed(u, TRUE) \/ d \in Interrupted(u, TRUE, s)
    <3>1. Delivered(u, TRUE, s, TRUE) =
            IF u.handlers[s] = "default" THEN {Killed(u, TRUE)}
            ELSE Interrupted(u, TRUE, s)
      BY DEF Delivered
    <3>2. CASE u.handlers[s] = "default"
      BY <2>2, <3>1, <3>2
    <3>3. CASE u.handlers[s] # "default"
      BY <2>2, <3>1, <3>3
    <3> QED BY <3>2, <3>3
  <2>4. Interrupted(u, TRUE, s) = {Handled(Unposted(u, s), s)}
    BY <1>5 DEF Interrupted
  <2> QED BY <1>8, <1>10, <2>1, <2>3, <2>4
<1>12. CASE KILL \in u.pending
  BY <1>6, <1>8, <1>12
<1>13. CASE KILL \notin u.pending /\ Deliverable(u) = {}
  BY <1>6, <1>9, <1>13
<1> QED BY <1>11, <1>12, <1>13

LEMMA CopiedGood ==
  ASSUME NEW r, Good(r), r.state = "running", r.at = "user",
         NEW l \in Task \cup {None}, NEW q, q = Copied(r, l)
  PROVE  Good(q) /\ q.lender = l /\ q.state = "runnable"
<1>1. r \in TaskRecord /\ ~r.vfork_stopped
  BY DEF Good
<1>2. q \in TaskRecord /\ q.lender = l /\ q.state = "runnable"
  BY <1>1 DEF Copied, TaskRecord, States
<1>3. /\ q.at = r.at /\ q.code = r.code /\ q.saved = r.saved
      /\ q.nested = r.nested /\ q.suspended = r.suspended
      /\ q.vfork_stopped = r.vfork_stopped
  BY <1>1 DEF Copied, TaskRecord
<1>4. Frames(q) /\ Suspension(q) /\ Woken(q) /\ Runs(q)
  BY <1>2, <1>3 DEF Good, Frames, Suspension, Woken, Runs
<1> QED BY <1>1, <1>2, <1>3, <1>4 DEF Good

LEMMA ForkKeeps ==
  ASSUME Invariant(ti), NEW t \in Task, NEW c \in Task, Fork(t, c)
  PROVE  Invariant(ti')
<1> DEFINE q == Copied(ti[t], None)
           f == [ti EXCEPT ![c] = q]
<1>1. ti[t].state = "running" /\ ti[t].at = "user" /\ ti[c].state = "free"
  BY DEF Fork, Acts, InUser
<1>2. PICK d \in Processed(ti[t], TRUE, FALSE) : ti' = After(f, t, d)
  BY DEF Fork
<1>3. Good(ti[t]) /\ Good(ti[c]) /\ ti \in [Task -> TaskRecord]
  BY DEF Invariant
<1>4. Good(q) /\ q.lender = None
  BY <1>1, <1>3, CopiedGood
<1>5. ti[c].lender = None /\ ~ti[c].vfork_stopped
  BY <1>1, <1>3 DEF Good
<1> HIDE DEF q
<1>6. Invariant(f)
  BY <1>4, <1>5, Replaced
<1>7. f[t] = ti[t]
  BY <1>1, <1>3
<1> HIDE DEF f
<1>8. Leaving(ti[t])
  BY <1>1, RunningLeaves
<1>9. Invariant(After(f, t, d))
  BY <1>1, <1>2, <1>6, <1>7, <1>8, ProcessedKeeps
<1> QED BY <1>2, <1>9

LEMMA VforkKeeps ==
  ASSUME Invariant(ti), NEW t \in Task, NEW c \in Task, Vfork(t, c)
  PROVE  Invariant(ti')
<1> DEFINE q == Copied(ti[t], t)
           b == [ti[t] EXCEPT !.state = "stopped", !.at = "call",
                              !.vfork_stopped = TRUE]
<1>1. ti[t].state = "running" /\ ti[t].at = "user" /\ ti[c].state = "free"
  BY DEF Vfork, Acts, InUser
<1>2. Good(ti[t]) /\ Good(ti[c]) /\ ti \in [Task -> TaskRecord]
  BY DEF Invariant
<1>3. ti[t] \in TaskRecord /\ t # c
  BY <1>1, <1>2
<1>4. Good(q) /\ q.lender = t /\ q.state = "runnable"
  BY <1>1, <1>2, CopiedGood
<1>5. Good(b) /\ Parked(b) /\ b.lender = ti[t].lender
  <2>1. b \in TaskRecord /\ b.state = "stopped" /\ b.at = "call"
    BY <1>3 DEF TaskRecord, States, Places
  <2>2. /\ b.code = ti[t].code /\ b.saved = ti[t].saved
        /\ b.nested = ti[t].nested /\ b.suspended = ti[t].suspended
        /\ b.lender = ti[t].lender /\ b.vfork_stopped
    BY <1>3 DEF TaskRecord
  <2> HIDE DEF b
  <2>3. ti[t].suspended => ti[t].nested = 1
    BY <1>1, <1>2 DEF Good, Suspension
  <2>4. Frames(b) /\ Suspension(b) /\ Woken(b) /\ Runs(b)
    BY <1>2, <2>1, <2>2, <2>3 DEF Good, Frames, Suspension, Woken, Runs
  <2> QED BY <2>1, <2>2, <2>4 DEF Good, Parked
<1>6. ti' = [ti EXCEPT ![t] = b, ![c] = q]
  <2>1. [ti EXCEPT ![t].state = "stopped", ![t].at = "call",
                   ![t].vfork_stopped = TRUE] = [ti EXCEPT ![t] = b]
    BY <1>2
  <2> QED BY <1>2, <1>3, <2>1 DEF Vfork
<1> HIDE DEF b, q
<1>7. /\ ti'[t] = b /\ ti'[c] = q
      /\ \A u \in Task \ {t, c} : ti'[u] = ti[u]
  BY <1>2, <1>3, <1>6
<1>8. \A u \in Task : Good(ti'[u])
  BY <1>4, <1>5, <1>7 DEF Invariant
<1>9. ti' \in [Task -> TaskRecord]
  <2>1. b \in TaskRecord /\ q \in TaskRecord
    BY <1>4, <1>5 DEF Good
  <2> QED BY <1>2, <1>6, <2>1
<1>10. \A u \in Task : u # c => ti'[u].lender = ti[u].lender
  BY <1>5, <1>7
<1>11. \A u \in Task : ti[u].lender # None =>
         /\ ti[u].lender \in Task \ {t, c}
         /\ Parked(ti[ti[u].lender])
  <2> TAKE u \in Task
  <2> HAVE ti[u].lender # None
  <2>1. ti[u].lender \in Task /\ Parked(ti[ti[u].lender])
    BY LenderIsTask DEF Invariant, Lending
  <2> QED BY <1>1, <2>1 DEF Parked
<1>12. ASSUME NEW u \in Task, ti'[u].lender # None
       PROVE  Parked(ti'[ti'[u].lender])
  <2>1. CASE u = c
    BY <1>4, <1>5, <1>7, <2>1
  <2>2. CASE u # c
    <3>1. ti'[u].lender = ti[u].lender
      BY <1>10, <2>2
    <3>2. ti[u].lender \in Task \ {t, c} /\ Parked(ti[ti[u].lender])
      BY <1>11, <1>12, <3>1
    <3> QED BY <1>7, <3>1, <3>2
  <2> QED BY <2>1, <2>2
<1>13. ASSUME NEW u \in Task, NEW v \in Task,
              ti'[u].lender = ti'[v].lender, ti'[u].lender # None
       PROVE  u = v
  <2>1. CASE u # c /\ v # c
    BY <1>10, <1>13, <2>1 DEF Invariant, Lending
  <2>2. ASSUME NEW x \in Task, x # c, ti'[x].lender = t
        PROVE  FALSE
    BY <1>10, <1>11, <2>2
  <2>3. ti'[c].lender = t
    BY <1>4, <1>7
  <2>4. CASE u = c
    BY <1>13, <2>2, <2>3, <2>4
  <2>5. CASE v = c
    BY <1>13, <2>2, <2>3, <2>5
  <2> QED BY <2>1, <2>4, <2>5
<1> QED BY <1>8, <1>9, <1>12, <1>13 DEF Invariant, Lending

LEMMA ExecveKeeps ==
  ASSUME Invariant(ti), NEW t \in Task, Execve(t)
  PROVE  Invariant(ti')
<1> DEFINE i == Image(ti[t])
           f == [u \in Task |-> IF u = ti[t].lender THEN Released(ti[u])
                                ELSE ti[u]]
           z == [NoTask EXCEPT !.state = "zombie"]
<1>1. ti[t].state = "running" /\ ti[t].at = "user"
  BY DEF Execve, Acts, InUser
<1>2. Good(ti[t]) /\ ti[t] \in TaskRecord
  BY DEF Invariant, Good
<1>3. PICK d \in Processed(i, TRUE, FALSE) : ti' = After(f, t, d)
  BY DEF Execve
<1>4. Reset(ti[t].handlers) \in [Sig -> Dispositions]
  BY <1>2 DEF Reset, TaskRecord, Dispositions
<1>5. i \in TaskRecord
  BY <1>2, <1>4 DEF Image, TaskRecord, Code
<1>6. /\ i.state = ti[t].state /\ i.at = ti[t].at /\ i.nested = 0
      /\ ~i.suspended /\ i.code = "main" /\ i.saved = None
      /\ i.lender = None /\ i.vfork_stopped = ti[t].vfork_stopped
  BY <1>2 DEF Image, TaskRecord
<1> HIDE DEF i
<1>7. Leaving(i)
  BY <1>1, <1>2, <1>5, <1>6 DEF Leaving, Frames, Good
<1>8. d.lender = None /\ (d.state = "zombie" \/ Good(d))
  BY <1>1, <1>3, <1>6, <1>7, LeftGood
<1>9. Good(z) /\ z.lender = None
  BY ZombieGood
<1> DEFINE r == IF d.state = "zombie" THEN z ELSE d
<1>10. Good(r) /\ r.lender = None
  BY <1>8, <1>9
<1>11. d.lender \notin Task
  BY <1>8
<1>12. ti' = [u \in Task |-> IF u = t THEN r
                ELSE IF u = ti[t].lender THEN Released(ti[u]) ELSE ti[u]]
  BY <1>3, <1>11 DEF After
<1> HIDE DEF r
<1> QED BY <1>1, <1>10, <1>12, LentBack

LEMMA ExitKeeps ==
  ASSUME Invariant(ti), NEW t \in Task, Exit(t)
  PROVE  Invariant(ti')
<1> DEFINE d == [ti[t] EXCEPT !.state = "zombie"]
<1>1. ti[t].state = "running" /\ ti[t] \in TaskRecord
  BY DEF Exit, Acts, InUser, Invariant
<1>2. ti' = After(ti, t, d)
  BY DEF Exit, Becomes
<1>3. d.state = "zombie" /\ d.lender = ti[t].lender
  BY <1>1 DEF TaskRecord
<1> HIDE DEF d
<1> QED BY <1>1, <1>2, <1>3, AfterZombie

LEMMA ReapKeeps ==
  ASSUME Invariant(ti), NEW t \in Task, Reap(t)
  PROVE  Invariant(ti')
<1>1. ti[t].state = "zombie" /\ ti' = After(ti, t, NoTask)
  BY DEF Reap, Becomes
<1>2. Good(NoTask) /\ NoTask.lender = None /\ NoTask.state # "zombie"
  BY ZombieGood DEF NoTask
<1>3. ti[t].lender = None /\ ~ti[t].vfork_stopped
  BY <1>1 DEF Invariant, Good
<1> QED BY <1>1, <1>2, <1>3, AfterGood

LEMMA NextKeeps ==
  ASSUME Invariant(ti), [Next]_vars
  PROVE  Invariant(ti')
<1>1. CASE UNCHANGED vars
  <2>1. ti' = ti
    BY <1>1 DEF vars
  <2> QED BY <2>1
<1>2. ASSUME NEW t \in Task,
             \/ Schedule(t) \/ PauseAgain(t) \/ CallEnds(t)
             \/ Sleep(t) \/ Lock(t) \/ WakeUp(t) \/ WaitAgain(t)
             \/ Sigreturn(t) \/ Execve(t) \/ Exit(t) \/ Reap(t)
      PROVE  Invariant(ti')
  BY <1>2, ScheduleKeeps, PauseKeeps, CallEndsKeeps, WaitingKeeps,
     SigreturnKeeps, ExecveKeeps, ExitKeeps, ReapKeeps DEF Waiting
<1>3. ASSUME NEW t \in Task, NEW c \in Task, Fork(t, c) \/ Vfork(t, c)
      PROVE  Invariant(ti')
  BY <1>3, ForkKeeps, VforkKeeps
<1>4. ASSUME NEW t \in Targets, Pause(t) \/ SigsuspendFails(t)
      PROVE  Invariant(ti')
  BY <1>4, PauseKeeps, SigsuspendFailsKeeps
<1>5. ASSUME NEW t \in Targets, Enter(t)
      PROVE  Invariant(ti')
  BY <1>5, WaitingKeeps DEF Waiting
<1>6. ASSUME NEW t \in Targets, NEW s \in Sig, Send(t, s) \/ Raise(t, s)
      PROVE  Invariant(ti')
  BY <1>6, SendKeeps, RaiseKeeps
<1>7. ASSUME NEW t \in Targets, NEW s \in Faults, Fault(t, s)
      PROVE  Invariant(ti')
  BY <1>7, FaultKeeps
<1>8. ASSUME NEW t \in Targets, NEW s \in Caught, NEW h \in Dispositions,
             Sigaction(t, s, h)
      PROVE  Invariant(ti')
  BY <1>8, SigactionKeeps
<1>9. ASSUME NEW t \in Targets, NEW m \in SUBSET Caught,
             Sigprocmask(t, m) \/ Sigsuspend(t, m)
      PROVE  Invariant(ti')
  <2>1. m \in SUBSET Sig
    OBVIOUS
  <2> QED BY <1>9, <2>1, SigprocmaskKeeps, SigsuspendKeeps
<1> QED BY <1>1, <1>2, <1>3, <1>4, <1>5, <1>6, <1>7, <1>8, <1>9 DEF Next

-----------------------------------------------------------------------------
(* The theorems.                                                            *)

\* The invariant of all steps: of each task by itself, and of the parents
\* parked by vfork, each for one child.
THEOREM InvariantAlways == Spec => []Invariant(ti)
<1>1. Init => Invariant(ti)
  BY InitGood
<1>2. Invariant(ti) /\ [Next]_vars => Invariant(ti)'
  <2> SUFFICES ASSUME Invariant(ti), [Next]_vars PROVE Invariant(ti')
    BY DEF Invariant, Lending, Good, Woken, Suspension, Frames, Runs,
           Attended, Deliverable, Parked, TaskRecord
  <2> QED BY NextKeeps
<1> QED BY <1>1, <1>2, PTL DEF Spec

\* All fields of all tasks keep their types, for any set of tasks: there is
\* one frame at most, and SIGKILL and SIGSTOP are never masked
\* (signal.c:785-805, 897-903).
THEOREM TypesAlways == Spec => []TypeOK
<1>1. Invariant(ti) => TypeOK
  BY DEF Invariant, TypeOK
<1> QED BY <1>1, InvariantAlways, PTL

\* The assertions of unblock_parent_of_vforked_child (process.c:562-563) hold
\* whatever signals are sent to parent and child.
THEOREM ParkedAlways == Spec => []ParentParked
<1>1. Invariant(ti) => ParentParked
  BY DEF Invariant, Lending, Parked, ParentParked
<1> QED BY <1>1, InvariantAlways, PTL

\* No wake-up is lost in pause and sigsuspend (signal.c:905-951).
THEOREM WokenAlways == Spec => []SleepersWoken
<1>1. Invariant(ti) => SleepersWoken
  BY DEF Invariant, Good, SleepersWoken
<1> QED BY <1>1, InvariantAlways, PTL

\* The assertion of sys_rt_sigsuspend (signal.c:896) holds, and the frame
\* that rt_sigreturn pops is the one of the program that was interrupted.
THEOREM InterruptionAlways == Spec => []OneInterruption
<1>1. Invariant(ti) => OneInterruption
  BY DEF Invariant, Good, OneInterruption
<1> QED BY <1>1, InvariantAlways, PTL

\* Nothing of a program runs before the signals that come first
\* (signal.c:196-280).
THEOREM RunsAlways == Spec => []NothingRunsBefore
<1>1. Invariant(ti) => NothingRunsBefore
  BY DEF Invariant, Good, Runs, InUser, NothingRunsBefore
<1> QED BY <1>1, InvariantAlways, PTL
=============================================================================

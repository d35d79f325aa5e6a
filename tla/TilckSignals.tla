---------------------------- MODULE TilckSignals ----------------------------
(***************************************************************************)
(* Signals of the Tilck kernel (signal.c): posting, default actions, masks, *)
(* delivery to handlers, rt_sigreturn, sigsuspend, stop and continue, and   *)
(* what fork, vfork and execve do to them.                                  *)
(*                                                                          *)
(* There is one CPU and the code of signal.c runs with preemption off, so   *)
(* each call is one step; between calls any task may be scheduled.  A       *)
(* system call ends with process_signals(sig_in_syscall), which is part of  *)
(* the step that ends the call.                                             *)
(***************************************************************************)
EXTENDS Integers, FiniteSets

CONSTANTS
  Task,       \* slots of tasks
  First,      \* the task with tid 1; it may be outside the instance
  Sig,        \* signal numbers
  Default,    \* signal_default_actions
  KILL,       \* SIGKILL
  Fixed,      \* SIGKILL and SIGSTOP: neither caught, ignored nor masked
  Targets,    \* bound: the tasks that are sent signals and handle them
  Caught,     \* bound: signals that those catch, ignore or mask
  Faults,     \* signals that hardware faults raise
  None

Actions == {"terminate", "ignore", "stop", "continue"}

ASSUME SignalsAssumption ==
  /\ Sig \subseteq Nat \ {0}
  /\ Default \in [Sig -> Actions]
  /\ KILL \in Fixed /\ Fixed \subseteq Sig
  /\ Default[KILL] = "terminate"
  /\ \A s \in Fixed \ {KILL} : Default[s] = "stop"
  /\ Caught \subseteq Sig \ Fixed
  /\ Targets \subseteq Task
  /\ Faults \subseteq {s \in Sig \ Fixed : Default[s] = "terminate"}
  /\ None \notin Task \cup Sig

VARIABLE ti   \* struct task and what signals need of struct process
vars == ti

Dispositions == {"default", "ignored", "custom"}

\* What the registers of user mode lead to.  SIG_IGN is the number 1, and
\* "one" is code at that address.
Code == {"main", "handler", "one", "trampoline"}

\* Where the task is: in user mode; in the loop of sys_pause; in a call that
\* ends when the task runs again; in one that may sleep, before its wait
\* ("begun") or in its wait on a condition or for some time; and waiting for
\* a mutex before the wait ("lock") or after it ("relock").
Places == {"user", "pause", "call", "begun", "wait", "lock", "relock"}

\* signal_wakeup_task does not wake those that wait for a mutex.
Undisturbed == {"lock", "relock"}

States == {"free", "running", "runnable", "sleeping", "stopped", "zombie"}

NoTask ==
  [state |-> "free", at |-> "user", code |-> "main", saved |-> None,
   handlers |-> [s \in Sig |-> "default"], mask |-> {}, old_mask |-> {},
   pending |-> {}, faults |-> {}, nested |-> 0, suspended |-> FALSE,
   stop_pending |-> FALSE, vfork_stopped |-> FALSE, lender |-> None,
   late |-> FALSE]   \* history: it went to sleep after SIGKILL had come

Live(t)   == ti[t].state \notin {"free", "zombie"}
InUser(t) == ti[t].state = "running" /\ ti[t].at = "user"

\* Code that makes calls of its own choice.
Acts(t) == InUser(t) /\ ti[t].code \in {"main", "handler"}

-----------------------------------------------------------------------------
(* Pending signals and their delivery.                                      *)

Deliverable(r) == r.pending \ r.mask
Lowest(S)      == CHOOSE s \in S : \A o \in S : s <= o

PendingSignals(r) == r.nested = 0 /\ Deliverable(r) # {}

\* terminate_process if the task runs, else a detour to a call of pause.
Killed(r, current) ==
  IF current THEN [r EXCEPT !.state = "zombie"]
  ELSE [r EXCEPT !.code = "trampoline"]

Entry(h) == IF h = "custom" THEN "handler" ELSE "one"

Handled(r, s) ==
  [r EXCEPT !.saved  = IF r.nested = 0 THEN r.code ELSE @,
            !.code   = Entry(r.handlers[s]),
            !.nested = @ + 1]

Unposted(r, s) == [r EXCEPT !.pending = @ \ {s}, !.faults = @ \ {s}]

Unmasked(r) == [r EXCEPT !.mask = @ \ r.faults]

\* The user stack may be unusable when the first frame is saved on it.
Interrupted(r, current, s) ==
  {Handled(Unposted(r, s), s)} \cup
    (IF r.nested = 0 THEN {Killed(Unposted(r, s), current)} ELSE {})

\* While a handler runs only a signal that needs none is delivered.
Kills(r, s) == r.handlers[s] = "default" \/ s \in r.faults

\* Wrong: handlers interrupt each other.
DeliveredAlways(r, current, s, returning) ==
  IF r.handlers[s] = "default" THEN {Killed(r, current)}
  ELSE Interrupted(r, current, s)

Delivered(r, current, s, returning) ==
  IF r.nested > 0 /\ ~returning
    THEN {IF Kills(r, s) THEN Killed(r, current) ELSE r}
    ELSE IF r.handlers[s] = "default" THEN {Killed(r, current)}
         ELSE Interrupted(r, current, s)

\* Wrong: SIGKILL is one signal among others.
ProcessedInOrder(r, current, returning) ==
  LET u == Unmasked(r) IN
    IF Deliverable(u) = {} THEN {u}
    ELSE Delivered(u, current, Lowest(Deliverable(u)), returning)

\* process_signals: the states it may leave task r in.
Processed(r, current, returning) ==
  LET u == Unmasked(r) IN
    IF KILL \in u.pending THEN {Killed(u, current)}
    ELSE IF Deliverable(u) = {} THEN {u}
    ELSE Delivered(u, current, Lowest(Deliverable(u)), returning)

-----------------------------------------------------------------------------
(* Posting a signal.                                                        *)

\* Wrong: does not look at vfork_stopped.
AwakeAnyway(r) ==
  [r EXCEPT !.stop_pending = FALSE,
            !.state = IF \/ @ = "sleeping" /\ r.at \notin Undisturbed
                         \/ @ = "stopped"
                      THEN "runnable" ELSE @]

\* Wrong: wakes the stopped, not the sleeping.
AwakeStopped(r) ==
  IF r.vfork_stopped THEN r
  ELSE [r EXCEPT !.stop_pending = FALSE,
                 !.state = IF @ = "stopped" THEN "runnable" ELSE @]

Awake(r) ==
  IF r.vfork_stopped THEN r
  ELSE [r EXCEPT !.stop_pending = FALSE,
                 !.state = IF \/ @ = "sleeping" /\ r.at \notin Undisturbed
                              \/ @ = "stopped"
                           THEN "runnable" ELSE @]

Posted(r, s, fault) ==
  LET p == [r EXCEPT !.pending = @ \cup {s},
                     !.faults  = IF fault THEN @ \cup {s} ELSE @] IN
    IF s \in r.mask THEN p ELSE Awake(p)

Stopped(r) ==
  CASE r.state = "sleeping"              -> [r EXCEPT !.stop_pending = TRUE]
    [] r.state = "runnable"              -> [r EXCEPT !.state = "stopped"]
    [] r.state = "running"               -> [r EXCEPT !.state = "stopped",
                                                      !.at = "call"]
    [] OTHER                             -> r

Continued(r) ==
  IF r.vfork_stopped THEN r
  ELSE [r EXCEPT !.stop_pending = FALSE,
                 !.state = IF @ = "stopped" THEN "runnable" ELSE @]

Disposition(t, s) ==
  IF t = First /\ ti[t].handlers[s] = "default" THEN "ignored"
  ELSE ti[t].handlers[s]

\* do_send_signal
Sent(t, s, fault) ==
  LET h == Disposition(t, s) IN
    CASE h = "custom"                               -> Posted(ti[t], s, fault)
      [] h = "default" /\ Default[s] = "terminate"  -> Posted(ti[t], s, fault)
      [] h = "default" /\ Default[s] = "stop"       -> Stopped(ti[t])
      [] h = "default" /\ Default[s] = "continue"   -> Continued(ti[t])
      [] OTHER                                      -> ti[t]

-----------------------------------------------------------------------------
(* Steps.                                                                   *)

\* unblock_parent_of_vforked_child
Released(r) == [r EXCEPT !.state = "runnable", !.vfork_stopped = FALSE]

\* In tasks f, t becomes r; a task that ends gives back what it has borrowed.
After(f, t, r) ==
  [u \in Task |->
     IF u = t
       THEN IF r.state = "zombie"
              THEN [NoTask EXCEPT !.state = "zombie"]
              ELSE r
     ELSE IF r.state = "zombie" /\ u = r.lender THEN Released(f[u])
     ELSE f[u]]

Becomes(t, r) == ti' = After(ti, t, r)

\* A call of t ends and leaves r: signals are delivered on the way out.
Returns(t, r) ==
  \E d \in Processed([r EXCEPT !.at = "user"], TRUE, FALSE) : Becomes(t, d)

\* The CPU goes from the task that runs, if any, to t; process_signals
\* (sig_in_usermode) if t was in user mode.
Schedule(t) ==
  /\ ti[t].state = "runnable"
  /\ \E d \in IF ti[t].at = "user" THEN Processed(ti[t], FALSE, FALSE)
                                   ELSE {ti[t]} :
       ti' = [u \in Task |->
                IF u = t THEN [d EXCEPT !.state = "running"]
                ELSE IF ti[u].state = "running"
                  THEN [ti[u] EXCEPT !.state = "runnable"]
                ELSE ti[u]]

\* A signal from another task or a kernel thread.
Send(t, s) ==
  /\ Live(t) /\ ti[t].state # "running"
  /\ Becomes(t, Sent(t, s, FALSE))

\* The task sends itself a signal; if it stops, the call ends later.
Raise(t, s) ==
  /\ Acts(t)
  /\ LET r == Sent(t, s, FALSE) IN
       IF r.state = "stopped" THEN Becomes(t, r) ELSE Returns(t, r)

Fault(t, s) ==
  /\ InUser(t) /\ ti[t].code # "trampoline"
  /\ Returns(t, Sent(t, s, TRUE))

Sigaction(t, s, h) ==
  /\ Acts(t)
  /\ Returns(t, [ti[t] EXCEPT !.handlers[s] = h])

\* The three ways of sys_rt_sigprocmask reach the same masks.
Sigprocmask(t, m) ==
  /\ Acts(t)
  /\ Returns(t, [ti[t] EXCEPT !.mask = m \ Fixed])

Asleep(r, place) ==
  [r EXCEPT !.state = "sleeping", !.at = place, !.late = KILL \in r.pending]

\* The loop of sys_pause, from its test on.
PauseLoop(t, r) ==
  IF PendingSignals(r) THEN Returns(t, r) ELSE Becomes(t, Asleep(r, "pause"))

Pause(t) ==
  /\ InUser(t) /\ ti[t].code # "one"
  /\ PauseLoop(t, ti[t])

PauseAgain(t) ==
  /\ ti[t].state = "running" /\ ti[t].at = "pause"
  /\ PauseLoop(t, ti[t])

\* Wrong: looks for signals before it changes the mask.
SigsuspendLate(t, m) ==
  /\ Acts(t) /\ ti[t].nested = 0
  /\ LET r == [ti[t] EXCEPT !.old_mask = ti[t].mask, !.mask = m \ Fixed,
                            !.suspended = TRUE] IN
       IF PendingSignals(ti[t]) THEN Returns(t, r)
       ELSE Becomes(t, Asleep(r, "pause"))

Sigsuspend(t, m) ==
  /\ Acts(t) /\ ti[t].nested = 0
  /\ PauseLoop(t, [ti[t] EXCEPT !.old_mask = ti[t].mask, !.mask = m \ Fixed,
                                !.suspended = TRUE])

\* The mask is at an address the program may not read.
SigsuspendFails(t) ==
  /\ Acts(t) /\ ti[t].nested = 0
  /\ Returns(t, [ti[t] EXCEPT !.old_mask = ti[t].mask])

Resumed(r) ==
  [r EXCEPT !.mask      = IF r.suspended THEN r.old_mask ELSE @,
            !.suspended = FALSE,
            !.code      = r.saved,
            !.saved     = None]

\* sys_rt_sigreturn: the next handler, or back to what was interrupted.
Sigreturn(t) ==
  /\ Acts(t) /\ ti[t].nested > 0
  /\ LET u == Unmasked(ti[t]) IN
     \E d \in Processed(ti[t], TRUE, TRUE) :
       IF d.state = "zombie" THEN Becomes(t, d)
       ELSE LET r == IF d = u THEN Resumed(u) ELSE d IN
              Returns(t, [r EXCEPT !.nested = @ - 1])

\* A call that may sleep.  The task can be preempted in it before it does.
Enter(t) ==
  /\ Acts(t)
  /\ Becomes(t, [ti[t] EXCEPT !.at = "begun"])

\* The sleep on a condition or for some time, without a look at what is
\* pending: do_nanosleep and the pipe look after it.
Sleep(t) ==
  /\ ti[t].state = "running" /\ ti[t].at = "begun"
  /\ Becomes(t, Asleep(ti[t], "wait"))

\* A mutex is taken before the wait and, with a condition, again after it.
Lock(t) ==
  /\ ti[t].state = "running" /\ ti[t].at \in {"begun", "wait"}
  /\ Becomes(t, [ti[t] EXCEPT
                   !.state = "sleeping",
                   !.at = IF @ = "begun" THEN "lock" ELSE "relock"])

\* What the task waits for comes; a stop waits for this moment.
WakeUp(t) ==
  /\ ti[t].state = "sleeping" /\ ti[t].at \in {"wait"} \cup Undisturbed
  /\ Becomes(t, [ti[t] EXCEPT
                   !.state = IF @ = "sleeping" /\ ti[t].stop_pending
                             THEN "stopped" ELSE "runnable",
                   !.stop_pending = FALSE,
                   !.at = IF @ = "lock" THEN "begun" ELSE "wait"])

\* After its wait a call looks for signals before it waits once more.
WaitAgain(t) ==
  /\ ti[t].state = "running" /\ ti[t].at = "wait"
  /\ ~PendingSignals(ti[t])
  /\ Becomes(t, [ti[t] EXCEPT !.at = "begun"])

CallEnds(t) ==
  /\ ti[t].state = "running" /\ ti[t].at \in {"call", "begun", "wait"}
  /\ Returns(t, ti[t])

Copied(r, lender) ==
  [r EXCEPT !.state = "runnable", !.pending = {}, !.faults = {},
            !.lender = lender]

Fork(t, c) ==
  /\ Acts(t) /\ ti[c].state = "free"
  /\ \E d \in Processed(ti[t], TRUE, FALSE) :
       ti' = After([ti EXCEPT ![c] = Copied(ti[t], None)], t, d)

\* The parent stops in the call until the child executes a file or ends.
Vfork(t, c) ==
  /\ Acts(t) /\ ti[c].state = "free"
  /\ ti' = [ti EXCEPT ![t].state = "stopped", ![t].at = "call",
                      ![t].vfork_stopped = TRUE,
                      ![c] = Copied(ti[t], t)]

Reset(h) == [s \in Sig |-> IF h[s] = "custom" THEN "default" ELSE h[s]]

\* Wrong: in_sigsuspend stays.
ImageSuspended(r) ==
  [r EXCEPT !.nested = 0, !.code = "main", !.saved = None,
            !.handlers = Reset(@), !.lender = None]

\* The mask and the pending signals stay.
Image(r) ==
  [r EXCEPT !.nested = 0, !.suspended = FALSE, !.code = "main",
            !.saved = None, !.handlers = Reset(@), !.lender = None]

\* The new image is entered through the scheduler's switch, with the task
\* as the current one, so signals are delivered before its first step.
Execve(t) ==
  /\ Acts(t)
  /\ \E d \in Processed(Image(ti[t]), TRUE, FALSE) :
       ti' = After([u \in Task |-> IF u = ti[t].lender THEN Released(ti[u])
                                   ELSE ti[u]], t, d)

Exit(t) ==
  /\ Acts(t)
  /\ Becomes(t, [ti[t] EXCEPT !.state = "zombie"])

\* The parent waits for it.
Reap(t) ==
  /\ ti[t].state = "zombie"
  /\ Becomes(t, NoTask)

-----------------------------------------------------------------------------
Init ==
  \E f \in Task :
    ti = [t \in Task |-> IF t = f THEN [NoTask EXCEPT !.state = "running"]
                         ELSE NoTask]

Next ==
  \/ \E t \in Task :
       \/ Schedule(t) \/ PauseAgain(t) \/ CallEnds(t)
       \/ Sleep(t) \/ Lock(t) \/ WakeUp(t) \/ WaitAgain(t)
       \/ Sigreturn(t) \/ Execve(t) \/ Exit(t) \/ Reap(t)
       \/ \E c \in Task : Fork(t, c) \/ Vfork(t, c)
  \/ \E t \in Targets :
       \/ Pause(t) \/ SigsuspendFails(t) \/ Enter(t)
       \/ \E s \in Sig : Send(t, s) \/ Raise(t, s)
       \/ \E s \in Faults : Fault(t, s)
       \/ \E s \in Caught, h \in Dispositions : Sigaction(t, s, h)
       \/ \E m \in SUBSET Caught : Sigprocmask(t, m) \/ Sigsuspend(t, m)

Spec == Init /\ [][Next]_vars

\* What a running task does next if no choice of its program is involved.
GoesOn(t) ==
  \/ PauseAgain(t) \/ CallEnds(t) \/ Sleep(t)
  \/ ti[t].code = "trampoline" /\ Pause(t)

\* A task that can run is scheduled in the end, a running one is not always
\* preempted before it goes on, no call takes mutexes for ever, and mutexes
\* are released.  What a wait is for need not come.
Fairness ==
  \A t \in Targets :
    /\ WF_vars(Schedule(t)) /\ SF_vars(GoesOn(t))
    /\ WF_vars(ti[t].at \in Undisturbed /\ WakeUp(t))

FairSpec == Spec /\ Fairness

-----------------------------------------------------------------------------
(* Properties.                                                              *)

\* Type invariant.  No more than one handler's frame is ever on the stack,
\* neither is SIGKILL nor SIGSTOP ever masked.
TaskRecord ==
  [state : States, at : Places, code : Code, saved : Code \cup {None},
   handlers : [Sig -> Dispositions], mask : SUBSET (Sig \ Fixed),
   old_mask : SUBSET (Sig \ Fixed), pending : SUBSET Sig,
   faults : SUBSET Sig, nested : {0, 1}, suspended : BOOLEAN,
   stop_pending : BOOLEAN, vfork_stopped : BOOLEAN,
   lender : Task \cup {None}, late : BOOLEAN]

TypeOK == ti \in [Task -> TaskRecord]

\* Whatever signals are sent meanwhile, the parent of a vforked child that
\* has neither executed nor ended is where unblock_parent_of_vforked_child
\* asserts it to be (process.c:562-563): stopped, by vfork.
ParentParked ==
  \A c \in Task : ti[c].lender # None =>
    /\ ti[ti[c].lender].state = "stopped"
    /\ ti[ti[c].lender].vfork_stopped

\* Nobody sleeps in pause or sigsuspend, outside of handlers, with a signal
\* pending that the mask lets through: no wake-up is lost between the change
\* of the mask, the test of the loop and the sleep.
Woken(r) ==
  r.state = "sleeping" /\ r.at = "pause" /\ r.nested = 0
    => Deliverable(r) = {}

SleepersWoken == \A t \in Task : Woken(ti[t])

\* A mask of sigsuspend is in force only in its call and in the handlers that
\* end it, so that the next call meets its assertion (signal.c:896), and what
\* rt_sigreturn goes back to is what the first handler has interrupted.
Suspension(r) == r.suspended => r.nested = 1 \/ r.at = "pause"

Frames(r) ==
  /\ r.nested = 1 => r.saved \in {"main", "trampoline"}
  /\ r.nested = 0 => r.saved = None /\ r.code \in {"main", "trampoline"}

OneInterruption == \A t \in Task : Suspension(ti[t]) /\ Frames(ti[t])

\* No instruction of a program runs after a signal that should have come
\* first: none after SIGKILL, in a handler or not, and outside of handlers
\* none with any signal pending that the mask lets through, whatever the
\* order in which masks, handlers and pending signals have changed.
Attended(r) ==
  /\ KILL \notin r.pending
  /\ r.nested = 0 => Deliverable(r) = {}

NothingRunsBefore ==
  \A t \in Task :
    InUser(t) /\ ti[t].code # "trampoline" => Attended(ti[t])

\* A task with SIGKILL pending lives on for ever only stopped, or asleep in a
\* pause or a wait that it began after the signal had come: SIGKILL ends every
\* wait it meets, of a program or of a handler, and gets past mutexes, stops
\* that were pending and the detour through pause.  The exception is what the
\* code does: a call that has begun, or waited for a mutex, goes to sleep
\* without a look at what is pending (syscalls.c:45-47, pipe.c:107-132), and
\* in a handler pause and a call woken from its wait see no signal
\* (KilledAwake).
KillTakesEffect ==
  \A t \in Task :
    []<>~(/\ KILL \in ti[t].pending
          /\ ti[t].state # "stopped"
          /\ ~(ti[t].state = "sleeping" /\ ti[t].late
               /\ ti[t].at \notin Undisturbed))

\* "SIGKILL will always have absolute priority over anything else: no matter
\* if there are other pending signals or we're already running a custom
\* signal handler" (signal.c:212-214): nobody sleeps in pause after it.
KilledAwake ==
  \A t \in Task :
    KILL \in ti[t].pending => ~(ti[t].state = "sleeping" /\ ti[t].at = "pause")
=============================================================================

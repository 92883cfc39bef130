------------------------------- MODULE LwpSched -------------------------------
(***************************************************************************)
(* The LWP package: lib/lwp/lwp.c (scheduler), queue.c, sel.c (sleeping on *)
(* time and file descriptors) and sig.c (awaiting signals), as the thread  *)
(* package of lib/empthread/lwp.c uses them.                               *)
(*                                                                         *)
(* Threads are coroutines: the thread `cur' runs until it calls            *)
(* lwpReschedule().  An action is one call of the package by that thread,  *)
(* or the return of an earlier one, or one leg of the loop in lwpSelect(). *)
(* Signal handlers and the clock may come in between any two of them.      *)
(* `k' holds the package's data; pc says in which call a thread is.        *)
(***************************************************************************)
EXTENDS Integers, SequencesExt, FiniteSetsExt

CONSTANTS
  Main,         \* the thread that called lwpInitSystem()
  Select,       \* the thread that runs lwpSelect()
  Workers,      \* threads made with lwpCreate()
  Keepers,      \* workers that never exit, as the server's AcceptPlayers
  None,         \* no thread
  Fds,          \* file descriptor numbers; 0 is one of them
  MaxTime,      \* bound: the clock stops here, and nobody sleeps past it
  MaxCalls,     \* bound: calls a thread makes between two that block
  MaxSignals    \* bound: signals sent to the process

Threads == Workers \cup {Main}
Procs   == Threads \cup {Select}

ASSUME ConstantsAssumption ==
  /\ Keepers \subseteq Workers /\ Keepers # {}
  /\ None \notin Procs /\ Main # Select /\ {Main, Select} \cap Workers = {}
  /\ 0 \in Fds /\ Fds \subseteq Nat
  /\ MaxTime \in Nat \ {0} /\ {MaxCalls, MaxSignals} \subseteq Nat

VARIABLES
  k,            \* the package's data
  pc,           \* where each thread is
  now,          \* time()
  ret,          \* what each thread's last call that may block returned
  until,        \* what the thread asked for when it went to sleep
  calls,        \* calls each thread made since it last blocked (thread creation aside)
  pending,      \* LwpPendingSig[]
  signals       \* signals sent so far

vars == <<k, pc, now, ret, until, calls, pending, signals>>

\* SIGHUP, SIGINT, SIGTERM: LwpAwaitedSig[], in this order.
Awaited == <<"HUP", "INT", "TERM">>

Never == MaxTime + 1    \* later than any wakeup time
Pri(p) == IF p = Select THEN 0 ELSE 1

\* "runtime" is a time, or one of these.
NoTime == -1
WokenEarly == 0

-----------------------------------------------------------------------------
(***************************************************************************)
(* queue.c, and what sel.c and sig.c do to the package's data x.  Queues   *)
(* are linked through the threads: to add the last thread of a queue once  *)
(* more changes nothing.                                                   *)
(***************************************************************************)
AddTail(q, p) == IF q # <<>> /\ Last(q) = p THEN q ELSE Append(q, p)

Ready(x, p) == [x EXCEPT !.sched[Pri(p)] = AddTail(@, p)]

InDelayq(x, p) == x.runtime[p] \notin {NoTime, WokenEarly}

\* The tail of lwpWakeupFd(): stop waiting for the fd.
LeaveFd(x, p) ==
  Ready([x EXCEPT !.fds = @ \ {x.fd[p]},
                  !.nfds = @ - 1,
                  !.fdwait[x.fd[p]] = None,
                  !.fd[p] = -1], p)

\* Mutant: the delay queue is not consulted.
WakeupFdAtOnce(x, p) ==
  IF x.fd[p] \notin 0..x.maxfd THEN [x EXCEPT !.oops = TRUE] ELSE LeaveFd(x, p)

WakeupFd(x, p) ==
  IF x.fd[p] \notin 0..x.maxfd THEN [x EXCEPT !.oops = TRUE]
  ELSE IF InDelayq(x, p) THEN [x EXCEPT !.runtime[p] = NoTime]
  ELSE LeaveFd(x, p)

\* One round of the loop in lwpWakeupSleep().
\* Mutant: who sleeps on an fd is passed over.
WakeIfDueWithoutFd(x, p) ==
  IF now < x.runtime[p] \/ x.fd[p] >= 0 THEN [x EXCEPT !.delayq = Append(@, p)]
  ELSE Ready(IF x.runtime[p] = WokenEarly THEN x ELSE [x EXCEPT !.runtime[p] = NoTime], p)

WakeIfDue(x, p) ==
  IF now < x.runtime[p] THEN [x EXCEPT !.delayq = Append(@, p)]
  ELSE LET y == IF x.runtime[p] = WokenEarly THEN x ELSE [x EXCEPT !.runtime[p] = NoTime]
       IN  IF y.fd[p] >= 0 THEN WakeupFd(y, p) ELSE Ready(y, p)

WakeupSleep(x) == FoldLeft(WakeIfDue, [x EXCEPT !.delayq = <<>>], x.delayq)

Wakeup(x, p) ==
  WakeupSleep(IF x.fd[p] >= 0 THEN WakeupFd(x, p)
              ELSE IF x.runtime[p] # NoTime THEN [x EXCEPT !.runtime[p] = WokenEarly]
              ELSE x)

SigWakeup(x) ==
  IF x.waiter # None /\ x.check
  THEN [Ready(x, x.waiter) EXCEPT !.waiter = None]
  ELSE x

\* lwpReady(LwpSelProc), when the first waiter arrives.
RouseSelect(x) == IF x.maxfd = 0 /\ x.delayq = <<>> THEN Ready(x, Select) ELSE x

(***************************************************************************)
(* lwpReschedule(): free the dead threads put aside, then take the first   *)
(* live thread of the highest priority.  A dead thread met on the way is   *)
(* freed, except the one on whose stack this runs, which is put aside.     *)
(***************************************************************************)
DeadPrefix(x) ==
  LET live == {i \in DOMAIN x.sched[1] : x.sched[1][i] \notin x.dead}
  IN  IF live = {} THEN Len(x.sched[1]) ELSE Min(live) - 1

Buried(x, bodies) == bodies \ {x.cur}

PickNext(x) ==
  LET n      == DeadPrefix(x)
      bodies == ToSet(SubSeq(x.sched[1], 1, n))
      rest   == SubSeq(x.sched[1], n + 1, Len(x.sched[1]))
      freed  == ToSet(x.deadq) \cup Buried(x, bodies)
      next   == CASE rest # <<>> -> Head(rest)
                  [] rest = <<>> /\ x.sched[0] # <<>> -> Head(x.sched[0])
                  [] OTHER -> None
  IN  [x EXCEPT !.deadq = SetToSeq(bodies \ freed),
                !.freed = @ \cup freed,
                !.sched = [@ EXCEPT ![1] = IF rest = <<>> THEN rest ELSE Tail(rest),
                                    ![0] = IF next = Select THEN Tail(x.sched[0]) ELSE x.sched[0]],
                !.cur = next,
                !.oops = @ \/ next = None \/ x.cur \in freed]

Reschedule(x) == PickNext(WakeupSleep(SigWakeup(x)))

-----------------------------------------------------------------------------

\* What lwpInitSystem() leaves: Main's structure is zeroed, others' is not.
Init ==
  /\ k = [cur |-> Main, sched |-> [i \in 0..1 |-> IF i = 0 THEN <<Select>> ELSE <<>>], deadq |-> <<>>, dead |-> {},
          freed |-> {}, delayq |-> <<>>, fds |-> {}, nfds |-> 0, maxfd |-> 0,
          fdwait |-> [f \in Fds |-> None],
          fd |-> [t \in Threads |-> IF t = Main THEN 0 ELSE -1],
          fdready |-> [t \in Threads |-> FALSE],
          runtime |-> [t \in Threads |-> IF t = Main THEN WokenEarly ELSE NoTime],
          waiter |-> None, check |-> FALSE, oops |-> FALSE]
  /\ pc = [p \in Procs |-> IF p \in Workers THEN "new" ELSE "run"]
  /\ now = 1
  /\ ret = [t \in Threads |-> "none"]
  /\ until = [p \in Procs |-> Never]
  /\ calls = [t \in Threads |-> 0]
  /\ pending = {}
  /\ signals = 0

Runs(t) == k.cur = t /\ pc[t] = "run" /\ ~k.oops

\* start_server() is done: Main goes on to await signals, and then to shutdwn().
ServerUp == \A w \in Keepers : pc[w] # "new"

\* The thread gives up the processor inside a call, with the data as x.
Block(t, where, x) ==
  /\ k' = Reschedule(x)
  /\ pc' = [pc EXCEPT ![t] = where]
  /\ ret' = [p \in Threads |-> IF p = t THEN "none" ELSE ret[p]]

Counted(t) ==
  /\ calls[t] < MaxCalls
  /\ calls' = [calls EXCEPT ![t] = @ + 1]

\* lwpSleepUntil(), up to its lwpReschedule().  Main sleeps only in shutdwn(),
\* when the server is about to exit: that is left out.
SleepUntil(t, T) ==
  /\ Runs(t)
  /\ t # Main
  /\ LET x == [RouseSelect(k) EXCEPT !.runtime[t] = T]
     IN  Block(t, "sleep", [x EXCEPT !.delayq = AddTail(@, t)])
  /\ until' = [until EXCEPT ![t] = T]
  /\ UNCHANGED <<now, calls, pending, signals>>

\* lwpSleepFd(), up to its lwpReschedule(); T = Never stands for no timeout.
SleepFd(t, f, T) ==
  /\ Runs(t)
  /\ t # Main /\ f # 0
  /\ IF k.fdwait[f] # None
     THEN /\ ret' = [ret EXCEPT ![t] = "EBADF"]
          /\ Counted(t)
          /\ UNCHANGED <<k, pc, until>>
     ELSE LET x == RouseSelect([k EXCEPT !.fds = @ \cup {f}, !.nfds = @ + 1])
          IN  /\ Block(t, "sleepfd",
                    [x EXCEPT !.runtime[t] = IF T = Never THEN NoTime ELSE T,
                              !.delayq = IF T = Never THEN @ ELSE AddTail(@, t),
                              !.maxfd = IF f > @ THEN f ELSE @,
                              !.fdwait[f] = t,
                              !.fd[t] = f,
                              !.fdready[t] = FALSE])
              /\ until' = [until EXCEPT ![t] = T]
              /\ UNCHANGED calls
  /\ UNCHANGED <<now, pending, signals>>

\* What these two do when their lwpReschedule() returns.
Return(t) ==
  /\ k.cur = t
  /\ \/ /\ pc[t] = "sleep"
        /\ ret' = [ret EXCEPT ![t] = IF k.runtime[t] = WokenEarly THEN "early" ELSE "slept"]
        /\ k' = [k EXCEPT !.runtime[t] = NoTime]
     \/ /\ pc[t] = "sleepfd"
        /\ ret' = [ret EXCEPT ![t] = IF k.fdready[t] THEN "ready" ELSE "not ready"]
        /\ UNCHANGED k
  /\ pc' = [pc EXCEPT ![t] = "run"]
  /\ calls' = [calls EXCEPT ![t] = 0]
  /\ until' = [until EXCEPT ![t] = Never]
  /\ UNCHANGED <<now, pending, signals>>

\* empth_wakeup(): the caller knows that thread to be alive; it is never Main.
WakeUp(t, u) ==
  /\ Runs(t)
  /\ u \in Workers \ {t} /\ pc[u] \notin {"new", "dead"}
  /\ Counted(t)
  /\ k' = Wakeup(k, u)
  /\ UNCHANGED <<pc, now, ret, until, pending, signals>>

Yield(t) ==
  /\ Runs(t)
  /\ Counted(t)
  /\ k' = Reschedule(Ready(k, t))
  /\ UNCHANGED <<pc, now, ret, until, pending, signals>>

Create(t, u) ==
  /\ Runs(t)
  /\ pc[u] = "new"
  /\ k' = Reschedule(Ready(Ready(k, u), t))
  /\ pc' = [pc EXCEPT ![u] = "run"]
  /\ UNCHANGED <<now, ret, until, calls, pending, signals>>

Exit(t) ==
  /\ Runs(t)
  /\ t \in Workers \ Keepers
  /\ Block(t, "dead", Ready([k EXCEPT !.dead = @ \cup {t}], t))
  /\ UNCHANGED <<now, until, calls, pending, signals>>

(***************************************************************************)
(* lwpSigWait() with lwpGetSig(), which Main calls once the server's       *)
(* threads are there.  With several signals pending the loop of            *)
(* lwpGetSig() takes them all and returns the last.                        *)
(***************************************************************************)
LastPending == LET is == {i \in DOMAIN Awaited : Awaited[i] \in pending}
               IN  Awaited[Max(is)]

SigWait(t) ==
  /\ t = Main /\ k.cur = t /\ pc[t] \in {"run", "sigwait"} /\ ~k.oops
  /\ ServerUp
  /\ IF pending # {}
     THEN /\ ret' = [ret EXCEPT ![t] = LastPending]
          /\ pending' = {}
          /\ k' = [k EXCEPT !.check = FALSE]
          /\ pc' = [pc EXCEPT ![t] = "run"]
          /\ calls' = [calls EXCEPT ![t] = 0]
     ELSE /\ Block(t, "sigwait", [k EXCEPT !.check = FALSE, !.waiter = t])
          /\ UNCHANGED <<calls, pending>>
  /\ UNCHANGED <<now, until, signals>>

(***************************************************************************)
(* lwpSelect(): the top of the loop, up to select() or to the              *)
(* lwpReschedule() of a select thread with nobody to serve.                *)
(***************************************************************************)
SelectLoop ==
  /\ k.cur = Select
  /\ pc[Select] \in {"run", "parked"}
  /\ IF k.nfds = 0 /\ k.delayq = <<>>
     THEN /\ Block(Select, "parked", [k EXCEPT !.maxfd = 0])
          /\ until' = [until EXCEPT ![Select] = Never]
     ELSE /\ pc' = [pc EXCEPT ![Select] = "select"]
          /\ until' = [until EXCEPT ![Select] =
                         Min({Never} \cup {k.runtime[t] : t \in ToSet(k.delayq)})]
          /\ UNCHANGED <<k, ret>>
  /\ UNCHANGED <<now, calls, pending, signals>>

\* What the loop over the fds does for fd number f.
FdDispatch(x, f) ==
  IF x.fdwait[f] = None THEN x
  ELSE WakeupFd([x EXCEPT !.fdready[x.fdwait[f]] = TRUE], x.fdwait[f])

DispatchFds(x, ready) ==
  LET Dispatch(y, f) == IF f \in ready THEN FdDispatch(y, f) ELSE y
  IN  FoldLeft(Dispatch, x, [i \in 1..x.maxfd + 1 |-> i - 1])

\* select() returns: with some fds ready, or on its timeout.
SelectReturns(ready) ==
  /\ pc[Select] = "select"
  /\ ready = {} => until[Select] = Never \/ now >= until[Select]
  /\ Block(Select, "run", Ready(WakeupSleep(DispatchFds(k, ready)), Select))
  /\ until' = [until EXCEPT ![Select] = Never]
  /\ UNCHANGED <<now, calls, pending, signals>>

\* select() fails with EINTR.
SelectInterrupted ==
  /\ pc[Select] = "eintr"
  /\ Block(Select, "run", Ready(k, Select))
  /\ until' = [until EXCEPT ![Select] = Never]
  /\ UNCHANGED <<now, calls, pending, signals>>

-----------------------------------------------------------------------------

\* Mutant: the handler does not set LwpSigCheck.
SignalUnchecked(s) ==
  /\ signals < MaxSignals
  /\ signals' = signals + 1
  /\ pending' = pending \cup {s}
  /\ pc' = [pc EXCEPT ![Select] = IF @ = "select" THEN "eintr" ELSE @]
  /\ UNCHANGED <<k, now, ret, until, calls>>

\* A signal arrives: lwpHandleAwaitedSig(), and select() is interrupted.
Signal(s) ==
  /\ signals < MaxSignals
  /\ signals' = signals + 1
  /\ pending' = pending \cup {s}
  /\ k' = [k EXCEPT !.check = TRUE]
  /\ pc' = [pc EXCEPT ![Select] = IF @ = "select" THEN "eintr" ELSE @]
  /\ UNCHANGED <<now, ret, until, calls>>

Tick ==
  /\ now < MaxTime
  /\ now' = now + 1
  /\ UNCHANGED <<k, pc, ret, until, calls, pending, signals>>

Blocks(t) == \/ \E T \in now + 1 .. Never : SleepUntil(t, T)
             \/ \E f \in Fds, T \in now .. Never : SleepFd(t, f, T)
             \/ SigWait(t)
             \/ Exit(t)

Next ==
  \/ \E t \in Threads : \/ Blocks(t) \/ Return(t) \/ Yield(t)
                        \/ \E u \in Threads : WakeUp(t, u) \/ Create(t, u)
  \/ SelectLoop
  \/ \E ready \in SUBSET k.fds : SelectReturns(ready)
  \/ SelectInterrupted
  \/ \E s \in ToSet(Awaited) : Signal(s)
  \/ Tick

Spec == Init /\ [][Next]_vars

(***************************************************************************)
(* Nobody keeps the processor for ever: everything in the server that      *)
(* loops sleeps or exits, and Main creates the keepers before it awaits    *)
(* signals.  Time passes, and select() returns when its timeout is over    *)
(* (with nobody to time out, after a million seconds).  No fd need ever    *)
(* become ready and no signal need ever come.  Each conjunct names states  *)
(* that some action of the thread or of the system can always leave.       *)
(***************************************************************************)
SelectOverdue == until[Select] = Never \/ now >= until[Select]

FairSpec ==
  /\ Spec
  /\ \A p \in Procs : []<>~(k.cur = p /\ pc[p] # "select")
  /\ []<>~(pc[Select] = "select" /\ SelectOverdue)
  /\ <>(now = MaxTime)

-----------------------------------------------------------------------------

TypeOK ==
  /\ k.cur \in Procs
  /\ k.sched[1] \in Seq(Threads) /\ k.sched[0] \in Seq({Select})
  /\ k.delayq \in Seq(Threads)
  /\ k.fds \subseteq Fds /\ k.maxfd \in Fds
  /\ k.runtime \in [Threads -> NoTime .. Never]
  /\ pc \in [Procs -> {"new", "run", "sleep", "sleepfd", "sigwait", "dead",
                       "parked", "select", "eintr"}]

\* No CANT_HAPPEN() fires and lwpReschedule() always finds a thread to run.
NoOops == ~k.oops

WaitsForFd(t) == \E f \in Fds : k.fdwait[f] = t

(***************************************************************************)
(* A thread is in one place only: running, ready, asleep on time or an fd, *)
(* awaiting a signal, put aside to be freed, or freed.  (Asleep on an fd   *)
(* with a timeout, it is in LwpFdwait[] and LwpDelayq at once.)            *)
(***************************************************************************)
Times(q, t) == Cardinality({i \in DOMAIN q : q[i] = t})
Asleep(t) == WaitsForFd(t) \/ Times(k.delayq, t) # 0

OnePlace ==
  \A t \in Threads :
    /\ pc[t] # "new" =>
         1 = (IF k.cur = t THEN 1 ELSE 0) + Times(k.sched[1], t) + Times(k.deadq, t)
             + (IF k.waiter = t THEN 1 ELSE 0) + (IF Asleep(t) THEN 1 ELSE 0)
             + (IF t \in k.freed THEN 1 ELSE 0)
    /\ Times(k.delayq, t) <= 1
    /\ Asleep(t) => pc[t] \in {"sleep", "sleepfd"}

\* Whoever sleeps is served: the select thread runs or is ready to.
SelectServes ==
  (\E t \in Threads : Asleep(t)) => k.cur = Select \/ k.sched[0] # <<>>

\* No thread is lost: each is in one place, whatever comes when it sleeps,
\* wakes, yields or exits, the select thread is there to serve those that
\* sleep, and the scheduler never runs into a thread that is not there.
NobodyLost == TypeOK /\ NoOops /\ OnePlace /\ SelectServes

(***************************************************************************)
(* lwpSleepUntil() returns "0 if it slept until that time", lwpSleepFd()   *)
(* "zero on timeout or early wakeup" (empthread.h): a thread that nobody   *)
(* woke does not return before its time.                                   *)
(***************************************************************************)
SleptEnough ==
  [][\A t \in Threads : pc[t] = "sleep" /\ pc'[t] = "run" /\ ret'[t] = "slept"
                          => now >= until[t]]_vars

\* A thread that sleeps until some time, or with a timeout, comes back.
SleeperReturns ==
  \A t \in Threads : pc[t] \in {"sleep", "sleepfd"} /\ until[t] # Never ~> pc[t] = "run"

\* A sleep with a time limit ends, and unless somebody ends it, not before.
SleepsEnd == SleptEnough /\ SleeperReturns

\* A signal that arrives is taken by the thread that waits for signals.
SignalTaken == pending # {} ~> pending = {}

=============================================================================

---------------------------- MODULE PosixThreads ----------------------------
(***************************************************************************)
(* The POSIX thread package but for its locks (PosixRWLock):               *)
(* lib/empthread/pthread.c.                                                *)
(*                                                                         *)
(* "Empire code outside this file is only executed while holding"          *)
(* mtx_ctxsw.  A thread gives it up to create another, to yield, to sleep  *)
(* in select() and to await a signal; between giving it up and sleeping,   *)
(* and between waking and having it again, other threads run.              *)
(* empth_wakeup() is a flag and a SIGALRM, which interrupts a select() but *)
(* does nothing to a thread that is about to call one.                     *)
(***************************************************************************)
EXTENDS Integers

CONSTANTS
  PosixMain,        \* the thread that called empth_init()
  PosixOthers,      \* threads made with empth_create()
  MaxClock,         \* bound: time() stops here
  MaxBreaks,        \* bound: SIGALRMs from elsewhere
  MaxWakeups        \* bound: calls of empth_wakeup()

PosixSet == {PosixMain} \cup PosixOthers

VARIABLES
  at,               \* where each thread is
  call,             \* the call it gave the mutex up in
  wakeup,           \* empth_t.wakeup
  until,            \* when its select() times out, or Never
  result,           \* what select() returned, later what the call returns
  udata,            \* whose context *udata is
  clock,            \* time()
  woken,            \* those woken since they gave the mutex up
  broken, wakeups   \* for the bounds

posixVars == <<at, call, wakeup, until, result, udata, clock, woken, broken, wakeups>>

(***************************************************************************)
(* absent: not created, or gone; new: created, and yet to lock the mutex;  *)
(* runs: has the mutex; before, in, after: about to call select(), in it,  *)
(* and done with it.  A call other than empth_select() and empth_sleep()   *)
(* is "in" until what it waits for, and "after" then.                      *)
(***************************************************************************)
Places == {"absent", "new", "runs", "before", "in", "after"}
Calls == {"none", "yield", "select", "sleep", "signal"}

Never == MaxClock + 1
Sleeps(t) == call[t] \in {"select", "sleep"} /\ at[t] \in {"before", "in"}

PosixInit ==
  /\ at = [t \in PosixSet |-> IF t = PosixMain THEN "runs" ELSE "absent"]
  /\ call = [t \in PosixSet |-> "none"]
  /\ wakeup = [t \in PosixSet |-> FALSE]
  /\ until = [t \in PosixSet |-> Never]
  /\ result = [t \in PosixSet |-> "none"]
  /\ udata = PosixMain /\ clock = 0
  /\ woken = {} /\ broken = 0 /\ wakeups = 0

GiveUp(t, c, where) ==
  /\ at' = [at EXCEPT ![t] = where]
  /\ call' = [call EXCEPT ![t] = c]

PosixYield(t) ==
  /\ at[t] = "runs"
  /\ GiveUp(t, "yield", "after")
  /\ UNCHANGED <<wakeup, until, result, udata, clock, woken, broken, wakeups>>

\* empth_create() by t, which yields when u is on its way
PosixCreate(t, u) ==
  /\ at[t] = "runs" /\ at[u] = "absent" /\ u # PosixMain
  /\ at' = [at EXCEPT ![t] = "after", ![u] = "new"]
  /\ call' = [call EXCEPT ![t] = "yield", ![u] = "none"]
  /\ wakeup' = [wakeup EXCEPT ![u] = FALSE]
  /\ UNCHANGED <<until, result, udata, clock, woken, broken, wakeups>>

PosixExit(t) ==
  /\ at[t] = "runs" /\ t # PosixMain
  /\ GiveUp(t, "none", "absent")
  /\ UNCHANGED <<wakeup, until, result, udata, clock, woken, broken, wakeups>>

\* empth_select(), with a timeout or without, up to its unlock of the mutex;
\* how long the timeout is shows when select() is called
PosixSelect(t) ==
  /\ at[t] = "runs"
  /\ GiveUp(t, "select", "before")
  /\ \E d \in {1, Never} : until' = [until EXCEPT ![t] = d]
  /\ UNCHANGED <<wakeup, result, udata, clock, woken, broken, wakeups>>

PosixSleep(t) ==
  /\ at[t] = "runs"
  /\ GiveUp(t, "sleep", "before")
  /\ \E d \in clock .. MaxClock : until' = [until EXCEPT ![t] = d]
  /\ UNCHANGED <<wakeup, result, udata, clock, woken, broken, wakeups>>

PosixWaitForSignal(t) ==
  /\ at[t] = "runs" /\ t = PosixMain
  /\ GiveUp(t, "signal", "in")
  /\ UNCHANGED <<wakeup, until, result, udata, clock, woken, broken, wakeups>>

\* the call of select(): a thread that sleeps works out how long from the
\* time, one that selects says how long, and says the same again after EINTR
EnterSelect(t) ==
  /\ at[t] = "before"
  /\ at' = [at EXCEPT ![t] = "in"]
  /\ until' = [until EXCEPT ![t] = IF call[t] = "select" /\ @ # Never
                                   THEN IF clock < MaxClock THEN clock + 1 ELSE clock ELSE @]
  /\ UNCHANGED <<call, wakeup, result, udata, clock, woken, broken, wakeups>>

\* select() returns: the descriptor is ready, or time is up
SelectDone(t) ==
  /\ at[t] = "in" /\ Sleeps(t)
  /\ at' = [at EXCEPT ![t] = "after"]
  /\ \/ call[t] = "select" /\ result' = [result EXCEPT ![t] = "ready"]
     \/ until[t] <= clock /\ result' = [result EXCEPT ![t] = "timeout"]
  /\ UNCHANGED <<call, wakeup, until, udata, clock, woken, broken, wakeups>>

\* EINTR: the thread's own flag tells whether empth_wakeup() did it
GoesOn(t, flag) ==
  /\ at' = [at EXCEPT ![t] = IF flag THEN "after" ELSE "before"]
  /\ result' = [result EXCEPT ![t] = IF flag THEN "early" ELSE @]

PosixAlarm(t) ==
  /\ Sleeps(t) /\ at[t] = "in" /\ broken < MaxBreaks
  /\ broken' = broken + 1
  /\ GoesOn(t, wakeup[t])
  /\ UNCHANGED <<call, wakeup, until, udata, clock, woken, wakeups>>

SignalComes(t) ==
  /\ at[t] = "in" /\ call[t] = "signal"
  /\ at' = [at EXCEPT ![t] = "after"]
  /\ UNCHANGED <<call, wakeup, until, result, udata, clock, woken, broken, wakeups>>

(***************************************************************************)
(* empth_wakeup(u) by t: the flag, and SIGALRM.  The signal ends a         *)
(* select(); it leaves no trace on a thread that is elsewhere.  u has run  *)
(* before: the server has no pointer to a thread that has not, nor to one  *)
(* that is gone.                                                           *)
(***************************************************************************)
PosixWakeup(t, u) ==
  /\ at[t] = "runs" /\ at[u] \notin {"absent", "new", "runs"} /\ wakeups < MaxWakeups
  /\ wakeups' = wakeups + 1
  /\ wakeup' = [wakeup EXCEPT ![u] = TRUE]
  /\ IF Sleeps(u) /\ at[u] = "in"
     THEN GoesOn(u, TRUE)
     ELSE UNCHANGED <<at, result>>
  /\ woken' = woken \cup {u}
  /\ UNCHANGED <<call, until, udata, clock, broken>>

\* Mutant: the flag is left as it is.
RestoreContextOnly(t) == udata' = t /\ UNCHANGED wakeup

RestoreContext(t) == udata' = t /\ wakeup' = [wakeup EXCEPT ![t] = FALSE]

\* the mutex is free, and t gets it
PosixResume(t) ==
  /\ at[t] \in {"new", "after"} /\ \A u \in PosixSet : at[u] # "runs"
  /\ at' = [at EXCEPT ![t] = "runs"]
  /\ IF at[t] = "new" THEN udata' = t /\ UNCHANGED wakeup ELSE RestoreContext(t)
  /\ call' = [call EXCEPT ![t] = "none"]
  /\ until' = [until EXCEPT ![t] = Never]
  /\ result' = [result EXCEPT ![t] = "none"]
  /\ woken' = woken \ {t}
  /\ UNCHANGED <<clock, broken, wakeups>>

PosixTick ==
  /\ clock < MaxClock /\ clock' = clock + 1
  /\ UNCHANGED <<at, call, wakeup, until, result, udata, woken, broken, wakeups>>

\* what a thread does with the mutex; it does not keep it for ever
PosixGivesUp(t) ==
  \/ PosixYield(t) \/ PosixExit(t) \/ PosixSelect(t) \/ PosixSleep(t)
  \/ PosixWaitForSignal(t)
  \/ \E u \in PosixSet : PosixCreate(t, u)

PosixNext ==
  \/ \E t \in PosixSet : \/ PosixGivesUp(t) \/ EnterSelect(t) \/ SelectDone(t)
                         \/ PosixAlarm(t) \/ SignalComes(t) \/ PosixResume(t)
                         \/ \E u \in PosixSet : PosixWakeup(t, u)
  \/ PosixTick

(***************************************************************************)
(* Time goes on, a runnable thread runs, and the mutex is fair, which the  *)
(* package hopes for: POSIX does not promise it.                           *)
(***************************************************************************)
PosixFair ==
  /\ WF_posixVars(PosixTick)
  /\ \A t \in PosixSet : /\ WF_posixVars(EnterSelect(t))
                         /\ WF_posixVars(at[t] = "in" /\ until[t] <= clock /\ SelectDone(t))
                         /\ WF_posixVars(PosixGivesUp(t))
                         /\ SF_posixVars(PosixResume(t))

PosixSpec == PosixInit /\ [][PosixNext]_posixVars

-----------------------------------------------------------------------------

PosixTypeOK ==
  /\ at \in [PosixSet -> Places] /\ call \in [PosixSet -> Calls]
  /\ wakeup \in [PosixSet -> BOOLEAN] /\ until \in [PosixSet -> 0 .. Never]
  /\ udata \in PosixSet /\ woken \subseteq PosixSet

\* The context variable "is also assigned ... whenever the thread gets
\* scheduled" (empthread.h): it is the running thread's own.
ContextIsRunners == \A t \in PosixSet : at[t] = "runs" => udata = t

(***************************************************************************)
(* "Return 0 if it slept until that time.  Return -1 if woken up early, by *)
(* empth_wakeup()" (empthread.h): a call that says it was woken early was, *)
(* since it began; one that says it slept saw its time come.               *)
(***************************************************************************)
ToldWhyItWoke ==
  \A t \in PosixSet : at[t] = "after" /\ call[t] \in {"select", "sleep"} =>
    /\ result[t] = "early" => t \in woken
    /\ result[t] = "timeout" => until[t] <= clock

\* Whoever sleeps for a time gets the mutex back, woken or not.
PosixSleeperReturns ==
  \A t \in PosixSet : Sleeps(t) /\ until[t] # Never ~> at[t] = "runs"

PosixSleepsAsTold ==
  /\ [](PosixTypeOK /\ ContextIsRunners /\ ToldWhyItWoke)
  /\ PosixSleeperReturns

(***************************************************************************)
(* "Awaken thread if it is sleeping in empth_select() or empth_sleep()"    *)
(* (empthread.h): no thread is in select() that was told to wake up.       *)
(***************************************************************************)
WakeupsArrive == \A t \in PosixSet : Sleeps(t) /\ at[t] = "in" => ~wakeup[t]
=============================================================================

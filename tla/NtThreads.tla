------------------------------ MODULE NtThreads ------------------------------
(***************************************************************************)
(* The Windows thread package: lib/empthread/ntthread.c.  First the        *)
(* read-write lock: counts of readers and of writers "active and waiting", *)
(* and two events that say whether the lock may be taken.  Whoever wants   *)
(* it waits, with WaitForMultipleObjects(), for its event and for the      *)
(* mutex all running threads hold, and gets both at once; so, as in        *)
(* PosixRWLock, a step is what one thread does with the mutex.  Then the   *)
(* mutex, and what else a thread may do.                                   *)
(*                                                                         *)
(* "The running thread has this MUTEX, and all others are either blocked   *)
(* on it, or waiting for some OS response."  Unlike POSIX threads, a       *)
(* thread that is told to wake up finds its event set when it comes to     *)
(* wait for it, be that soon or late.                                      *)
(***************************************************************************)
EXTENDS Integers, FiniteSets

CONSTANTS NtSet,            \* the threads
          NtWriters         \* those that ever lock for writing

ASSUME NtAssumption == IsFiniteSet(NtSet) /\ NtWriters \subseteq NtSet

VARIABLES canRead,          \* manual event: allows read locks
          canWrite,         \* auto-reset event: allows write locks
          ntRead,           \* nread: number of active readers
          ntWrite,          \* nwrite: total number of writers (active and waiting)
          ntMode,           \* what the lock is to each thread
          ntOops            \* a CANT_HAPPEN() fired

ntLockVars == <<canRead, canWrite, ntRead, ntWrite, ntMode, ntOops>>

NtModes == {"idle", "rdwait", "wrwait", "rd", "wr"}

NtLockInit ==
  /\ canRead = TRUE /\ canWrite = TRUE
  /\ ntRead = 0 /\ ntWrite = 0
  /\ ntMode = [t \in NtSet |-> "idle"]
  /\ ntOops = FALSE

NtTurn(t, m) == ntMode' = [ntMode EXCEPT ![t] = m]

\* Mutant: new readers are not blocked.
NtWrLockOpen(t) ==
  /\ t \in NtWriters /\ ntMode[t] = "idle"
  /\ ntWrite' = ntWrite + 1
  /\ NtTurn(t, "wrwait")
  /\ UNCHANGED <<canRead, canWrite, ntRead, ntOops>>

NtWrLock(t) ==
  /\ t \in NtWriters /\ ntMode[t] = "idle"
  /\ canRead' = FALSE
  /\ ntWrite' = ntWrite + 1
  /\ NtTurn(t, "wrwait")
  /\ UNCHANGED <<canWrite, ntRead, ntOops>>

\* the wait is over, which resets the event
NtGetWr(t) ==
  /\ ntMode[t] = "wrwait" /\ canWrite
  /\ canWrite' = FALSE
  /\ ntOops' = (ntOops \/ ntRead # 0)
  /\ NtTurn(t, "wr")
  /\ UNCHANGED <<canRead, ntRead, ntWrite>>

NtRdLock(t) ==
  /\ ntMode[t] = "idle"
  /\ NtTurn(t, "rdwait")
  /\ UNCHANGED <<canRead, canWrite, ntRead, ntWrite, ntOops>>

NtGetRd(t) ==
  /\ ntMode[t] = "rdwait" /\ canRead
  /\ canWrite' = FALSE
  /\ ntRead' = ntRead + 1
  /\ NtTurn(t, "rd")
  /\ UNCHANGED <<canRead, ntWrite, ntOops>>

\* with readers about, the caller is taken for one
NtUnlock(t) ==
  /\ ntMode[t] \in {"rd", "wr"}
  /\ NtTurn(t, "idle")
  /\ IF ntRead = 0 /\ ntWrite = 0
     THEN ntOops' = TRUE /\ UNCHANGED <<canRead, canWrite, ntRead, ntWrite>>
     ELSE /\ IF ntRead # 0
             THEN ntRead' = ntRead - 1 /\ UNCHANGED ntWrite
             ELSE ntWrite' = ntWrite - 1 /\ UNCHANGED ntRead
          /\ canWrite' = (canWrite \/ ntRead' = 0)
          /\ canRead' = (canRead \/ ntWrite' = 0)
          /\ UNCHANGED ntOops

NtLockStep(t) == NtWrLock(t) \/ NtGetWr(t) \/ NtRdLock(t) \/ NtGetRd(t) \/ NtUnlock(t)

NtLockSpec == NtLockInit /\ [][\E t \in NtSet : NtLockStep(t)]_ntLockVars

-----------------------------------------------------------------------------

NtHolding(m) == {t \in NtSet : ntMode[t] = m}

NtLockTypeOK ==
  /\ canRead \in BOOLEAN /\ canWrite \in BOOLEAN /\ ntOops \in BOOLEAN
  /\ ntRead \in Nat /\ ntWrite \in Nat
  /\ ntMode \in [NtSet -> NtModes]

(***************************************************************************)
(* The table above struct loc_RWLock: what counts and events are while the *)
(* lock is unlocked, read-locked with and without writers contending, and  *)
(* write-locked.  The table forgets the writers on their way to a lock     *)
(* nobody holds: they keep new readers out, too.                           *)
(***************************************************************************)
NtEventsAgree ==
  /\ ntRead = Cardinality(NtHolding("rd"))
  /\ ntWrite = Cardinality(NtHolding("wr") \cup NtHolding("wrwait"))
  /\ canRead <=> NtHolding("wr") \cup NtHolding("wrwait") = {}
  /\ canWrite <=> NtHolding("rd") \cup NtHolding("wr") = {}

\* A writer excludes every other holder.
NtExclusion ==
  \A t, u \in NtSet : ntMode[t] = "wr" /\ ntMode[u] \in {"rd", "wr"} => t = u

NtERW == INSTANCE EmpRWLock WITH Threads <- NtSet, mode <- ntMode

\* Every step is one the contract of include/empthread.h allows.
NtContract == NtERW!Spec

-----------------------------------------------------------------------------
(* The threads. *)

CONSTANTS NtMain,           \* the thread that called empth_init()
          NtNone,           \* no thread
          NtWakeupMax       \* bound: calls of empth_wakeup()

ASSUME NtMainAssumption == NtMain \in NtSet /\ NtNone \notin NtSet

VARIABLES ntAt,             \* where each thread is
          pCurThread,       \* the current running thread
          ntUser,           \* whose context *ppvUserData is
          threadEvent,      \* auto-reset: hThreadEvent of each thread
          shutdownEvent,    \* manual: hShutdownEvent
          ntWakeups         \* for the bound

ntOwn == <<ntAt, pCurThread, ntUser, threadEvent, shutdownEvent, ntWakeups>>
ntVars == <<ntLockVars, ntOwn>>

(***************************************************************************)
(* runs: has the mutex; blocked: waits for it, and for an event with it if *)
(* it wants the lock; signal: waits for the mutex and hShutdownEvent;      *)
(* select, sleep: waits for what ends the call, without the mutex.         *)
(***************************************************************************)
NtPlaces == {"absent", "runs", "blocked", "signal", "select", "sleep"}

NtInit ==
  /\ NtLockInit
  /\ ntAt = [t \in NtSet |-> IF t = NtMain THEN "runs" ELSE "absent"]
  /\ pCurThread = NtMain /\ ntUser = NtMain
  /\ threadEvent = [t \in NtSet |-> FALSE] /\ shutdownEvent = FALSE
  /\ ntWakeups = 0

NtRunning(t) == ntAt[t] = "runs" /\ pCurThread = t

\* loc_BlockThisThread()
NtBlock(t, where) ==
  /\ ntAt' = [ntAt EXCEPT ![t] = where]
  /\ pCurThread' = NtNone /\ ntUser' = NtNone

\* empth_yield(), and the end of empth_create()
NtYield(t) ==
  /\ NtRunning(t)
  /\ NtBlock(t, "blocked")
  /\ UNCHANGED <<ntLockVars, threadEvent, shutdownEvent, ntWakeups>>

NtCreate(t, u) ==
  /\ NtRunning(t) /\ ntAt[u] = "absent"
  /\ ntAt' = [ntAt EXCEPT ![t] = "blocked", ![u] = "blocked"]
  /\ pCurThread' = NtNone /\ ntUser' = NtNone
  /\ threadEvent' = [threadEvent EXCEPT ![u] = FALSE]
  /\ UNCHANGED <<ntLockVars, shutdownEvent, ntWakeups>>

\* a thread that exits holds no lock: player_main(), update_run()
NtExit(t) ==
  /\ NtRunning(t) /\ t # NtMain /\ ntMode[t] = "idle"
  /\ NtBlock(t, "absent")
  /\ threadEvent' = [threadEvent EXCEPT ![t] = FALSE]
  /\ UNCHANGED <<ntLockVars, shutdownEvent, ntWakeups>>

NtSelect(t) ==
  /\ NtRunning(t)
  /\ NtBlock(t, "select")
  /\ UNCHANGED <<ntLockVars, threadEvent, shutdownEvent, ntWakeups>>

NtSleep(t) ==
  /\ NtRunning(t)
  /\ NtBlock(t, "sleep")
  /\ UNCHANGED <<ntLockVars, threadEvent, shutdownEvent, ntWakeups>>

NtWaitForSignal(t) ==
  /\ NtRunning(t) /\ t = NtMain /\ ntMode[t] = "idle"
  /\ NtBlock(t, "signal")
  /\ UNCHANGED <<ntLockVars, threadEvent, shutdownEvent, ntWakeups>>

NtWaitEnds(t) ==
  /\ ntAt' = [ntAt EXCEPT ![t] = "blocked"]
  /\ UNCHANGED <<ntLockVars, pCurThread, ntUser, shutdownEvent, ntWakeups>>

\* the descriptor is ready, which goes before the thread's event, or the time
\* is up, which does not
NtReadyOrTimeout(t) ==
  /\ \/ ntAt[t] = "select"
     \/ ntAt[t] = "sleep" /\ ~threadEvent[t]
  /\ NtWaitEnds(t)
  /\ UNCHANGED threadEvent

\* Mutant: a wakeup is for those that sleep on time alone.
NtWokenAsleep(t) ==
  /\ ntAt[t] = "sleep" /\ threadEvent[t]
  /\ NtWaitEnds(t)
  /\ threadEvent' = [threadEvent EXCEPT ![t] = FALSE]

NtWoken(t) ==
  /\ ntAt[t] \in {"select", "sleep"} /\ threadEvent[t]
  /\ NtWaitEnds(t)
  /\ threadEvent' = [threadEvent EXCEPT ![t] = FALSE]

NtWakeup(t, u) ==
  /\ NtRunning(t) /\ ntAt[u] # "absent" /\ ntWakeups < NtWakeupMax
  /\ ntWakeups' = ntWakeups + 1
  /\ threadEvent' = [threadEvent EXCEPT ![u] = TRUE]
  /\ UNCHANGED <<ntLockVars, ntAt, pCurThread, ntUser, shutdownEvent>>

\* the console's handler calls empth_request_shutdown() in a thread of its own
NtRequestShutdown ==
  /\ ~shutdownEvent /\ shutdownEvent' = TRUE
  /\ UNCHANGED <<ntLockVars, ntAt, pCurThread, ntUser, threadEvent, ntWakeups>>

\* loc_RunThisThread(): the mutex is free, and the event, if any, is set
NtRun(t) ==
  /\ \A u \in NtSet : ntAt[u] # "runs"
  /\ \/ ntAt[t] = "blocked"
        /\ \/ ntMode[t] \notin {"rdwait", "wrwait"} /\ UNCHANGED ntLockVars
           \/ NtGetWr(t) \/ NtGetRd(t)
     \/ ntAt[t] = "signal" /\ shutdownEvent /\ UNCHANGED ntLockVars
  /\ ntAt' = [ntAt EXCEPT ![t] = "runs"]
  /\ pCurThread' = t /\ ntUser' = t
  /\ UNCHANGED <<threadEvent, shutdownEvent, ntWakeups>>

\* the lock's functions; wrlock() and rdlock() block in any case
NtWant(t) ==
  /\ NtRunning(t)
  /\ NtWrLock(t) \/ NtRdLock(t)
  /\ NtBlock(t, "blocked")
  /\ UNCHANGED <<threadEvent, shutdownEvent, ntWakeups>>

NtLetGo(t) ==
  /\ NtRunning(t)
  /\ NtUnlock(t)
  /\ UNCHANGED ntOwn

NtGivesUp(t) ==
  \/ NtYield(t) \/ NtExit(t) \/ NtSelect(t) \/ NtSleep(t) \/ NtWaitForSignal(t)
  \/ NtWant(t)
  \/ \E u \in NtSet : NtCreate(t, u)

NtNext ==
  \/ \E t \in NtSet : \/ NtGivesUp(t) \/ NtLetGo(t) \/ NtRun(t)
                      \/ NtReadyOrTimeout(t) \/ NtWoken(t)
                      \/ \E u \in NtSet : NtWakeup(t, u)
  \/ NtRequestShutdown

NtSpec == NtInit /\ [][NtNext]_ntVars

(***************************************************************************)
(* A thread does not keep the mutex, nor a lock, for ever, and who holds a *)
(* lock does not wait without a timeout; waits for the mutex are served in *)
(* turn.                                                                   *)
(***************************************************************************)
NtFair ==
  \A t \in NtSet : /\ WF_ntVars(NtGivesUp(t)) /\ WF_ntVars(NtWoken(t))
                   /\ WF_ntVars(ntMode[t] # "idle" /\ NtReadyOrTimeout(t))
                   /\ SF_ntVars(NtRun(t)) /\ SF_ntVars(NtLetGo(t))

-----------------------------------------------------------------------------

NtTypeOK ==
  /\ NtLockTypeOK
  /\ ntAt \in [NtSet -> NtPlaces]
  /\ {pCurThread, ntUser} \subseteq NtSet \cup {NtNone}
  /\ threadEvent \in [NtSet -> BOOLEAN] /\ shutdownEvent \in BOOLEAN

(***************************************************************************)
(* The lock's counts and events agree with the threads, its assertions     *)
(* never fire, and every step is one the contract of include/empthread.h   *)
(* allows, whatever else the threads do.                                   *)
(***************************************************************************)
NtLockInOrder == NtContract /\ [](NtTypeOK /\ NtEventsAgree /\ NtExclusion /\ ~ntOops)

\* "Awaken thread if it is sleeping in empth_select() or empth_sleep()".
NtSleeperWakes ==
  \A t \in NtSet : ntAt[t] \in {"select", "sleep"} /\ threadEvent[t] ~> ntAt[t] = "runs"

\* A thread that asked to write gets to write.
NtWriterGetsLock ==
  \A t \in NtWriters : ntMode[t] = "wrwait" ~> ntMode[t] = "wr"

NtThreadsReturn == NtSleeperWakes /\ NtWriterGetsLock
=============================================================================

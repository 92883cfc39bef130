------------------------------ MODULE LwpRWLock ------------------------------
(***************************************************************************)
(* The read-write lock of the LWP package, lib/lwp/rwlock.c: a counter and *)
(* two queues of sleepers, over the run queue of lwp.c.                    *)
(*                                                                         *)
(* An action is what the running thread does up to its next switch, or to  *)
(* its next call.  All threads that use locks have the same priority, so   *)
(* the run queue is one FIFO and lwp_rwlock_unlock() never yields; LwpSched*)
(* models how threads that sleep elsewhere become ready again, here they   *)
(* do so at any time.                                                      *)
(***************************************************************************)
EXTENDS Integers, SequencesExt, FiniteSets

CONSTANTS LwpThreads,          \* the threads that use the lock
          LwpWriters,          \* those that ever lock it for writing
          None              \* no thread: the select thread has the processor

ASSUME LwpRWLockAssumption ==
  IsFiniteSet(LwpThreads) /\ LwpWriters \subseteq LwpThreads /\ None \notin LwpThreads

VARIABLES
  count,        \* 0: unlocked, -1: locked for writing, > 0: that many readers
  rq, wq,       \* read and write lock sleepers
  lwpPc,           \* what the lock is to each thread
  cur,          \* LwpCurrent
  runq,         \* LwpSchedQ[] of the threads' priority
  away,         \* threads asleep in empth_select() or empth_sleep()
  lwpOops          \* a CANT_HAPPEN() fired

lwpVars == <<count, rq, wq, lwpPc, cur, runq, away, lwpOops>>

(***************************************************************************)
(* rdwait and wrwait last from the call until lwpReschedule() returns, so  *)
(* they include threads already taken out of rq and wq and made ready.     *)
(* done lasts from unlock() to the next switch: all users of the server's  *)
(* locks yield, sleep or exit before they lock again (player_main(),       *)
(* c_execute(), update_sched()).                                           *)
(***************************************************************************)
LwpPCs == {"idle", "rdwait", "wrwait", "rd", "wr", "done"}

LwpInit ==
  /\ count = 0 /\ rq = <<>> /\ wq = <<>>
  /\ lwpPc = [t \in LwpThreads |-> "idle"]
  /\ cur = None /\ runq = <<>> /\ away = LwpThreads
  /\ lwpOops = FALSE

\* lwpReschedule() with q for run queue.
Reschedule(q) ==
  /\ cur' = IF q = <<>> THEN None ELSE Head(q)
  /\ runq' = IF q = <<>> THEN q ELSE Tail(q)

Running(t) == cur = t /\ lwpPc[t] \notin {"rdwait", "wrwait"}

LwpWrLock(t) ==
  /\ Running(t) /\ lwpPc[t] = "idle" /\ t \in LwpWriters
  /\ IF count # 0
     THEN /\ wq' = Append(wq, t)
          /\ lwpPc' = [lwpPc EXCEPT ![t] = "wrwait"]
          /\ Reschedule(runq)
          /\ UNCHANGED count
     ELSE /\ count' = -1
          /\ lwpPc' = [lwpPc EXCEPT ![t] = "wr"]
          /\ UNCHANGED <<wq, cur, runq>>
  /\ UNCHANGED <<rq, away, lwpOops>>

\* Mutant: a reader that looks for waiting writers only.
ReaderMustWaitForWaiters == wq # <<>>

LwpReaderMustWait == count < 0 \/ wq # <<>>

LwpRdLock(t) ==
  /\ Running(t) /\ lwpPc[t] = "idle"
  /\ IF LwpReaderMustWait
     THEN /\ rq' = Append(rq, t)
          /\ lwpPc' = [lwpPc EXCEPT ![t] = "rdwait"]
          /\ Reschedule(runq)
          /\ UNCHANGED count
     ELSE /\ count' = count + 1
          /\ lwpPc' = [lwpPc EXCEPT ![t] = "rd"]
          /\ UNCHANGED <<rq, cur, runq>>
  /\ UNCHANGED <<wq, away, lwpOops>>

\* The rest of wrlock() and rdlock() after lwpReschedule(), which test nothing.
Resume(t) ==
  /\ cur = t
  /\ \/ /\ lwpPc[t] = "wrwait"
        /\ lwpOops' = IF count # 0 THEN TRUE ELSE lwpOops
        /\ count' = -1
        /\ lwpPc' = [lwpPc EXCEPT ![t] = "wr"]
     \/ /\ lwpPc[t] = "rdwait"
        /\ lwpOops' = IF count < 0 THEN TRUE ELSE lwpOops
        /\ count' = count + 1
        /\ lwpPc' = [lwpPc EXCEPT ![t] = "rd"]
  /\ UNCHANGED <<rq, wq, cur, runq, away>>

CountAfterUnlock == IF count < 0 THEN 0 ELSE count - 1

(***************************************************************************)
(* Whom an unlock() that leaves the counter at c makes ready: the next     *)
(* writer, or else all the readers.                                        *)
(***************************************************************************)
\* Mutant: the readers are left to the next unlock().
ReadiedWithoutReaders(c) == IF c = 0 /\ wq # <<>> THEN <<Head(wq)>> ELSE <<>>

Readied(c) == CASE c = 0 /\ wq # <<>> -> <<Head(wq)>>
                [] wq = <<>> -> rq
                [] OTHER -> <<>>

LwpUnlock(t) ==
  /\ Running(t) /\ lwpPc[t] \in {"rd", "wr"}
  /\ lwpPc' = [lwpPc EXCEPT ![t] = "done"]
  /\ IF count = 0
     THEN /\ lwpOops' = TRUE
          /\ UNCHANGED <<count, rq, wq, runq>>
     ELSE LET c == CountAfterUnlock
              p == Readied(c)
          IN  /\ count' = c
              /\ runq' = runq \o p
              /\ wq' = IF p # <<>> /\ wq # <<>> THEN Tail(wq) ELSE wq
              /\ rq' = IF p # <<>> /\ wq = <<>> THEN <<>> ELSE rq
              /\ UNCHANGED lwpOops
  /\ UNCHANGED <<cur, away>>

\* empth_yield(), and going to sleep on anything but a lock.
Switch(t, q) ==
  /\ Running(t)
  /\ Reschedule(q)
  /\ lwpPc' = [lwpPc EXCEPT ![t] = IF @ = "done" THEN "idle" ELSE @]
  /\ UNCHANGED <<count, rq, wq, lwpOops>>

Yield(t) == Switch(t, Append(runq, t)) /\ UNCHANGED away
Sleep(t) == Switch(t, runq) /\ away' = away \cup {t}

\* Such a sleeper becomes ready; the select thread, if it runs, gives way.
Awaken(t) ==
  /\ t \in away
  /\ away' = away \ {t}
  /\ runq' = Append(runq, t)
  /\ UNCHANGED <<count, rq, wq, lwpPc, cur, lwpOops>>

SelectGivesWay ==
  /\ cur = None /\ runq # <<>>
  /\ Reschedule(runq)
  /\ UNCHANGED <<count, rq, wq, lwpPc, away, lwpOops>>

LwpNext ==
  \/ \E t \in LwpThreads : \/ LwpWrLock(t) \/ LwpRdLock(t) \/ Resume(t) \/ LwpUnlock(t)
                           \/ Yield(t) \/ Sleep(t) \/ Awaken(t)
  \/ SelectGivesWay

LwpSpec == LwpInit /\ [][LwpNext]_lwpVars

-----------------------------------------------------------------------------

LwpTypeOK ==
  /\ count \in -1 .. Cardinality(LwpThreads)
  /\ {rq, wq, runq} \subseteq Seq(LwpThreads)
  /\ lwpPc \in [LwpThreads -> LwpPCs]
  /\ cur \in LwpThreads \cup {None}
  /\ away \subseteq LwpThreads

LwpHolding(m) == {t \in LwpThreads : lwpPc[t] = m}

(***************************************************************************)
(* "Update holds it exclusive, commands hold it shared" (server/main.c):   *)
(* a writer excludes every other holder.                                   *)
(***************************************************************************)
LwpExclusion ==
  \A t, u \in LwpThreads : lwpPc[t] = "wr" /\ lwpPc[u] \in {"rd", "wr"} => t = u

(***************************************************************************)
(* The lock's assertions, CANT_HAPPEN(rwlock->count != 0) and the like, do *)
(* not let a writer share the lock in silence.                             *)
(***************************************************************************)
AssertionsCatchSharing == lwpOops \/ LwpExclusion

(***************************************************************************)
(* "Wake up threads that can now lock it" (empthread.h): unless an         *)
(* assertion fired, threads sleep on the lock only while some thread holds *)
(* it or is on the way to it, and will unlock it.                          *)
(***************************************************************************)
OnTheWay == {t \in LwpHolding("rdwait") \cup LwpHolding("wrwait") :
               t \notin ToSet(rq) \cup ToSet(wq)}

NobodyForgotten ==
  rq # <<>> \/ wq # <<>> => lwpOops \/ LwpHolding("rd") \cup LwpHolding("wr") \cup OnTheWay # {}

=============================================================================

----------------------------- MODULE PosixRWLock -----------------------------
(***************************************************************************)
(* The read-write lock of the POSIX thread package, lib/empthread/         *)
(* pthread.c: a count of readers, a count of writers "active and waiting"  *)
(* and two condition variables.                                            *)
(*                                                                         *)
(* Server code runs only while holding mtx_ctxsw, so an action is what one *)
(* thread does from the moment it has that mutex until it gives it up: a   *)
(* call of a lock function, or the resumption of pthread_cond_wait().  A   *)
(* signal moves a thread from a condition variable to the mutex's queue    *)
(* ("woken"), from where it comes back in any order with other threads'    *)
(* calls; pthread_cond_wait() may also return for no reason.               *)
(***************************************************************************)
EXTENDS Naturals, FiniteSets

CONSTANTS Threads,          \* the threads that use the lock
          Writers           \* those that ever lock it for writing

ASSUME ThreadsAssumption == IsFiniteSet(Threads)
ASSUME WritersAssumption == Writers \subseteq Threads

VARIABLES nread,            \* #active readers
          nwrite,           \* total #writers (active and waiting)
          pc                \* where each thread is in the lock's functions

vars == <<nread, nwrite, pc>>

(***************************************************************************)
(* idle: not using the lock; rdwait, wrwait: blocked on can_read and       *)
(* can_write; rdwoken, wrwoken: released from there, about to re-test the  *)
(* loop's condition; rd, wr: holding the lock.                             *)
(***************************************************************************)
PCs == {"idle", "rdwait", "rdwoken", "rd", "wrwait", "wrwoken", "wr"}

At(S) == {t \in Threads : pc[t] \in S}

Init ==
  /\ nread = 0
  /\ nwrite = 0
  /\ pc = [t \in Threads |-> "idle"]

\* The loop conditions of empth_rwlock_wrlock() and empth_rwlock_rdlock().
\* Mutant: a reader that ignores waiting writers.
ReaderMustWaitForHolder(nw) == At({"wr"}) # {}

WriterMustWait(nr, nw) == nr # 0 \/ nw # 1
ReaderMustWait(nw) == nw # 0

WrLock(t) ==
  /\ t \in Writers
  /\ pc[t] = "idle"
  /\ nwrite' = nwrite + 1
  /\ pc' = [pc EXCEPT ![t] = IF WriterMustWait(nread, nwrite') THEN "wrwait" ELSE "wr"]
  /\ UNCHANGED nread

ResumeWr(t) ==
  /\ pc[t] = "wrwoken"
  /\ pc' = [pc EXCEPT ![t] = IF WriterMustWait(nread, nwrite) THEN "wrwait" ELSE "wr"]
  /\ UNCHANGED <<nread, nwrite>>

GoRead(t) ==
  IF ReaderMustWait(nwrite)
  THEN pc' = [pc EXCEPT ![t] = "rdwait"] /\ UNCHANGED nread
  ELSE pc' = [pc EXCEPT ![t] = "rd"] /\ nread' = nread + 1

RdLock(t) == pc[t] = "idle" /\ GoRead(t) /\ UNCHANGED nwrite

ResumeRd(t) == pc[t] = "rdwoken" /\ GoRead(t) /\ UNCHANGED nwrite

(***************************************************************************)
(* pthread_cond_signal(&can_write) releases one thread blocked there, if   *)
(* any; pthread_cond_broadcast(&can_read) releases all of them.            *)
(***************************************************************************)
\* Mutant: only readers broadcast.
BroadcastByReader(nw) == nw = 0 /\ nread # 0

Signalled(signal) ==
  IF signal /\ At({"wrwait"}) # {}
  THEN {{w} : w \in At({"wrwait"})}
  ELSE {{}}

Broadcast(nw) == nw = 0

(***************************************************************************)
(* empth_rwlock_unlock() does not know how its caller holds the lock: with *)
(* readers about, it takes the caller for one.                             *)
(***************************************************************************)
Release(t, asReader) ==
  /\ IF asReader
     THEN nread' = nread - 1 /\ UNCHANGED nwrite
     ELSE nwrite' = nwrite - 1 /\ UNCHANGED nread
  /\ \E woken \in Signalled(nread' = 0) :
       pc' = [u \in Threads |->
                IF u = t THEN "idle"
                ELSE IF u \in woken THEN "wrwoken"
                ELSE IF pc[u] = "rdwait" /\ Broadcast(nwrite') THEN "rdwoken"
                ELSE pc[u]]

Unlock(t) == pc[t] \in {"rd", "wr"} /\ Release(t, nread # 0)

\* "Spurious wakeups from the pthread_cond_wait() function may occur."
Spurious(t) ==
  /\ \/ pc[t] = "wrwait" /\ pc' = [pc EXCEPT ![t] = "wrwoken"]
     \/ pc[t] = "rdwait" /\ pc' = [pc EXCEPT ![t] = "rdwoken"]
  /\ UNCHANGED <<nread, nwrite>>

Next == \E t \in Threads : \/ WrLock(t) \/ ResumeWr(t) \/ RdLock(t) \/ ResumeRd(t)
                           \/ Unlock(t) \/ Spurious(t)

Spec == Init /\ [][Next]_vars

(***************************************************************************)
(* A runnable thread gets the mutex in the end, and a holder lets go of    *)
(* the lock in the end.  Nothing is assumed of spurious wakeups.           *)
(***************************************************************************)
FairSpec ==
  /\ Spec
  /\ \A t \in Threads : WF_vars(ResumeWr(t)) /\ WF_vars(ResumeRd(t)) /\ WF_vars(Unlock(t))

-----------------------------------------------------------------------------

TypeOK ==
  /\ nread \in Nat
  /\ nwrite \in Nat
  /\ pc \in [Threads -> PCs]

\* The counters are what their comments say: active readers, writers of any kind.
CountsAreRight ==
  /\ nread = Cardinality(At({"rd"}))
  /\ nwrite = Cardinality(At({"wrwait", "wrwoken", "wr"}))

\* A writer excludes every other holder.
Exclusion ==
  \A t, u \in Threads : pc[t] = "wr" /\ pc[u] \in {"rd", "wr"} => t = u

\* No broadcast is lost: a reader sleeps on can_read only while some writer is about.
ReadersNotForgotten == At({"rdwait"}) # {} => nwrite # 0

(***************************************************************************)
(* No signal is lost: "Wake up threads that can now lock it"               *)
(* (include/empthread.h).  A writer sleeps on can_write only while the     *)
(* lock is held or a released thread is on its way to re-test.             *)
(***************************************************************************)
WritersNotForgotten ==
  At({"wrwait"}) # {} => At({"rd", "wr", "wrwoken"}) # {}

\* The lock's counters agree with the threads, a writer is alone, and no reader
\* is forgotten, whatever order calls, signals and wakeups come in.
PosixLockInOrder == CountsAreRight /\ Exclusion /\ ReadersNotForgotten

Mode(p) == CASE p = "wrwoken" -> "wrwait"
             [] p = "rdwoken" -> "rdwait"
             [] OTHER -> p

ERW == INSTANCE EmpRWLock WITH mode <- [t \in Threads |-> Mode(pc[t])]

\* Every step is one the contract of include/empthread.h allows.
Contract == ERW!Spec

\* A thread that asked to write gets to write.
WriterGetsLock == ERW!WriterGetsLock

=============================================================================

------------------------------ MODULE EmpRWLock ------------------------------
(***************************************************************************)
(* The contract of Empire's read-write lock, include/empthread.h: what     *)
(* empth_rwlock_wrlock(), empth_rwlock_rdlock() and empth_rwlock_unlock()  *)
(* promise to the threads that call them, whichever of the thread packages *)
(* (LWP, POSIX threads, Windows) implements it.  The packages' own modules *)
(* (PosixRWLock, LwpRWLock) are compared with this one.                    *)
(***************************************************************************)
EXTENDS Naturals

CONSTANT Threads            \* the threads that use the lock

VARIABLE mode               \* what the lock is to each thread

vars == <<mode>>

Modes == {"idle", "rdwait", "wrwait", "rd", "wr"}

Holding(m)   == {t \in Threads : mode[t] = m}
Unlocked     == Holding("rd") = {} /\ Holding("wr") = {}

(***************************************************************************)
(* "A read-write lock can be locked for writing only when it is unlocked"; *)
(* "for reading only when it is not locked for writing, and no other       *)
(* thread is attempting to lock it for writing".                           *)
(***************************************************************************)
MayWrite == Unlocked

MayRead == Holding("wr") = {} /\ Holding("wrwait") = {}

Init == mode = [t \in Threads |-> "idle"]

(***************************************************************************)
(* empth_rwlock_wrlock() and empth_rwlock_rdlock(): take the lock if that  *)
(* is allowed, or go to sleep.  Sleeping is always allowed here: a package *)
(* may queue the caller behind a thread it has woken and not yet resumed.  *)
(***************************************************************************)
WrLock(t) ==
  /\ mode[t] = "idle"
  /\ \/ MayWrite /\ mode' = [mode EXCEPT ![t] = "wr"]
     \/ mode' = [mode EXCEPT ![t] = "wrwait"]

RdLock(t) ==
  /\ mode[t] = "idle"
  /\ \/ MayRead /\ mode' = [mode EXCEPT ![t] = "rd"]
     \/ mode' = [mode EXCEPT ![t] = "rdwait"]

\* A sleeping writer wakes up holding the lock.
GetWr(t) ==
  /\ mode[t] = "wrwait"
  /\ MayWrite
  /\ mode' = [mode EXCEPT ![t] = "wr"]

GetRd(t) ==
  /\ mode[t] = "rdwait"
  /\ MayRead
  /\ mode' = [mode EXCEPT ![t] = "rd"]

\* empth_rwlock_unlock(): "the current thread must hold @rwlock".
Unlock(t) ==
  /\ mode[t] \in {"rd", "wr"}
  /\ mode' = [mode EXCEPT ![t] = "idle"]

Next == \E t \in Threads : WrLock(t) \/ RdLock(t) \/ GetWr(t) \/ GetRd(t) \/ Unlock(t)

Spec == Init /\ [][Next]_vars

-----------------------------------------------------------------------------

TypeOK == mode \in [Threads -> Modes]

\* A writer excludes every other holder.
Exclusion ==
  \A t, u \in Threads : mode[t] = "wr" /\ mode[u] \in {"rd", "wr"} => t = u

\* Writers are preferred: while one waits, no thread gets the lock for reading.
WriterPreference ==
  [][\A t \in Threads : mode[t] # "rd" /\ mode'[t] = "rd" => Holding("wrwait") = {}]_vars

\* A thread that asked to write gets to write, in spite of any readers.
WriterGetsLock == \A t \in Threads : mode[t] = "wrwait" ~> mode[t] = "wr"

=============================================================================

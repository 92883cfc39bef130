----------------------------- MODULE EmpThreads -----------------------------
(***************************************************************************)
(* The POSIX and the Windows thread package side by side, for TLC; the     *)
(* third is LwpSched's and LwpRWLock's.  A server is built with one of     *)
(* them; the initial state decides what plays.                             *)
(***************************************************************************)
EXTENDS PosixRWLock, PosixThreads, NtThreads

VARIABLE package

threadsVars == <<package, vars, posixVars, ntVars>>

\* nobody is there, and no time left
PosixRests ==
  /\ at = [t \in PosixSet |-> "absent"] /\ call = [t \in PosixSet |-> "none"]
  /\ wakeup = [t \in PosixSet |-> FALSE] /\ until = [t \in PosixSet |-> Never]
  /\ result = [t \in PosixSet |-> "none"] /\ udata = PosixMain
  /\ clock = MaxClock /\ woken = {} /\ broken = 0 /\ wakeups = 0

NtRests ==
  /\ NtLockInit
  /\ ntAt = [t \in NtSet |-> "absent"] /\ pCurThread = NtNone /\ ntUser = NtNone
  /\ threadEvent = [t \in NtSet |-> FALSE] /\ shutdownEvent = TRUE /\ ntWakeups = 0

ThreadsInit ==
  /\ package \in {"posix lock", "posix", "nt"}
  /\ Init
  /\ IF package = "posix" THEN PosixInit ELSE PosixRests
  /\ IF package = "nt" THEN NtInit ELSE NtRests

ThreadsNext ==
  /\ UNCHANGED package
  /\ \/ package = "posix lock" /\ Next /\ UNCHANGED <<posixVars, ntVars>>
     \/ package = "posix" /\ PosixNext /\ UNCHANGED <<vars, ntVars>>
     \/ package = "nt" /\ NtNext /\ UNCHANGED <<vars, posixVars>>

(***************************************************************************)
(* The packages' own fairness; what rests takes no step and is owed none.  *)
(* A thread of the POSIX lock that may go on does, and its holder lets go  *)
(* in the end.                                                             *)
(***************************************************************************)
ThreadsSpec ==
  /\ ThreadsInit /\ [][ThreadsNext]_threadsVars
  /\ \A t \in Threads : WF_vars(ResumeWr(t)) /\ WF_vars(ResumeRd(t)) /\ WF_vars(Unlock(t))
  /\ PosixFair /\ NtFair
=============================================================================

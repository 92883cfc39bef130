-------------------------- MODULE EmpThreadsProofs --------------------------
(***************************************************************************)
(* The locks of the preemptive thread packages, for any finite set of      *)
(* threads, any of which may write.  That of lib/empthread/pthread.c       *)
(* excludes as it should, forgets no reader, and takes only steps the      *)
(* contract of include/empthread.h allows; that it forgets no writer holds *)
(* for one writer only.  That of lib/empthread/ntthread.c is in order      *)
(* whatever else the threads do: sleep, select, wake each other, come and  *)
(* go.                                                                     *)
(***************************************************************************)
EXTENDS EmpThreads, FiniteSetTheorems, TLAPS

-----------------------------------------------------------------------------
(* The lock of the POSIX thread package. *)

W == At({"wrwait", "wrwoken", "wr"})
R == At({"rd"})

IInv == TypeOK /\ CountsAreRight /\ Exclusion /\ ReadersNotForgotten

\* The sets the counters count are finite, so a count of zero means an empty set.
LEMMA CountedSets ==
  ASSUME CountsAreRight
  PROVE  /\ IsFiniteSet(W) /\ IsFiniteSet(R)
         /\ nwrite = 0 <=> W = {}
         /\ nread = 0 <=> R = {}
         /\ nwrite = Cardinality(W) /\ nread = Cardinality(R)
<1>1. W \subseteq Threads /\ R \subseteq Threads
  BY DEF W, R, At
<1>2. IsFiniteSet(W) /\ IsFiniteSet(R)
  BY <1>1, ThreadsAssumption, FS_Subset
<1>3. nwrite = Cardinality(W) /\ nread = Cardinality(R)
  BY DEF CountsAreRight, W, R
<1> QED
  BY <1>2, <1>3, FS_EmptySet

\* A thread that is the one writer of a count of one is all of W.
LEMMA LoneWriter ==
  ASSUME CountsAreRight, nwrite = 1, NEW t \in W
  PROVE  W = {t}
<1>1. IsFiniteSet(W) /\ Cardinality(W) = 1
  BY CountedSets
<1>2. PICK x : W = {x}
  BY <1>1, FS_Singleton
<1> QED
  BY <1>2

-----------------------------------------------------------------------------

\* A call of wrlock() adds its caller to the writers counted.
LEMMA WrLockKeepsIInv ==
  ASSUME IInv, NEW t \in Threads, WrLock(t)
  PROVE  IInv'
<1> USE DEF IInv, PCs
<1>1. TypeOK'
  BY DEF TypeOK, WrLock
<1>2. W' = W \cup {t} /\ t \notin W /\ R' = R
  BY <1>1 DEF TypeOK, WrLock, W, R, At
<1>3. CountsAreRight'
  <2>1. Cardinality(W') = Cardinality(W) + 1
    BY <1>2, CountedSets, FS_AddElement
  <2> QED
    BY <2>1, <1>2, CountedSets DEF CountsAreRight, W, R, WrLock
<1>4. Exclusion'
  <2>1. CASE WriterMustWait(nread, nwrite')
    BY <2>1 DEF WrLock, Exclusion, TypeOK
  <2>2. CASE ~WriterMustWait(nread, nwrite')
    <3>1. nread = 0 /\ nwrite = 0
      BY <2>2 DEF WriterMustWait, WrLock, TypeOK
    <3>2. W = {} /\ R = {}
      BY <3>1, CountedSets
    <3> QED
      BY <2>2, <3>2 DEF WrLock, Exclusion, TypeOK, W, R, At
  <2> QED
    BY <2>1, <2>2
<1>5. ReadersNotForgotten'
  BY DEF WrLock, ReadersNotForgotten, TypeOK
<1> QED
  BY <1>1, <1>3, <1>4, <1>5

\* A writer that re-tests its condition takes the lock only from nobody.
LEMMA ResumeWrKeepsIInv ==
  ASSUME IInv, NEW t \in Threads, ResumeWr(t)
  PROVE  IInv'
<1> USE DEF IInv, PCs
<1>1. TypeOK'
  BY DEF TypeOK, ResumeWr
<1>2. W' = W /\ R' = R
  BY <1>1 DEF TypeOK, ResumeWr, W, R, At
<1>3. CountsAreRight'
  BY <1>2 DEF CountsAreRight, ResumeWr, W, R
<1>4. Exclusion'
  <2>1. CASE WriterMustWait(nread, nwrite)
    BY <2>1 DEF ResumeWr, Exclusion, TypeOK
  <2>2. CASE ~WriterMustWait(nread, nwrite)
    <3>1. nread = 0 /\ nwrite = 1
      BY <2>2 DEF WriterMustWait
    <3>2. t \in W
      BY DEF ResumeWr, W, At
    <3>3. W = {t} /\ R = {}
      BY <3>1, <3>2, CountedSets, LoneWriter
    <3> QED
      BY <2>2, <3>3 DEF ResumeWr, Exclusion, TypeOK, W, R, At
  <2> QED
    BY <2>1, <2>2
<1>5. ReadersNotForgotten'
  BY DEF ResumeWr, ReadersNotForgotten, TypeOK, At
<1> QED
  BY <1>1, <1>3, <1>4, <1>5

\* A reader that tests its condition goes to sleep on a writer or is counted.
LEMMA GoReadKeepsIInv ==
  ASSUME IInv, NEW t \in Threads, pc[t] \in {"idle", "rdwoken"}, GoRead(t), UNCHANGED nwrite
  PROVE  IInv'
<1> USE DEF IInv, PCs
<1>1. CASE ReaderMustWait(nwrite)
  <2>1. TypeOK'
    BY <1>1 DEF TypeOK, GoRead
  <2>2. W' = W /\ R' = R
    BY <1>1 DEF TypeOK, GoRead, W, R, At
  <2>3. CountsAreRight'
    BY <1>1, <2>2 DEF CountsAreRight, GoRead, W, R
  <2>4. Exclusion' /\ ReadersNotForgotten'
    BY <1>1 DEF GoRead, ReaderMustWait, Exclusion, ReadersNotForgotten, TypeOK
  <2> QED
    BY <2>1, <2>3, <2>4
<1>2. CASE ~ReaderMustWait(nwrite)
  <2>1. TypeOK'
    BY <1>2 DEF TypeOK, GoRead
  <2>2. W' = W /\ R' = R \cup {t} /\ t \notin R
    BY <1>2 DEF TypeOK, GoRead, W, R, At
  <2>3. CountsAreRight'
    <3>1. Cardinality(R') = Cardinality(R) + 1
      BY <2>2, CountedSets, FS_AddElement
    <3> QED
      BY <1>2, <2>2, <3>1, CountedSets DEF CountsAreRight, W, R, GoRead
  <2>4. W = {}
    BY <1>2, CountedSets DEF ReaderMustWait
  <2>5. Exclusion' /\ ReadersNotForgotten'
    BY <1>2, <2>4 DEF GoRead, Exclusion, ReadersNotForgotten, TypeOK, W, At
  <2> QED
    BY <2>1, <2>3, <2>5
<1> QED
  BY <1>1, <1>2

(***************************************************************************)
(* What an unlock() does to the two sets: although the code only looks at  *)
(* nread to tell which way the caller holds the lock, it always takes the  *)
(* caller out of the right one.                                            *)
(***************************************************************************)
LEMMA UnlockRemovesHolder ==
  ASSUME IInv, NEW t \in Threads, Unlock(t)
  PROVE  \/ /\ t \in R /\ R' = R \ {t} /\ W' = W
            /\ nread # 0 /\ nread' = nread - 1 /\ nwrite' = nwrite
         \/ /\ t \in W /\ W' = W \ {t} /\ R' = R
            /\ nwrite # 0 /\ nwrite' = nwrite - 1 /\ nread' = nread
<1> USE DEF IInv
<1>1. PICK released \in Signalled(nread' = 0) :
        pc' = [u \in Threads |->
                IF u = t THEN "idle"
                ELSE IF u \in released THEN "wrwoken"
                ELSE IF pc[u] = "rdwait" /\ Broadcast(nwrite') THEN "rdwoken"
                ELSE pc[u]]
  BY DEF Unlock, Release
<1>2. \A u \in released : pc[u] = "wrwait"
  BY <1>1 DEF Signalled, At
<1>3. CASE pc[t] = "rd"
  <2>1. t \in R
    BY <1>3 DEF R, At
  <2>2. nread # 0
    BY <2>1, CountedSets
  <2>3. nread' = nread - 1 /\ nwrite' = nwrite
    BY <2>2 DEF Unlock, Release
  <2>4. R' = R \ {t} /\ W' = W
    BY <1>1, <1>2, <1>3 DEF R, W, At, TypeOK
  <2> QED
    BY <2>1, <2>2, <2>3, <2>4
<1>4. CASE pc[t] = "wr"
  <2>1. R = {}
    BY <1>4 DEF Exclusion, R, At
  <2>2. nread = 0
    BY <2>1, CountedSets
  <2>3. t \in W
    BY <1>4 DEF W, At
  <2>4. nwrite # 0
    BY <2>3, CountedSets
  <2>5. nwrite' = nwrite - 1 /\ nread' = nread
    BY <2>2 DEF Unlock, Release
  <2>6. W' = W \ {t} /\ R' = R
    BY <1>1, <1>2, <1>4 DEF R, W, At, TypeOK
  <2> QED
    BY <2>3, <2>4, <2>5, <2>6
<1> QED
  BY <1>3, <1>4 DEF Unlock, Release

\* An unlock() uncounts its caller, and the last writer's wakes every reader.
LEMMA UnlockKeepsIInv ==
  ASSUME IInv, NEW t \in Threads, Unlock(t)
  PROVE  IInv'
<1> USE DEF IInv, PCs
<1>1. PICK released \in Signalled(nread' = 0) :
        pc' = [u \in Threads |->
                IF u = t THEN "idle"
                ELSE IF u \in released THEN "wrwoken"
                ELSE IF pc[u] = "rdwait" /\ Broadcast(nwrite') THEN "rdwoken"
                ELSE pc[u]]
  BY DEF Unlock, Release
<1>2. TypeOK'
  <2>1. nread' \in Nat /\ nwrite' \in Nat
    BY UnlockRemovesHolder DEF TypeOK
  <2> QED
    BY <1>1, <2>1 DEF TypeOK
<1>3. CountsAreRight'
  <2>1. CASE t \in R /\ R' = R \ {t} /\ W' = W /\ nread' = nread - 1 /\ nwrite' = nwrite
    <3>1. Cardinality(R') = Cardinality(R) - 1
      BY <2>1, CountedSets, FS_RemoveElement
    <3> QED
      BY <2>1, <3>1, CountedSets DEF CountsAreRight, W, R
  <2>2. CASE t \in W /\ W' = W \ {t} /\ R' = R /\ nwrite' = nwrite - 1 /\ nread' = nread
    <3>1. Cardinality(W') = Cardinality(W) - 1
      BY <2>2, CountedSets, FS_RemoveElement
    <3> QED
      BY <2>2, <3>1, CountedSets DEF CountsAreRight, W, R
  <2> QED
    BY <2>1, <2>2, UnlockRemovesHolder
<1>4. Exclusion'
  BY <1>1 DEF Exclusion, TypeOK
<1>5. ReadersNotForgotten'
  <2>1. CASE nwrite' = 0
    BY <1>1, <2>1 DEF ReadersNotForgotten, At, TypeOK, Broadcast
  <2> QED
    BY <2>1 DEF ReadersNotForgotten
<1> QED
  BY <1>2, <1>3, <1>4, <1>5

\* A spurious wakeup changes no count.
LEMMA SpuriousKeepsIInv ==
  ASSUME IInv, NEW t \in Threads, Spurious(t)
  PROVE  IInv'
<1> USE DEF IInv, PCs
<1>1. TypeOK'
  BY DEF TypeOK, Spurious
<1>2. W' = W /\ R' = R
  BY DEF TypeOK, Spurious, W, R, At
<1>3. CountsAreRight'
  BY <1>2 DEF CountsAreRight, Spurious, W, R
<1>4. Exclusion' /\ ReadersNotForgotten'
  BY DEF Exclusion, ReadersNotForgotten, At, Spurious, TypeOK
<1> QED
  BY <1>1, <1>3, <1>4

\* The inductive invariant holds in every reachable state.
THEOREM Inductive == Spec => []IInv
<1>1. Init => IInv
  <2> SUFFICES ASSUME Init PROVE IInv
    OBVIOUS
  <2>1. TypeOK /\ Exclusion /\ ReadersNotForgotten
    BY DEF Init, TypeOK, PCs, Exclusion, ReadersNotForgotten, At
  <2>2. W = {} /\ R = {}
    BY DEF Init, W, R, At
  <2>3. CountsAreRight
    BY <2>2, FS_EmptySet DEF CountsAreRight, W, R, Init
  <2> QED
    BY <2>1, <2>3 DEF IInv
<1>2. IInv /\ [Next]_vars => IInv'
  <2> SUFFICES ASSUME IInv, [Next]_vars PROVE IInv'
    OBVIOUS
  <2>1. CASE UNCHANGED vars
    BY <2>1 DEF vars, IInv, TypeOK, CountsAreRight, Exclusion, ReadersNotForgotten, At
  <2>2. ASSUME NEW t \in Threads, WrLock(t) PROVE IInv'
    BY <2>2, WrLockKeepsIInv
  <2>3. ASSUME NEW t \in Threads, ResumeWr(t) PROVE IInv'
    BY <2>3, ResumeWrKeepsIInv
  <2>4. ASSUME NEW t \in Threads, RdLock(t) \/ ResumeRd(t) PROVE IInv'
    BY <2>4, GoReadKeepsIInv DEF RdLock, ResumeRd
  <2>5. ASSUME NEW t \in Threads, Unlock(t) PROVE IInv'
    BY <2>5, UnlockKeepsIInv
  <2>6. ASSUME NEW t \in Threads, Spurious(t) PROVE IInv'
    BY <2>6, SpuriousKeepsIInv
  <2> QED
    BY <2>1, <2>2, <2>3, <2>4, <2>5, <2>6 DEF Next
<1> QED
  BY <1>1, <1>2, PTL DEF Spec

\* For any finite set of threads, any number of them writers: the counters
\* agree with the threads they count, a thread that holds the lock for writing
\* is its only holder, and no reader sleeps on can_read without a writer who
\* will broadcast.
THEOREM LockInOrder == Spec => []PosixLockInOrder
BY Inductive, PTL DEF IInv, PosixLockInOrder

-----------------------------------------------------------------------------

\* Every step of the lock is a step of the contract, or invisible to it.
LEMMA StepRefines == IInv /\ [Next]_vars => [ERW!Next]_ERW!vars
<1> DEFINE m == [t \in Threads |-> Mode(pc[t])]
<1> SUFFICES ASSUME IInv, [Next]_vars PROVE ERW!Next \/ m' = m
  BY DEF ERW!vars
<1> USE DEF IInv, PCs
<1>1. CASE UNCHANGED vars
  BY <1>1 DEF vars
<1>2. ASSUME NEW t \in Threads, WrLock(t) PROVE ERW!WrLock(t)
  <2>1. m[t] = "idle"
    BY <1>2 DEF WrLock, Mode
  <2>2. CASE WriterMustWait(nread, nwrite')
    <3>1. m' = [m EXCEPT ![t] = "wrwait"]
      BY <1>2, <2>2 DEF WrLock, Mode, TypeOK
    <3> QED
      BY <2>1, <3>1 DEF ERW!WrLock
  <2>3. CASE ~WriterMustWait(nread, nwrite')
    <3>1. nread = 0 /\ nwrite = 0
      BY <1>2, <2>3 DEF WriterMustWait, WrLock, TypeOK
    <3>2. W = {} /\ R = {}
      BY <3>1, CountedSets
    <3>3. \A u \in Threads : m[u] \notin {"rd", "wr"}
      BY <3>2 DEF W, R, At, Mode, TypeOK
    <3>4. m' = [m EXCEPT ![t] = "wr"]
      BY <1>2, <2>3 DEF WrLock, Mode, TypeOK
    <3> QED
      BY <2>1, <3>3, <3>4 DEF ERW!WrLock, ERW!MayWrite, ERW!Unlocked, ERW!Holding
  <2> QED
    BY <2>2, <2>3
<1>3. ASSUME NEW t \in Threads, ResumeWr(t) PROVE ERW!GetWr(t) \/ m' = m
  <2>1. m[t] = "wrwait"
    BY <1>3 DEF ResumeWr, Mode
  <2>2. CASE WriterMustWait(nread, nwrite)
    BY <1>3, <2>2 DEF ResumeWr, Mode, TypeOK
  <2>3. CASE ~WriterMustWait(nread, nwrite)
    <3>1. W = {t} /\ R = {}
      BY <1>3, <2>3, CountedSets, LoneWriter DEF WriterMustWait, ResumeWr, W, At
    <3>2. \A u \in Threads : m[u] \notin {"rd", "wr"}
      BY <1>3, <3>1 DEF ResumeWr, W, R, At, Mode, TypeOK
    <3>3. m' = [m EXCEPT ![t] = "wr"]
      BY <1>3, <2>3 DEF ResumeWr, Mode, TypeOK
    <3> QED
      BY <2>1, <3>2, <3>3 DEF ERW!GetWr, ERW!MayWrite, ERW!Unlocked, ERW!Holding
  <2> QED
    BY <2>2, <2>3
<1>4. ASSUME NEW t \in Threads, RdLock(t) \/ ResumeRd(t)
      PROVE  ERW!RdLock(t) \/ ERW!GetRd(t) \/ m' = m
  <2>1. (m[t] = "idle" /\ RdLock(t)) \/ (m[t] = "rdwait" /\ ResumeRd(t))
    BY <1>4 DEF RdLock, ResumeRd, Mode
  <2>2. CASE ReaderMustWait(nwrite)
    <3>1. m' = [m EXCEPT ![t] = "rdwait"]
      BY <1>4, <2>2 DEF RdLock, ResumeRd, GoRead, Mode, TypeOK
    <3> QED
      BY <2>1, <3>1 DEF ERW!RdLock
  <2>3. CASE ~ReaderMustWait(nwrite)
    <3>1. W = {}
      BY <2>3, CountedSets DEF ReaderMustWait
    <3>2. \A u \in Threads : m[u] \notin {"wrwait", "wr"}
      BY <3>1 DEF W, At, Mode, TypeOK
    <3>3. m' = [m EXCEPT ![t] = "rd"]
      BY <1>4, <2>3 DEF RdLock, ResumeRd, GoRead, Mode, TypeOK
    <3> QED
      BY <2>1, <3>2, <3>3 DEF ERW!RdLock, ERW!GetRd, ERW!MayRead, ERW!Holding
  <2> QED
    BY <2>2, <2>3
<1>5. ASSUME NEW t \in Threads, Unlock(t) PROVE ERW!Unlock(t)
  <2>1. PICK released \in Signalled(nread' = 0) :
          pc' = [u \in Threads |->
                  IF u = t THEN "idle"
                  ELSE IF u \in released THEN "wrwoken"
                  ELSE IF pc[u] = "rdwait" /\ Broadcast(nwrite') THEN "rdwoken"
                  ELSE pc[u]]
    BY <1>5 DEF Unlock, Release
  <2>2. \A u \in released : pc[u] = "wrwait"
    BY <2>1 DEF Signalled, At
  <2>3. m' = [m EXCEPT ![t] = "idle"]
    BY <2>1, <2>2 DEF Mode, TypeOK
  <2>4. m[t] \in {"rd", "wr"}
    BY <1>5 DEF Unlock, Release, Mode
  <2> QED
    BY <2>3, <2>4 DEF ERW!Unlock
<1>6. ASSUME NEW t \in Threads, Spurious(t) PROVE m' = m
  BY <1>6 DEF Spurious, Mode, TypeOK
<1> QED
  BY <1>1, <1>2, <1>3, <1>4, <1>5, <1>6 DEF Next, ERW!Next

\* The lock implements the contract of include/empthread.h.
THEOREM ImplementsContract == Spec => Contract
<1>1. Init => ERW!Init
  BY DEF Init, ERW!Init, Mode
<1>2. QED
  BY <1>1, StepRefines, Inductive, PTL DEF Spec, Contract, ERW!Spec

-----------------------------------------------------------------------------
(* The lock of the Windows thread package. *)

NtR == NtHolding("rd")
NtW == NtHolding("wr") \cup NtHolding("wrwait")

\* The lock's own part of the invariant is inductive as it stands.
NtLockInv == NtLockTypeOK /\ NtEventsAgree /\ NtExclusion /\ ~ntOops

\* The sets the counts count are finite, so a count of zero means an empty set.
LEMMA NtCountedSets ==
  ASSUME NtLockInv
  PROVE  /\ IsFiniteSet(NtW) /\ IsFiniteSet(NtR)
         /\ ntWrite = Cardinality(NtW) /\ ntRead = Cardinality(NtR)
         /\ ntWrite = 0 <=> NtW = {}
         /\ ntRead = 0 <=> NtR = {}
<1>1. NtW \subseteq NtSet /\ NtR \subseteq NtSet
  BY DEF NtW, NtR, NtHolding
<1>2. IsFiniteSet(NtW) /\ IsFiniteSet(NtR)
  BY <1>1, NtAssumption, FS_Subset
<1>3. ntWrite = Cardinality(NtW) /\ ntRead = Cardinality(NtR)
  BY DEF NtLockInv, NtEventsAgree, NtW, NtR
<1> QED
  BY <1>2, <1>3, FS_EmptySet

\* A writer on its way is counted, and keeps new readers out.
LEMMA NtWrLockKeeps ==
  ASSUME NtLockInv, NEW t \in NtSet, NtWrLock(t)
  PROVE  NtLockInv'
<1> USE DEF NtLockInv, NtModes
<1>1. NtLockTypeOK'
  <2>1. ntMode' \in [NtSet -> NtModes]
    BY DEF NtLockTypeOK, NtWrLock, NtTurn
  <2>2. ntRead' \in Nat /\ ntWrite' \in Nat
    BY DEF NtLockTypeOK, NtWrLock
  <2>3. canRead' \in BOOLEAN /\ canWrite' \in BOOLEAN /\ ntOops' \in BOOLEAN
    BY DEF NtLockTypeOK, NtWrLock
  <2> QED
    BY <2>1, <2>2, <2>3 DEF NtLockTypeOK
<1>2. NtW' = NtW \cup {t} /\ t \notin NtW /\ NtR' = NtR /\ NtHolding("wr")' = NtHolding("wr")
  BY DEF NtLockTypeOK, NtWrLock, NtTurn, NtW, NtR, NtHolding
<1>3. Cardinality(NtW') = Cardinality(NtW) + 1
  BY <1>2, NtCountedSets, FS_AddElement
<1>4. NtEventsAgree'
  BY <1>2, <1>3, NtCountedSets DEF NtEventsAgree, NtW, NtR, NtWrLock
<1>5. NtExclusion' /\ ~ntOops'
  BY DEF NtExclusion, NtWrLock, NtTurn, NtLockTypeOK
<1> QED
  BY <1>1, <1>4, <1>5

\* A writer whose wait is over finds the lock held by nobody.
LEMMA NtGetWrKeeps ==
  ASSUME NtLockInv, NEW t \in NtSet, NtGetWr(t)
  PROVE  NtLockInv'
<1> USE DEF NtLockInv, NtModes
<1>1. NtHolding("rd") = {} /\ NtHolding("wr") = {}
  BY DEF NtGetWr, NtEventsAgree
<1>2. ntRead = 0
  BY <1>1, NtCountedSets DEF NtR
<1>3. NtLockTypeOK' /\ ~ntOops'
  BY <1>2 DEF NtLockTypeOK, NtGetWr, NtTurn
<1>4. NtW' = NtW /\ NtR' = NtR /\ t \in NtHolding("wr")'
  BY DEF NtLockTypeOK, NtGetWr, NtTurn, NtW, NtR, NtHolding
<1>5. NtEventsAgree'
  <2>1. t \in NtW
    BY <1>4 DEF NtW
  <2> QED
    BY <1>4, <2>1, NtCountedSets DEF NtEventsAgree, NtW, NtR, NtGetWr
<1>6. NtExclusion'
  BY <1>1 DEF NtExclusion, NtGetWr, NtTurn, NtLockTypeOK, NtHolding
<1> QED
  BY <1>3, <1>5, <1>6

\* A reader on its way is nothing to the lock yet.
LEMMA NtRdLockKeeps ==
  ASSUME NtLockInv, NEW t \in NtSet, NtRdLock(t)
  PROVE  NtLockInv'
<1> USE DEF NtLockInv, NtModes
<1>1. NtLockTypeOK' /\ NtExclusion' /\ ~ntOops'
  BY DEF NtLockTypeOK, NtRdLock, NtTurn, NtExclusion
<1>2. \A m \in {"rd", "wr", "wrwait"} : NtHolding(m)' = NtHolding(m)
  BY DEF NtLockTypeOK, NtRdLock, NtTurn, NtHolding
<1>3. NtEventsAgree'
  BY <1>2 DEF NtEventsAgree, NtRdLock
<1> QED
  BY <1>1, <1>3

\* A reader whose wait is over finds no writer about.
LEMMA NtGetRdKeeps ==
  ASSUME NtLockInv, NEW t \in NtSet, NtGetRd(t)
  PROVE  NtLockInv'
<1> USE DEF NtLockInv, NtModes
<1>1. NtLockTypeOK' /\ ~ntOops'
  <2>1. ntMode' \in [NtSet -> NtModes]
    BY DEF NtLockTypeOK, NtGetRd, NtTurn
  <2>2. ntRead' \in Nat /\ ntWrite' \in Nat
    BY DEF NtLockTypeOK, NtGetRd
  <2>3. canRead' \in BOOLEAN /\ canWrite' \in BOOLEAN /\ ntOops' \in BOOLEAN /\ ~ntOops'
    BY DEF NtLockTypeOK, NtGetRd
  <2> QED
    BY <2>1, <2>2, <2>3 DEF NtLockTypeOK
<1>2. NtW = {}
  BY DEF NtGetRd, NtEventsAgree, NtW
<1>3. NtW' = NtW /\ NtR' = NtR \cup {t} /\ t \notin NtR /\ NtHolding("wr")' = {} /\ NtHolding("wrwait")' = {}
  BY <1>2 DEF NtLockTypeOK, NtGetRd, NtTurn, NtW, NtR, NtHolding
<1>4. Cardinality(NtR') = Cardinality(NtR) + 1
  BY <1>3, NtCountedSets, FS_AddElement
<1>5. NtEventsAgree'
  BY <1>2, <1>3, <1>4, NtCountedSets DEF NtEventsAgree, NtW, NtR, NtGetRd
<1>6. NtExclusion'
  BY <1>3 DEF NtExclusion, NtHolding
<1> QED
  BY <1>1, <1>5, <1>6

(***************************************************************************)
(* What an unlock() does to the two sets: although the code only looks at  *)
(* nread to tell which way the caller holds the lock, it always takes the  *)
(* caller out of the right one, and its assertion does not fire.           *)
(***************************************************************************)
LEMMA NtUnlockRemovesHolder ==
  ASSUME NtLockInv, NEW t \in NtSet, NtUnlock(t)
  PROVE  /\ \/ /\ t \in NtR /\ NtR' = NtR \ {t} /\ NtW' = NtW /\ NtHolding("wr")' = {}
               /\ ntRead' = ntRead - 1 /\ ntWrite' = ntWrite
            \/ /\ t \in NtW /\ NtW' = NtW \ {t} /\ NtR' = NtR /\ NtR = {} /\ NtHolding("wr")' = {}
               /\ ntWrite' = ntWrite - 1 /\ ntRead' = ntRead
         /\ canWrite' = (canWrite \/ ntRead' = 0)
         /\ canRead' = (canRead \/ ntWrite' = 0)
         /\ ntOops' = ntOops
<1> USE DEF NtLockInv, NtModes
<1>1. CASE ntMode[t] = "rd"
  <2>1. t \in NtR
    BY <1>1 DEF NtR, NtHolding
  <2>2. ntRead # 0
    BY <2>1, NtCountedSets
  <2>3. NtHolding("wr") = {}
    BY <1>1 DEF NtExclusion, NtHolding
  <2>4. NtR' = NtR \ {t} /\ NtW' = NtW /\ NtHolding("wr")' = {}
    BY <1>1, <2>3 DEF NtUnlock, NtTurn, NtR, NtW, NtHolding, NtLockTypeOK
  <2> QED
    BY <2>1, <2>2, <2>4 DEF NtUnlock
<1>2. CASE ntMode[t] = "wr"
  <2>1. NtR = {} /\ NtHolding("wr") = {t}
    BY <1>2 DEF NtExclusion, NtR, NtHolding
  <2>2. t \in NtW
    BY <2>1 DEF NtW
  <2>3. ntRead = 0 /\ ntWrite # 0
    BY <2>1, <2>2, NtCountedSets
  <2>4. NtW' = NtW \ {t} /\ NtR' = NtR /\ NtHolding("wr")' = {}
    BY <1>2, <2>1 DEF NtUnlock, NtTurn, NtR, NtW, NtHolding, NtLockTypeOK
  <2> QED
    BY <2>1, <2>2, <2>3, <2>4 DEF NtUnlock
<1> QED
  BY <1>1, <1>2 DEF NtUnlock

\* An unlock() uncounts its caller, and sets the events the last holder must.
LEMMA NtUnlockKeeps ==
  ASSUME NtLockInv, NEW t \in NtSet, NtUnlock(t)
  PROVE  NtLockInv'
<1> USE DEF NtLockInv, NtModes
<1>1. ~ntOops' /\ ntMode' \in [NtSet -> NtModes] /\ NtExclusion'
  BY NtUnlockRemovesHolder DEF NtUnlock, NtTurn, NtExclusion, NtHolding, NtLockTypeOK
<1>2. CASE /\ t \in NtR /\ NtR' = NtR \ {t} /\ NtW' = NtW /\ NtHolding("wr")' = {}
           /\ ntRead' = ntRead - 1 /\ ntWrite' = ntWrite
  <2>1. Cardinality(NtR') = Cardinality(NtR) - 1 /\ IsFiniteSet(NtR')
    BY <1>2, NtCountedSets, FS_RemoveElement
  <2>2. ntRead' = Cardinality(NtR') /\ ntWrite' = Cardinality(NtW')
    BY <1>2, <2>1, NtCountedSets
  <2>3. ntRead' \in Nat /\ (ntRead' = 0 <=> NtR' = {})
    BY <2>1, <2>2, FS_CardinalityType, FS_EmptySet
  <2>4. canWrite' <=> NtR' = {}
    <3>1. ~canWrite
      BY <1>2 DEF NtEventsAgree, NtR
    <3> QED
      BY <2>3, <3>1, NtUnlockRemovesHolder
  <2>5. canRead' <=> NtW' = {}
    BY <1>2, NtCountedSets, NtUnlockRemovesHolder DEF NtEventsAgree, NtW
  <2>6. canRead' \in BOOLEAN /\ canWrite' \in BOOLEAN /\ ntOops' \in BOOLEAN
    BY NtUnlockRemovesHolder DEF NtLockTypeOK
  <2>7. NtEventsAgree'
    BY <1>2, <2>2, <2>3, <2>4, <2>5 DEF NtEventsAgree, NtW, NtR
  <2>8. ntWrite' \in Nat
    BY <1>2 DEF NtLockTypeOK
  <2>9. NtLockTypeOK'
    BY <1>1, <2>3, <2>6, <2>8 DEF NtLockTypeOK
  <2> QED
    BY <1>1, <2>7, <2>9
<1>3. CASE /\ t \in NtW /\ NtW' = NtW \ {t} /\ NtR' = NtR /\ NtR = {} /\ NtHolding("wr")' = {}
           /\ ntWrite' = ntWrite - 1 /\ ntRead' = ntRead
  <2>1. Cardinality(NtW') = Cardinality(NtW) - 1 /\ IsFiniteSet(NtW')
    BY <1>3, NtCountedSets, FS_RemoveElement
  <2>2. ntRead' = Cardinality(NtR') /\ ntWrite' = Cardinality(NtW')
    BY <1>3, <2>1, NtCountedSets
  <2>3. ntWrite' \in Nat /\ (ntWrite' = 0 <=> NtW' = {})
    BY <2>1, <2>2, FS_CardinalityType, FS_EmptySet
  <2>4. canRead' <=> NtW' = {}
    <3>1. ~canRead
      BY <1>3 DEF NtEventsAgree, NtW
    <3> QED
      BY <2>3, <3>1, NtUnlockRemovesHolder
  <2>5. canWrite'
    BY <1>3, NtCountedSets, NtUnlockRemovesHolder
  <2>6. canRead' \in BOOLEAN /\ canWrite' \in BOOLEAN /\ ntOops' \in BOOLEAN
    BY NtUnlockRemovesHolder DEF NtLockTypeOK
  <2>7. NtEventsAgree'
    BY <1>3, <2>2, <2>3, <2>4, <2>5 DEF NtEventsAgree, NtW, NtR
  <2>8. ntRead' \in Nat
    BY <1>3 DEF NtLockTypeOK
  <2>9. NtLockTypeOK'
    BY <1>1, <2>3, <2>6, <2>8 DEF NtLockTypeOK
  <2> QED
    BY <1>1, <2>7, <2>9
<1> QED
  BY <1>2, <1>3, NtUnlockRemovesHolder

-----------------------------------------------------------------------------
(* The threads around the lock. *)

NtInv == NtTypeOK /\ NtEventsAgree /\ NtExclusion /\ ~ntOops

\* All the threads do to the lock is what its functions do.
LEMMA NtLockUsed ==
  ASSUME NtNext
  PROVE  UNCHANGED ntLockVars \/ \E t \in NtSet : NtLockStep(t)
BY DEF NtNext, NtGivesUp, NtYield, NtExit, NtSelect, NtSleep, NtWaitForSignal, NtWant, NtCreate, NtLetGo, NtRun,
       NtReadyOrTimeout, NtWoken, NtWaitEnds, NtWakeup, NtRequestShutdown, NtLockStep

LEMMA NtLockKept ==
  ASSUME NtLockInv, [NtNext]_ntVars
  PROVE  NtLockInv'
<1>1. CASE UNCHANGED ntLockVars
  BY <1>1 DEF NtLockInv, ntLockVars, NtLockTypeOK, NtEventsAgree, NtExclusion, NtHolding
<1>2. CASE \E t \in NtSet : NtLockStep(t)
  BY <1>2, NtWrLockKeeps, NtGetWrKeeps, NtRdLockKeeps, NtGetRdKeeps, NtUnlockKeeps DEF NtLockStep
<1> QED
  BY <1>1, <1>2, NtLockUsed DEF ntVars

LEMMA NtThreadsKept ==
  ASSUME NtTypeOK, [NtNext]_ntVars
  PROVE  /\ ntAt' \in [NtSet -> NtPlaces]
         /\ {pCurThread', ntUser'} \subseteq NtSet \cup {NtNone}
         /\ threadEvent' \in [NtSet -> BOOLEAN] /\ shutdownEvent' \in BOOLEAN
<1> USE DEF NtTypeOK, NtPlaces
<1>1. ASSUME NEW t \in NtSet, NEW where \in NtPlaces, NtBlock(t, where)
      PROVE  ntAt' \in [NtSet -> NtPlaces] /\ {pCurThread', ntUser'} \subseteq NtSet \cup {NtNone}
  BY <1>1 DEF NtBlock
<1>2. ASSUME NEW t \in NtSet, NtGivesUp(t)
      PROVE  /\ ntAt' \in [NtSet -> NtPlaces] /\ {pCurThread', ntUser'} \subseteq NtSet \cup {NtNone}
             /\ threadEvent' \in [NtSet -> BOOLEAN] /\ shutdownEvent' = shutdownEvent
  BY <1>1, <1>2 DEF NtGivesUp, NtYield, NtExit, NtSelect, NtSleep, NtWaitForSignal, NtWant, NtCreate
<1>3. ASSUME NEW t \in NtSet, NtLetGo(t) \/ NtRun(t) \/ NtReadyOrTimeout(t) \/ NtWoken(t)
      PROVE  /\ ntAt' \in [NtSet -> NtPlaces] /\ {pCurThread', ntUser'} \subseteq NtSet \cup {NtNone}
             /\ threadEvent' \in [NtSet -> BOOLEAN] /\ shutdownEvent' = shutdownEvent
  BY <1>3 DEF NtLetGo, NtRun, NtReadyOrTimeout, NtWoken, NtWaitEnds, ntOwn
<1>4. ASSUME NEW t \in NtSet, NEW u \in NtSet, NtWakeup(t, u)
      PROVE  /\ ntAt' \in [NtSet -> NtPlaces] /\ {pCurThread', ntUser'} \subseteq NtSet \cup {NtNone}
             /\ threadEvent' \in [NtSet -> BOOLEAN] /\ shutdownEvent' = shutdownEvent
  BY <1>4 DEF NtWakeup
<1>5. CASE NtRequestShutdown
  BY <1>5 DEF NtRequestShutdown
<1>6. CASE UNCHANGED ntVars
  BY <1>6 DEF ntVars, ntOwn
<1> QED
  BY <1>2, <1>3, <1>4, <1>5, <1>6 DEF NtNext

\* The inductive invariant holds in every reachable state.
THEOREM NtInductive == NtSpec => []NtInv
<1>1. NtInit => NtInv
  <2> SUFFICES ASSUME NtInit PROVE NtInv
    OBVIOUS
  <2>1. NtR = {} /\ NtW = {} /\ NtHolding("wr") = {}
    BY DEF NtInit, NtLockInit, NtR, NtW, NtHolding
  <2>2. NtEventsAgree
    BY <2>1, FS_EmptySet DEF NtInit, NtLockInit, NtEventsAgree, NtR, NtW
  <2>3. NtTypeOK
    BY NtMainAssumption DEF NtInit, NtLockInit, NtTypeOK, NtLockTypeOK, NtModes, NtPlaces
  <2>4. NtExclusion /\ ~ntOops
    BY DEF NtInit, NtLockInit, NtExclusion
  <2> QED
    BY <2>2, <2>3, <2>4 DEF NtInv
<1>2. NtInv /\ [NtNext]_ntVars => NtInv'
  BY NtLockKept, NtThreadsKept DEF NtInv, NtLockInv, NtTypeOK
<1> QED
  BY <1>1, <1>2, PTL DEF NtSpec

\* Every step of the lock is one the contract allows.
LEMMA NtStepRefines ==
  ASSUME NtLockInv, NEW t \in NtSet, NtLockStep(t)
  PROVE  NtERW!Next
<1> USE DEF NtLockInv
<1>1. CASE NtWrLock(t)
  BY <1>1 DEF NtWrLock, NtTurn, NtERW!Next, NtERW!WrLock
<1>2. CASE NtRdLock(t)
  BY <1>2 DEF NtRdLock, NtTurn, NtERW!Next, NtERW!RdLock
<1>3. CASE NtGetWr(t)
  BY <1>3 DEF NtGetWr, NtTurn, NtEventsAgree, NtHolding, NtERW!Next, NtERW!GetWr, NtERW!MayWrite, NtERW!Unlocked,
     NtERW!Holding
<1>4. CASE NtGetRd(t)
  BY <1>4 DEF NtGetRd, NtTurn, NtEventsAgree, NtHolding, NtERW!Next, NtERW!GetRd, NtERW!MayRead, NtERW!Holding
<1>5. CASE NtUnlock(t)
  BY <1>5 DEF NtUnlock, NtTurn, NtERW!Next, NtERW!Unlock
<1> QED
  BY <1>1, <1>2, <1>3, <1>4, <1>5 DEF NtLockStep

(***************************************************************************)
(* For any finite set of threads and any number of wakeups: counts and     *)
(* events of the lock agree with the threads, a writer is alone, no        *)
(* CANT_HAPPEN() fires, and every step is one the contract of              *)
(* include/empthread.h allows.                                             *)
(***************************************************************************)
THEOREM NtLockHolds == NtSpec => NtLockInOrder
<1>1. NtInit => NtERW!Init
  BY DEF NtInit, NtLockInit, NtERW!Init
<1>2. NtInv /\ [NtNext]_ntVars => [NtERW!Next]_NtERW!vars
  <2> SUFFICES ASSUME NtInv, [NtNext]_ntVars PROVE [NtERW!Next]_NtERW!vars
    OBVIOUS
  <2>1. NtLockInv
    BY DEF NtInv, NtLockInv, NtTypeOK
  <2>2. CASE UNCHANGED ntLockVars
    BY <2>2 DEF ntLockVars, NtERW!vars
  <2>3. CASE \E t \in NtSet : NtLockStep(t)
    BY <2>1, <2>3, NtStepRefines
  <2> QED
    BY <2>2, <2>3, NtLockUsed DEF ntVars
<1>3. NtInv => NtTypeOK /\ NtEventsAgree /\ NtExclusion /\ ~ntOops
  BY DEF NtInv
<1> QED
  BY <1>1, <1>2, <1>3, NtInductive, PTL DEF NtSpec, NtLockInOrder, NtContract, NtERW!Spec

=============================================================================

---------------------------- MODULE LwpSchedProofs ----------------------------
(***************************************************************************)
(* The LWP scheduler loses no thread, for any number of threads, file      *)
(* descriptors, signals and any length of time.                            *)
(***************************************************************************)
EXTENDS LwpSched, EmpLemmas

-----------------------------------------------------------------------------
(***************************************************************************)
(* The package's data.  Where a thread is: Ready, asleep, put aside, freed *)
(* or waiting for a signal.  L are threads that lwpWakeupSleep() took out  *)
(* of LwpDelayq and has yet to decide about.                               *)
(***************************************************************************)
Data ==
  [cur : Procs \cup {None}, sched : [0..1 -> Seq(Procs)], deadq : Seq(Threads), dead : SUBSET Threads,
   freed : SUBSET Threads, delayq : Seq(Threads), fds : SUBSET Fds, nfds : Int, maxfd : Fds,
   fdwait : [Fds -> Threads \cup {None}], fd : [Threads -> Int], fdready : [Threads -> BOOLEAN],
   runtime : [Threads -> Int], waiter : Threads \cup {None}, check : BOOLEAN, oops : BOOLEAN]

ReadySet(x)  == ToSet(x.sched[1])
FdWaiters(x) == {t \in Threads : \E f \in Fds : x.fdwait[f] = t}
Sleepers(x, L) == ToSet(x.delayq) \cup L \cup FdWaiters(x)

FdsAgree(x) ==
  /\ x.fds = {f \in Fds : x.fdwait[f] # None}
  /\ IsFiniteSet(x.fds) /\ x.nfds = Cardinality(x.fds)
  /\ \A f \in Fds : x.fdwait[f] # None => /\ x.fdwait[f] \in Workers /\ x.fd[x.fdwait[f]] = f
                                          /\ f <= x.maxfd
  /\ \A t \in Workers : x.fd[t] = -1 \/ (x.fd[t] \in Fds /\ x.fdwait[x.fd[t]] = t)

Sound(x, L) ==
  /\ x \in Data /\ ~x.oops
  /\ x.sched[1] \in Queue(Threads) /\ x.sched[0] \in {<<>>, <<Select>>}
  /\ x.delayq \in Queue(Workers) /\ L \subseteq Workers /\ L \cap ToSet(x.delayq) = {}
  /\ FdsAgree(x)
  /\ ReadySet(x) \cap Sleepers(x, L) = {}

\* A thread in LwpDelayq that also waits for an fd has a time to wake up.
Timed(x) == \A t \in ToSet(x.delayq) : x.runtime[t] > 0

\* Each of the threads U is in one place; E are on the processor.
Apart(x, E, U) ==
  /\ x.deadq \in Queue(Threads)
  /\ \A t \in ReadySet(x) : t \notin Sleepers(x, {}) \cup ToSet(x.deadq) \cup x.freed \cup {x.waiter} \cup E
  /\ \A t \in Sleepers(x, {}) : t \notin ToSet(x.deadq) \cup x.freed \cup {x.waiter} \cup E
  /\ \A t \in ToSet(x.deadq) : t \notin x.freed \cup {x.waiter} \cup E
  /\ \A t \in x.freed : t \notin {x.waiter} \cup E
  /\ x.waiter \notin E
  /\ U = ReadySet(x) \cup Sleepers(x, {}) \cup ToSet(x.deadq) \cup x.freed \cup ({x.waiter} \ {None}) \cup E

\* Who is dead is in the run queue, or put aside, or freed.
Mortal(x) ==
  /\ x.dead \subseteq Workers \ Keepers
  /\ ToSet(x.deadq) \cup x.freed \subseteq x.dead
  /\ Sleepers(x, {}) \cap x.dead = {} /\ x.waiter \notin x.dead

Idle(x) == x.maxfd = 0 /\ Sleepers(x, {}) = {}

Places == {"new", "run", "sleep", "sleepfd", "sigwait", "dead", "parked", "select", "eintr"}

Existing == {t \in Threads : pc[t] # "new"}

SchedInv ==
  /\ now \in Nat \ {0} /\ now <= MaxTime
  /\ pc \in [Procs -> Places]
  /\ Sound(k, {}) /\ Timed(k)
  /\ k.cur \in Procs /\ k.cur \notin k.dead
  /\ Apart(k, {k.cur} \cap Threads, Existing)
  /\ Mortal(k) /\ k.dead = {t \in Threads : pc[t] = "dead"}
  /\ k.waiter \in {Main, None} /\ pc[Main] \in {"run", "sigwait"}
  /\ k.waiter = Main => pc[Main] = "sigwait"
  /\ pc[Main] = "sigwait" => ServerUp
  /\ \A t \in Sleepers(k, {}) : pc[t] \in {"sleep", "sleepfd"}
  /\ \A t \in Threads : k.runtime[t] \in NoTime..Never
  /\ k.cur = Select => k.sched[0] = <<>>
  /\ k.cur # Select /\ k.sched[0] = <<>> => Idle(k)
  /\ pc[Select] \in {"select", "eintr"} => k.cur = Select

-----------------------------------------------------------------------------
(***************************************************************************)
(* Waking threads: what a step of it keeps, and whom it moves.             *)
(***************************************************************************)
Alike(x, y) ==
  /\ y.cur = x.cur /\ y.deadq = x.deadq /\ y.dead = x.dead /\ y.freed = x.freed
  /\ y.maxfd = x.maxfd /\ y.sched[0] = x.sched[0]

Woken(x, L, y, M) ==
  /\ Alike(x, y) /\ y.waiter = x.waiter
  /\ ReadySet(x) \subseteq ReadySet(y)
  /\ ReadySet(y) \cup Sleepers(y, M) = ReadySet(x) \cup Sleepers(x, L)
  /\ \A t \in Threads : y.runtime[t] \in {x.runtime[t], NoTime, WokenEarly}

\* Each thread of Threads has priority 1.
LEMMA ThreadPri == \A p \in Threads : Pri(p) = 1
BY ConstantsAssumption DEF Threads, Procs, Pri

\* Who is a worker, a thread, the select thread or nobody.
LEMMA WorkersThreads == Workers \subseteq Threads /\ Threads \subseteq Procs /\ Main \notin Workers /\ Select \notin Threads /\ None \notin Threads
BY ConstantsAssumption DEF Threads, Procs

\* A thread that is not in a queue is added to it.
LEMMA AddTailIs ==
  ASSUME NEW S, NEW q \in Queue(S), NEW p \in S, p \notin ToSet(q)
  PROVE  AddTail(q, p) \in Queue(S) /\ ToSet(AddTail(q, p)) = ToSet(q) \cup {p}
<1>1. q # <<>> => Last(q) \in ToSet(q)
  <2>1. q \in Seq(S) /\ Len(q) \in Nat /\ DOMAIN q = 1..Len(q)
    BY LenProperties DEF Queue
  <2>2. q # <<>> => Len(q) \in 1..Len(q)
    BY <2>1, EmptySeq
  <2> QED
    BY <2>1, <2>2 DEF Last, ToSet
<1>2. AddTail(q, p) = Append(q, p)
  BY <1>1 DEF AddTail
<1> QED
  BY <1>2, AppendQueue

\* lwpAddTail() makes a queue of a queue.
LEMMA AddTailSeq == ASSUME NEW S, NEW q \in Seq(S), NEW p \in S PROVE AddTail(q, p) \in Seq(S)
BY DEF AddTail

\* lwpReady() of a thread but Select.
LEMMA ReadyIs ==
  ASSUME NEW x \in Data, NEW p \in Threads
  PROVE  /\ Ready(x, p) = [x EXCEPT !.sched = [x.sched EXCEPT ![1] = AddTail(x.sched[1], p)]]
         /\ Ready(x, p) \in Data
<1>1. Ready(x, p) = [x EXCEPT !.sched[1] = AddTail(x.sched[1], p)]
  BY ThreadPri DEF Ready
<1>2. x.sched \in [0..1 -> Seq(Procs)] /\ p \in Procs
  BY WorkersThreads DEF Data
<1>3. AddTail(x.sched[1], p) \in Seq(Procs)
  BY <1>2, AddTailSeq
<1>4. [x.sched EXCEPT ![1] = AddTail(x.sched[1], p)] \in [0..1 -> Seq(Procs)]
  BY <1>2, <1>3
<1> QED
  BY <1>1, <1>4 DEF Data

\* lwpReady() changes a run queue and nothing else.
LEMMA ReadyFields ==
  ASSUME NEW x \in Data, NEW p \in Threads
  PROVE  LET y == Ready(x, p)
         IN  /\ y \in Data /\ Alike(x, y) /\ y.waiter = x.waiter /\ y.oops = x.oops
             /\ y.sched[1] = AddTail(x.sched[1], p)
             /\ y.delayq = x.delayq /\ y.fds = x.fds /\ y.nfds = x.nfds /\ y.fdwait = x.fdwait
             /\ y.fd = x.fd /\ y.fdready = x.fdready /\ y.runtime = x.runtime /\ y.check = x.check
<1> DEFINE y == Ready(x, p)
<1>1. y = [x EXCEPT !.sched = [x.sched EXCEPT ![1] = AddTail(x.sched[1], p)]] /\ y \in Data
  BY ReadyIs
<1>2. x.sched \in [0..1 -> Seq(Procs)]
  BY DEF Data
<1> HIDE DEF y
<1>3. y.sched = [x.sched EXCEPT ![1] = AddTail(x.sched[1], p)]
  BY <1>1 DEF Data
<1>4. y.sched[1] = AddTail(x.sched[1], p) /\ y.sched[0] = x.sched[0]
  BY <1>2, <1>3
<1>5. /\ y.cur = x.cur /\ y.deadq = x.deadq /\ y.dead = x.dead /\ y.freed = x.freed /\ y.maxfd = x.maxfd
      /\ y.waiter = x.waiter /\ y.oops = x.oops
      /\ y.delayq = x.delayq /\ y.fds = x.fds /\ y.nfds = x.nfds /\ y.fdwait = x.fdwait
      /\ y.fd = x.fd /\ y.fdready = x.fdready /\ y.runtime = x.runtime /\ y.check = x.check
  BY <1>1 DEF Data
<1> QED
  BY <1>1, <1>4, <1>5 DEF Alike, y

\* A sleeper becomes ready who waits for no fd (any more).
LEMMA ReadySleeper ==
  ASSUME NEW x, NEW L, Sound(x, L), NEW p \in L, p \notin FdWaiters(x)
  PROVE  Sound(Ready(x, p), L \ {p}) /\ Woken(x, L, Ready(x, p), L \ {p})
<1> DEFINE y == Ready(x, p)
<1>1. x \in Data /\ p \in Workers /\ p \in Threads
  BY WorkersThreads DEF Sound
<1>2. /\ y \in Data /\ Alike(x, y) /\ y.waiter = x.waiter /\ y.oops = x.oops
      /\ y.sched[1] = AddTail(x.sched[1], p)
      /\ y.delayq = x.delayq /\ y.fds = x.fds /\ y.nfds = x.nfds /\ y.fdwait = x.fdwait
      /\ y.fd = x.fd /\ y.runtime = x.runtime
  BY <1>1, ReadyFields
<1> HIDE DEF y
<1>3. p \notin ReadySet(x) /\ x.sched[1] \in Queue(Threads)
  BY DEF Sound, Sleepers
<1>4. y.sched[1] \in Queue(Threads) /\ ReadySet(y) = ReadySet(x) \cup {p}
  BY <1>1, <1>2, <1>3, AddTailIs DEF ReadySet
<1>5. FdWaiters(y) = FdWaiters(x) /\ FdsAgree(y) /\ p \notin ToSet(y.delayq) /\ y.sched[0] = x.sched[0]
  BY <1>2 DEF Sound, FdWaiters, FdsAgree, Alike
<1>6. Sleepers(y, L \ {p}) = Sleepers(x, L) \ {p}
  BY <1>2, <1>5 DEF Sleepers
<1>7. p \in Sleepers(x, L)
  BY DEF Sleepers
<1>8. Sound(y, L \ {p})
  BY <1>2, <1>4, <1>5, <1>6 DEF Sound
<1>9. Woken(x, L, y, L \ {p})
  BY <1>2, <1>4, <1>6, <1>7 DEF Woken
<1> QED
  BY <1>8, <1>9 DEF y

\* A thread stops waiting for its fd and becomes ready.
LEMMA LeaveFdKeeps ==
  ASSUME NEW x, NEW L, Sound(x, L), NEW p \in FdWaiters(x), p \notin ToSet(x.delayq)
  PROVE  /\ Sound(LeaveFd(x, p), L \ {p}) /\ Woken(x, L, LeaveFd(x, p), L \ {p})
         /\ LeaveFd(x, p).delayq = x.delayq /\ LeaveFd(x, p).runtime = x.runtime
         /\ \A f \in Fds : LeaveFd(x, p).fdwait[f] \in {x.fdwait[f], None}
         /\ LeaveFd(x, p).fdwait[x.fd[p]] = None
<1> DEFINE f == x.fd[p]
           z == [x EXCEPT !.fds = x.fds \ {f}, !.nfds = x.nfds - 1,
                          !.fdwait = [x.fdwait EXCEPT ![f] = None], !.fd = [x.fd EXCEPT ![p] = -1]]
           y == Ready(z, p)
<1>1. x \in Data /\ FdsAgree(x) /\ p \in Workers /\ p \in Threads
  BY WorkersThreads DEF Sound, FdsAgree, FdWaiters
<1>2. f \in Fds /\ x.fdwait[f] = p /\ f \in x.fds /\ \A g \in Fds : g # f => x.fdwait[g] # p
  BY <1>1, ConstantsAssumption, WorkersThreads DEF FdsAgree, FdWaiters
<1>3. LeaveFd(x, p) = y
  BY DEF LeaveFd
<1>4. /\ x.fds \in SUBSET Fds /\ x.nfds \in Int /\ x.fdwait \in [Fds -> Threads \cup {None}]
      /\ x.fd \in [Threads -> Int] /\ x.sched \in [0..1 -> Seq(Procs)]
  BY <1>1 DEF Data
<1>5. /\ x.fds \ {f} \in SUBSET Fds /\ x.nfds - 1 \in Int
      /\ [x.fdwait EXCEPT ![f] = None] \in [Fds -> Threads \cup {None}]
      /\ [x.fd EXCEPT ![p] = -1] \in [Threads -> Int]
  <2> HIDE DEF f
  <2>1. x.nfds - 1 \in Int /\ -1 \in Int
    BY <1>4
  <2>2. [x.fd EXCEPT ![p] = -1] \in [Threads -> Int]
    BY <1>1, <1>4, <2>1
  <2>3. [x.fdwait EXCEPT ![f] = None] \in [Fds -> Threads \cup {None}]
    BY <1>2, <1>4
  <2> QED
    BY <1>4, <2>1, <2>2, <2>3
<1> HIDE DEF f
<1>6. z \in Data
  BY <1>1, <1>5 DEF Data
<1>7. /\ z.fds = x.fds \ {f} /\ z.nfds = x.nfds - 1 /\ z.fdwait = [x.fdwait EXCEPT ![f] = None]
      /\ z.fd = [x.fd EXCEPT ![p] = -1]
      /\ z.sched = x.sched /\ z.delayq = x.delayq /\ z.runtime = x.runtime /\ z.oops = x.oops
      /\ z.cur = x.cur /\ z.deadq = x.deadq /\ z.dead = x.dead /\ z.freed = x.freed
      /\ z.maxfd = x.maxfd /\ z.waiter = x.waiter
  BY <1>1 DEF Data
<1> HIDE DEF z
<1>8. /\ y \in Data /\ Alike(z, y) /\ y.waiter = z.waiter /\ y.oops = z.oops
      /\ y.sched[1] = AddTail(z.sched[1], p)
      /\ y.delayq = z.delayq /\ y.fds = z.fds /\ y.nfds = z.nfds /\ y.fdwait = z.fdwait
      /\ y.fd = z.fd /\ y.runtime = z.runtime
  BY <1>1, <1>6, ReadyFields
<1> HIDE DEF y
<1>9. p \notin ReadySet(x) /\ p \in Sleepers(x, L) /\ x.sched[1] \in Queue(Threads)
  BY DEF Sound, Sleepers
<1>10. y.sched[1] \in Queue(Threads) /\ ReadySet(y) = ReadySet(x) \cup {p} /\ y.sched[0] = x.sched[0]
  BY <1>1, <1>7, <1>8, <1>9, AddTailIs DEF ReadySet, Alike
<1>11. Alike(x, y) /\ y.waiter = x.waiter /\ y.oops = x.oops /\ y.delayq = x.delayq /\ y.runtime = x.runtime
  BY <1>7, <1>8 DEF Alike
<1>12. /\ y.fds = x.fds \ {f} /\ y.nfds = x.nfds - 1 /\ y.maxfd = x.maxfd
       /\ \A g \in Fds : y.fdwait[g] = IF g = f THEN None ELSE x.fdwait[g]
       /\ \A t \in Threads : y.fd[t] = IF t = p THEN -1 ELSE x.fd[t]
  BY <1>4, <1>7, <1>8, <1>11 DEF Alike
<1>13. FdWaiters(y) = FdWaiters(x) \ {p}
  <2>1. p # None
    BY <1>1, WorkersThreads
  <2> QED
    BY <1>1, <1>2, <1>12, <2>1, WorkersThreads DEF FdWaiters
<1>14. FdsAgree(y)
  <2>1. y.fds = {g \in Fds : y.fdwait[g] # None}
    BY <1>1, <1>12 DEF FdsAgree
  <2>2. IsFiniteSet(y.fds) /\ y.nfds = Cardinality(y.fds)
    <3>1. IsFiniteSet(x.fds) /\ x.nfds = Cardinality(x.fds)
      BY <1>1 DEF FdsAgree
    <3>2. IsFiniteSet(x.fds \ {f}) /\ Cardinality(x.fds \ {f}) = Cardinality(x.fds) - 1
      BY <1>2, <3>1, FS_RemoveElement, Zenon
    <3> QED
      BY <1>12, <3>1, <3>2
  <2>3. \A g \in Fds : y.fdwait[g] # None => y.fdwait[g] \in Workers /\ y.fd[y.fdwait[g]] = g /\ g <= y.maxfd
    BY <1>1, <1>2, <1>12, WorkersThreads DEF FdsAgree
  <2>4. \A t \in Workers : y.fd[t] = -1 \/ (y.fd[t] \in Fds /\ y.fdwait[y.fd[t]] = t)
    BY <1>1, <1>2, <1>12, WorkersThreads DEF FdsAgree
  <2> QED
    BY <2>1, <2>2, <2>3, <2>4 DEF FdsAgree
<1>15. Sleepers(y, L \ {p}) = Sleepers(x, L) \ {p}
  BY <1>11, <1>13 DEF Sleepers
<1>16. Sound(y, L \ {p})
  BY <1>8, <1>10, <1>11, <1>14, <1>15 DEF Sound
<1>17. Woken(x, L, y, L \ {p})
  BY <1>9, <1>10, <1>11, <1>15 DEF Woken
<1> QED
  BY <1>2, <1>3, <1>11, <1>12, <1>16, <1>17 DEF f

\* An fd number of a thread that waits is one the select thread looks at.
LEMMA FdInRange ==
  ASSUME NEW x, NEW L, Sound(x, L), NEW p \in Workers
  PROVE  (x.fd[p] >= 0 <=> p \in FdWaiters(x)) /\ (p \in FdWaiters(x) => x.fd[p] \in 0..x.maxfd)
<1>1. x \in Data /\ FdsAgree(x) /\ p \in Threads /\ p # None /\ Fds \subseteq Nat /\ x.maxfd \in Nat
  BY WorkersThreads, ConstantsAssumption DEF Sound, Data
<1>2. x.fd[p] = -1 \/ (x.fd[p] \in Fds /\ x.fdwait[x.fd[p]] = p)
  BY <1>1 DEF FdsAgree
<1>3. p \in FdWaiters(x) => x.fd[p] \in Fds /\ x.fd[p] <= x.maxfd
  BY <1>1 DEF FdsAgree, FdWaiters
<1>4. \A i \in Nat : i >= 0 /\ i # -1
  OBVIOUS
<1>5. x.fd[p] \in Fds /\ x.fdwait[x.fd[p]] = p => p \in FdWaiters(x)
  BY <1>1 DEF FdWaiters
<1>6. x.fd[p] \in Fds => x.fd[p] \in Nat
  BY <1>1
<1> QED
  BY <1>1, <1>2, <1>3, <1>5, <1>6

\* One waking after another wakes those whom either does.
LEMMA WokenTwice ==
  ASSUME NEW x, NEW y, NEW z, NEW L, NEW M, NEW N, Woken(x, L, y, M), Woken(y, M, z, N)
  PROVE  Woken(x, L, z, N)
<1>1. Alike(x, z)
  BY DEF Woken, Alike
<1> QED
  BY <1>1 DEF Woken

\* A thread is given another time to wake up.
LEMMA RuntimeSet ==
  ASSUME NEW x, NEW L, Sound(x, L), NEW p \in Threads, NEW v \in Int
  PROVE  LET y == [x EXCEPT !.runtime[p] = v]
         IN  /\ Sound(y, L) /\ y.runtime = [x.runtime EXCEPT ![p] = v]
             /\ (v \in {NoTime, WokenEarly} => Woken(x, L, y, L))
             /\ y.delayq = x.delayq /\ y.fdwait = x.fdwait /\ y.fd = x.fd
<1> DEFINE r == [x.runtime EXCEPT ![p] = v]
           y == [x EXCEPT !.runtime = r]
<1>1. x \in Data /\ x.runtime \in [Threads -> Int]
  BY DEF Sound, Data
<1>2. r \in [Threads -> Int] /\ \A t \in Threads : r[t] = IF t = p THEN v ELSE x.runtime[t]
  BY <1>1
<1> HIDE DEF r
<1>3. y \in Data
  BY <1>1, <1>2 DEF Data
<1>4. /\ y.runtime = r
      /\ y.fds = x.fds /\ y.nfds = x.nfds /\ y.fdwait = x.fdwait /\ y.fd = x.fd
      /\ y.sched = x.sched /\ y.delayq = x.delayq /\ y.oops = x.oops
      /\ y.cur = x.cur /\ y.deadq = x.deadq /\ y.dead = x.dead /\ y.freed = x.freed
      /\ y.maxfd = x.maxfd /\ y.waiter = x.waiter
  BY <1>1 DEF Data
<1> HIDE DEF y
<1>5. Sleepers(y, L) = Sleepers(x, L) /\ ReadySet(y) = ReadySet(x)
  BY <1>4 DEF Sleepers, ReadySet, FdWaiters
<1>6. FdsAgree(y)
  BY <1>4 DEF Sound, FdsAgree
<1>7. Sound(y, L)
  BY <1>3, <1>4, <1>5, <1>6 DEF Sound
<1>8. v \in {NoTime, WokenEarly} => Woken(x, L, y, L)
  BY <1>2, <1>4, <1>5 DEF Woken, Alike
<1> QED
  BY <1>4, <1>7, <1>8 DEF y, r

\* A thread that was taken out of LwpDelayq goes back in.
LEMMA SleepOn ==
  ASSUME NEW x, NEW L, Sound(x, L), NEW p \in L
  PROVE  LET y == [x EXCEPT !.delayq = Append(@, p)]
         IN  /\ Sound(y, L \ {p}) /\ Woken(x, L, y, L \ {p})
             /\ ToSet(y.delayq) = ToSet(x.delayq) \cup {p} /\ y.runtime = x.runtime
             /\ y.delayq \in Queue(Workers) /\ y.delayq = Append(x.delayq, p)
<1> DEFINE d == Append(x.delayq, p)
           y == [x EXCEPT !.delayq = d]
<1>1. x \in Data /\ p \in Workers /\ p \in Threads /\ p \notin ToSet(x.delayq) /\ x.delayq \in Queue(Workers)
  BY WorkersThreads DEF Sound
<1>2. d \in Queue(Workers) /\ ToSet(d) = ToSet(x.delayq) \cup {p}
  BY <1>1, AppendQueue
<1>3. d \in Seq(Threads)
  BY <1>1 DEF Data
<1> HIDE DEF d
<1>4. y \in Data
  BY <1>1, <1>3 DEF Data
<1>5. /\ y.delayq = d
      /\ y.fds = x.fds /\ y.nfds = x.nfds /\ y.fdwait = x.fdwait /\ y.fd = x.fd
      /\ y.sched = x.sched /\ y.runtime = x.runtime /\ y.oops = x.oops
      /\ y.cur = x.cur /\ y.deadq = x.deadq /\ y.dead = x.dead /\ y.freed = x.freed
      /\ y.maxfd = x.maxfd /\ y.waiter = x.waiter
  BY <1>1 DEF Data
<1> HIDE DEF y
<1>6. Sleepers(y, L \ {p}) = Sleepers(x, L) /\ ReadySet(y) = ReadySet(x)
  BY <1>2, <1>5 DEF Sleepers, ReadySet, FdWaiters
<1>7. FdsAgree(y)
  BY <1>5 DEF Sound, FdsAgree
<1>8. Sound(y, L \ {p})
  BY <1>2, <1>4, <1>5, <1>6, <1>7 DEF Sound
<1>9. Woken(x, L, y, L \ {p})
  BY <1>5, <1>6 DEF Woken, Alike
<1> QED
  BY <1>2, <1>5, <1>8, <1>9 DEF y, d

\* One round of lwpWakeupSleep().
LEMMA WakeIfDueKeeps ==
  ASSUME NEW x, NEW L, Sound(x, L), Timed(x), NEW p \in L, now \in Nat \ {0}
  PROVE  LET y == WakeIfDue(x, p)
         IN  Sound(y, L \ {p}) /\ Timed(y) /\ Woken(x, L, y, L \ {p})
<1>1. x \in Data /\ x.runtime \in [Threads -> Int] /\ p \in Workers /\ p \in Threads /\ p \notin ToSet(x.delayq)
      /\ x.delayq \in Queue(Workers)
  BY WorkersThreads DEF Sound, Data
<1>2. CASE now < x.runtime[p]
  <2> DEFINE y == [x EXCEPT !.delayq = Append(@, p)]
  <2>1. WakeIfDue(x, p) = y
    BY <1>2 DEF WakeIfDue
  <2>2. /\ Sound(y, L \ {p}) /\ Woken(x, L, y, L \ {p})
        /\ ToSet(y.delayq) = ToSet(x.delayq) \cup {p} /\ y.runtime = x.runtime
    BY SleepOn
  <2> HIDE DEF y
  <2>3. x.runtime[p] > 0
    BY <1>1, <1>2
  <2>4. Timed(y)
    BY <2>2, <2>3 DEF Timed
  <2> QED
    BY <2>1, <2>2, <2>4
<1>3. CASE ~(now < x.runtime[p])
  <2> DEFINE z == IF x.runtime[p] = WokenEarly THEN x ELSE [x EXCEPT !.runtime[p] = NoTime]
             y == WakeIfDue(x, p)
  <2>1. y = IF z.fd[p] >= 0 THEN WakeupFd(z, p) ELSE Ready(z, p)
    BY <1>3 DEF WakeIfDue
  <2>2. Woken(x, L, x, L)
    BY DEF Woken, Alike
  <2>3. Sound(z, L) /\ Woken(x, L, z, L) /\ z.delayq = x.delayq
        /\ z.runtime[p] \in {NoTime, WokenEarly} /\ \A t \in Threads : t # p => z.runtime[t] = x.runtime[t]
    <3>1. CASE x.runtime[p] = WokenEarly
      BY <2>2, <3>1
    <3>2. CASE x.runtime[p] # WokenEarly
      <4>1. NoTime \in Int
        BY DEF NoTime
      <4>2. /\ Sound(z, L) /\ z.runtime = [x.runtime EXCEPT ![p] = NoTime] /\ Woken(x, L, z, L)
            /\ z.delayq = x.delayq
        BY <1>1, <3>2, <4>1, RuntimeSet
      <4> QED
        BY <1>1, <4>2
    <3> QED
      BY <3>1, <3>2
  <2> HIDE DEF y, z
  <2>4. Timed(z)
    BY <1>1, <2>3, QueueIsEmpty, WorkersThreads DEF Timed
  <2>5. CASE z.fd[p] >= 0
    <3>1. p \in FdWaiters(z) /\ z.fd[p] \in 0..z.maxfd
      BY <1>1, <2>3, <2>5, FdInRange
    <3>2. y = LeaveFd(z, p)
      BY <2>1, <2>3, <2>5, <3>1 DEF WakeupFd, InDelayq
    <3>3. Sound(y, L \ {p}) /\ Woken(z, L, y, L \ {p}) /\ y.delayq = z.delayq /\ y.runtime = z.runtime
      BY <1>1, <2>3, <3>1, <3>2, LeaveFdKeeps
    <3>4. Woken(x, L, y, L \ {p})
      BY <2>3, <3>3, WokenTwice
    <3> QED
      BY <2>4, <3>3, <3>4 DEF Timed, y
  <2>6. CASE ~(z.fd[p] >= 0)
    <3>1. p \notin FdWaiters(z) /\ y = Ready(z, p)
      BY <1>1, <2>1, <2>3, <2>6, FdInRange
    <3>2. Sound(y, L \ {p}) /\ Woken(z, L, y, L \ {p})
      BY <2>3, <3>1, ReadySleeper
    <3>3. y.delayq = z.delayq /\ y.runtime = z.runtime
      BY <1>1, <2>3, <3>1, ReadyFields DEF Sound
    <3>4. Woken(x, L, y, L \ {p})
      BY <2>3, <3>2, WokenTwice
    <3> QED
      BY <2>4, <3>2, <3>3, <3>4 DEF Timed, y
  <2> QED
    BY <2>5, <2>6
<1> QED
  BY <1>2, <1>3

-----------------------------------------------------------------------------
(* The loop of lwpWakeupSleep(). *)

LEMMA OopsData == ASSUME NEW x \in Data PROVE [x EXCEPT !.oops = TRUE] \in Data
BY DEF Data

\* A time to wake up is only data of a thread.
LEMMA RuntimeData ==
  ASSUME NEW x \in Data, NEW p \in Threads, NEW v \in Int
  PROVE  [x EXCEPT !.runtime[p] = v] \in Data
<1>1. [x.runtime EXCEPT ![p] = v] \in [Threads -> Int]
  BY DEF Data
<1> QED
  BY <1>1 DEF Data

\* The tail of lwpWakeupFd() makes data of data.
LEMMA LeaveFdData ==
  ASSUME NEW x \in Data, NEW p \in Threads
  PROVE  LeaveFd(x, p) \in Data
<1> DEFINE z == [x EXCEPT !.fds = x.fds \ {x.fd[p]}, !.nfds = x.nfds - 1,
                          !.fdwait = [x.fdwait EXCEPT ![x.fd[p]] = None], !.fd = [x.fd EXCEPT ![p] = -1]]
<1>1. LeaveFd(x, p) = Ready(z, p)
  BY DEF LeaveFd
<1>2. [x.fdwait EXCEPT ![x.fd[p]] = None] \in [Fds -> Threads \cup {None}]
  BY DEF Data
<1>3. [x.fd EXCEPT ![p] = -1] \in [Threads -> Int]
  <2>1. -1 \in Int
    OBVIOUS
  <2> QED
    BY <2>1 DEF Data
<1>4. x.nfds - 1 \in Int /\ x.fds \ {x.fd[p]} \in SUBSET Fds
  BY DEF Data
<1>5. z \in Data
  BY <1>2, <1>3, <1>4 DEF Data
<1> HIDE DEF z
<1> QED
  BY <1>1, <1>5, ReadyFields

\* So does lwpWakeupFd(),
LEMMA WakeupFdData ==
  ASSUME NEW x \in Data, NEW p \in Threads
  PROVE  WakeupFd(x, p) \in Data
<1>1. NoTime \in Int
  BY DEF NoTime
<1> QED
  BY <1>1, OopsData, RuntimeData, LeaveFdData DEF WakeupFd

\* and a round of lwpWakeupSleep().
LEMMA WakeIfDueData ==
  ASSUME NEW x \in Data, NEW p \in Threads
  PROVE  WakeIfDue(x, p) \in Data
<1>1. NoTime \in Int
  BY DEF NoTime
<1>2. [x EXCEPT !.delayq = Append(@, p)] \in Data
  <2>1. Append(x.delayq, p) \in Seq(Threads)
    BY DEF Data
  <2> QED
    BY <2>1 DEF Data
<1> DEFINE y == IF x.runtime[p] = WokenEarly THEN x ELSE [x EXCEPT !.runtime[p] = NoTime]
<1>3. y \in Data
  BY <1>1, RuntimeData
<1> HIDE DEF y
<1>4. WakeupFd(y, p) \in Data /\ Ready(y, p) \in Data
  BY <1>3, WakeupFdData, ReadyFields
<1> QED
  BY <1>2, <1>4 DEF WakeIfDue, y

\* What the loop has made of the data after each round.
LEMMA WakeupSleepRounds ==
  ASSUME NEW x \in Data, NEW q \in Seq(Threads)
  PROVE  \E acc : /\ acc[0] = x
                  /\ \A i \in 1..Len(q) : acc[i] = WakeIfDue(acc[i - 1], q[i])
                  /\ FoldLeft(WakeIfDue, x, q) = acc[Len(q)]
<1> DEFINE F == [y \in Data |-> [p \in Threads |-> WakeIfDue(y, p)]]
           Is(h) == h = [s \in SUBSET DOMAIN q |->
                           IF s = {} THEN x ELSE WakeIfDue(h[s \ {Max(s)}], q[Max(s)])]
           iter == CHOOSE h : Is(h)
           acc == [i \in 0..Len(q) |-> iter[1..i]]
<1>1. Len(q) \in Nat /\ DOMAIN q = 1..Len(q)
  BY LenProperties
<1>2. F \in [Data -> [Threads -> Data]]
  BY WakeIfDueData
<1>3. \E h : Is(h)
  <2>0. Folds(Data, Len(q), x, F, q)
    <3> HIDE DEF F
    <3> QED
      BY <1>2, FoldExists
  <2>1. PICK h : h \in [SUBSET (1..Len(q)) -> Data] /\ Recurs(h, Len(q), x, F, q)
    BY <2>0 DEF Folds
  <2>2. ASSUME NEW s \in SUBSET DOMAIN q, s # {}
        PROVE  h[s \ {Max(s)}] \in Data /\ q[Max(s)] \in Threads
    <3>1. Max(s) \in s
      BY <1>1, <2>2, MaxOfSome
    <3> QED
      BY <1>1, <2>1, <3>1, ElementOfSeq
  <2>3. \A s \in SUBSET DOMAIN q : s # {} => F[h[s \ {Max(s)}]][q[Max(s)]] = WakeIfDue(h[s \ {Max(s)}], q[Max(s)])
    BY <2>2
  <2> HIDE DEF F
  <2>4. \A s \in SUBSET DOMAIN q : h[s] = IF s = {} THEN x ELSE WakeIfDue(h[s \ {Max(s)}], q[Max(s)])
    BY <1>1, <2>1, <2>3 DEF Recurs
  <2> QED
    BY <1>1, <2>1, <2>4
<1>4. Is(iter)
  BY <1>3
<1>5. FoldLeft(WakeIfDue, x, q) = iter[1..Len(q)]
  BY <1>1 DEF FoldLeft, MapThenFoldSet
<1> HIDE DEF iter
<1>6. acc[0] = x
  <2>1. 1..0 = {} /\ {} \in SUBSET DOMAIN q /\ 0 \in 0..Len(q)
    BY <1>1
  <2> QED
    BY <1>4, <2>1
<1>7. ASSUME NEW i \in 1..Len(q)
      PROVE  acc[i] = WakeIfDue(acc[i - 1], q[i])
  <2>1. 1..i \in SUBSET (1..Len(q)) /\ 1..i # {} /\ Max(1..i) = i /\ (1..i) \ {Max(1..i)} = 1..i - 1
    BY <1>1, UpTo
  <2>2. i \in 0..Len(q) /\ i - 1 \in 0..Len(q)
    BY <1>1
  <2>3. iter[1..i] = WakeIfDue(iter[(1..i) \ {Max(1..i)}], q[Max(1..i)])
    BY <1>1, <1>4, <2>1
  <2> QED
    BY <2>1, <2>2, <2>3
<1>8. acc[Len(q)] = iter[1..Len(q)]
  BY <1>1
<1> QED
  BY <1>5, <1>6, <1>7, <1>8

\* Threads of a queue that come after the i-th.
LEMMA LaterOnes ==
  ASSUME NEW S, NEW q \in Queue(S), NEW i \in Nat, i < Len(q)
  PROVE  /\ q[i + 1] \in {q[j] : j \in i + 1..Len(q)}
         /\ {q[j] : j \in i + 1..Len(q)} \ {q[i + 1]} = {q[j] : j \in i + 2..Len(q)}
<1>1. Len(q) \in Nat /\ \A j, l \in 1..Len(q) : q[j] = q[l] => j = l
  BY LenProperties DEF Queue
<1>2. i + 1 \in i + 1..Len(q) /\ i + 1 \in 1..Len(q)
  BY <1>1
<1>3. \A j \in i + 1..Len(q) : j \in 1..Len(q) /\ (j = i + 1 \/ j \in i + 2..Len(q))
  BY <1>1
<1>4. \A j \in i + 2..Len(q) : j \in i + 1..Len(q) /\ j \in 1..Len(q) /\ j # i + 1
  BY <1>1
<1> QED
  BY <1>1, <1>2, <1>3, <1>4

\* lwpWakeupSleep() loses no sleeper, and who sleeps on has a time to wake up.
LEMMA WakeupSleepKeeps ==
  ASSUME NEW x, Sound(x, {}), now \in Nat \ {0}
  PROVE  LET y == WakeupSleep(x)
         IN  Sound(y, {}) /\ Timed(y) /\ Woken(x, {}, y, {})
<1> DEFINE q == x.delayq
           b == [x EXCEPT !.delayq = <<>>]
           Left(i) == {q[j] : j \in i + 1..Len(q)}
<1>1. x \in Data /\ q \in Queue(Workers) /\ q \in Seq(Threads) /\ Len(q) \in Nat /\ DOMAIN q = 1..Len(q)
  BY LenProperties DEF Sound, Data, Queue
<1>2. b \in Data
  <2>1. <<>> \in Seq(Threads)
    OBVIOUS
  <2> QED
    BY <1>1, <2>1 DEF Data
<1>3. /\ b.delayq = <<>>
      /\ b.fds = x.fds /\ b.nfds = x.nfds /\ b.fdwait = x.fdwait /\ b.fd = x.fd
      /\ b.sched = x.sched /\ b.runtime = x.runtime /\ b.oops = x.oops
      /\ b.cur = x.cur /\ b.deadq = x.deadq /\ b.dead = x.dead /\ b.freed = x.freed
      /\ b.maxfd = x.maxfd /\ b.waiter = x.waiter
  BY <1>1 DEF Data
<1>4. WakeupSleep(x) = FoldLeft(WakeIfDue, b, q)
  BY DEF WakeupSleep
<1> HIDE DEF b
<1>5. Left(0) = ToSet(q) /\ Left(Len(q)) = {}
  <2>1. 0 + 1 = 1 /\ Len(q) + 1..Len(q) = {}
    BY <1>1
  <2> QED
    BY <1>1, <2>1 DEF ToSet
<1>6. Sound(b, Left(0)) /\ Timed(b) /\ Woken(x, {}, b, Left(0))
  <2>1. ToSet(q) \subseteq Workers /\ b.delayq \in Queue(Workers) /\ ToSet(b.delayq) = {}
    BY <1>1, <1>3, QueueIsEmpty, EmptyIsQueue
  <2>2. Sleepers(b, Left(0)) = Sleepers(x, {}) /\ ReadySet(b) = ReadySet(x)
    BY <1>3, <1>5, <2>1 DEF Sleepers, ReadySet, FdWaiters
  <2>3. FdsAgree(b)
    BY <1>3 DEF Sound, FdsAgree
  <2>4. Sound(b, Left(0))
    BY <1>2, <1>3, <1>5, <2>1, <2>2, <2>3 DEF Sound
  <2>5. Timed(b)
    BY <2>1 DEF Timed
  <2>6. Woken(x, {}, b, Left(0))
    BY <1>3, <2>2 DEF Woken, Alike
  <2> QED
    BY <2>4, <2>5, <2>6
<1>7. PICK acc : /\ acc[0] = b
                 /\ \A i \in 1..Len(q) : acc[i] = WakeIfDue(acc[i - 1], q[i])
                 /\ FoldLeft(WakeIfDue, b, q) = acc[Len(q)]
  BY <1>1, <1>2, WakeupSleepRounds
<1> DEFINE Kept(i) == Sound(acc[i], Left(i)) /\ Timed(acc[i]) /\ Woken(x, {}, acc[i], Left(i))
           N == {i \in 0..Len(q) : Kept(i)}
<1>8. 0 \in N
  BY <1>1, <1>6, <1>7
<1>9. ASSUME NEW i \in 0..Len(q), i \in N, i < Len(q)
      PROVE  i + 1 \in N
  <2>1. i \in Nat /\ i + 1 \in 1..Len(q) /\ i + 1 \in 0..Len(q) /\ (i + 1) - 1 = i /\ (i + 1) + 1 = i + 2
    BY <1>1, <1>9
  <2>2. q[i + 1] \in Left(i) /\ Left(i + 1) = Left(i) \ {q[i + 1]}
    <3>1. /\ q[i + 1] \in {q[j] : j \in i + 1..Len(q)}
          /\ {q[j] : j \in i + 1..Len(q)} \ {q[i + 1]} = {q[j] : j \in i + 2..Len(q)}
      BY <1>1, <1>9, <2>1, LaterOnes
    <3> QED
      BY <2>1, <3>1
  <2> HIDE DEF Left
  <2>3. Sound(acc[i], Left(i)) /\ Timed(acc[i]) /\ Woken(x, {}, acc[i], Left(i))
    BY <1>9
  <2>4. acc[i + 1] = WakeIfDue(acc[i], q[i + 1])
    BY <1>7, <2>1
  <2>5. Sound(acc[i + 1], Left(i + 1)) /\ Timed(acc[i + 1]) /\ Woken(acc[i], Left(i), acc[i + 1], Left(i + 1))
    <3> DEFINE a == acc[i]
               L == Left(i)
               p == q[i + 1]
    <3>1. Sound(a, L) /\ Timed(a) /\ p \in L
      BY <2>2, <2>3
    <3> HIDE DEF a, L, p
    <3>2. /\ Sound(WakeIfDue(a, p), L \ {p}) /\ Timed(WakeIfDue(a, p))
          /\ Woken(a, L, WakeIfDue(a, p), L \ {p})
      BY <3>1, WakeIfDueKeeps
    <3> QED
      BY <2>2, <2>4, <3>2 DEF a, L, p
  <2>6. Woken(x, {}, acc[i + 1], Left(i + 1))
    BY <2>3, <2>5, WokenTwice
  <2> QED
    BY <2>1, <2>5, <2>6
<1> HIDE DEF N
<1>10. Len(q) \in N
  <2>1. 0..Len(q) \subseteq N
    BY <1>1, <1>8, <1>9, NatsBySteps
  <2> QED
    BY <1>1, <2>1
<1> HIDE DEF Left
<1>11. Kept(Len(q))
  BY <1>10 DEF N
<1> QED
  BY <1>4, <1>5, <1>7, <1>11

-----------------------------------------------------------------------------
(***************************************************************************)
(* lwpReschedule().                                                        *)
(***************************************************************************)

\* What is woken was asleep.
LEMMA WokenFewer ==
  ASSUME NEW x, NEW y, Sound(y, {}), Woken(x, {}, y, {})
  PROVE  Sleepers(y, {}) \subseteq Sleepers(x, {})
BY DEF Woken, Sound

\* To wake somebody puts nobody in two places and loses nobody.
LEMMA WokenApart ==
  ASSUME NEW x, NEW y, NEW E, NEW U, Sound(x, {}), Sound(y, {}), Woken(x, {}, y, {}), Apart(x, E, U), Mortal(x)
  PROVE  Apart(y, E, U) /\ Mortal(y)
<1>1. /\ y.deadq = x.deadq /\ y.freed = x.freed /\ y.waiter = x.waiter /\ y.dead = x.dead
      /\ ReadySet(y) \cup Sleepers(y, {}) = ReadySet(x) \cup Sleepers(x, {})
  BY DEF Woken, Alike
<1>2. Sleepers(y, {}) \subseteq Sleepers(x, {})
  BY WokenFewer
<1>3. \A t \in ReadySet(y) : t \notin Sleepers(y, {})
  BY DEF Sound
<1>4. Apart(y, E, U)
  BY <1>1, <1>2, <1>3 DEF Apart
<1>5. Mortal(y)
  BY <1>1, <1>2 DEF Mortal
<1> QED
  BY <1>4, <1>5

\* lwpSigWakeup() moves the thread that waits for a signal to the run queue.
LEMMA SigWakeupKeeps ==
  ASSUME NEW x, NEW E \in SUBSET Threads, NEW U, Sound(x, {}), Apart(x, E, U), Mortal(x)
  PROVE  LET y == SigWakeup(x)
         IN  /\ Sound(y, {}) /\ Apart(y, E, U) /\ Mortal(y)
             /\ Alike(x, y) /\ y.waiter \in {x.waiter, None} /\ Sleepers(y, {}) = Sleepers(x, {})
             /\ y.runtime = x.runtime
             /\ ReadySet(y) = ReadySet(x) \cup ({x.waiter} \ {y.waiter})
<1>1. x \in Data /\ x.waiter \in Threads \cup {None}
  BY DEF Sound, Data
<1>2. CASE ~(x.waiter # None /\ x.check)
  <2>1. SigWakeup(x) = x
    BY <1>2 DEF SigWakeup
  <2> QED
    BY <2>1 DEF Alike
<1>3. CASE x.waiter # None /\ x.check
  <2> DEFINE w == x.waiter
             z == Ready(x, w)
             y == [z EXCEPT !.waiter = None]
  <2>1. SigWakeup(x) = y /\ w \in Threads
    BY <1>1, <1>3 DEF SigWakeup
  <2>2. /\ z \in Data /\ Alike(x, z) /\ z.waiter = x.waiter /\ z.oops = x.oops
        /\ z.sched[1] = AddTail(x.sched[1], w)
        /\ z.delayq = x.delayq /\ z.fds = x.fds /\ z.nfds = x.nfds /\ z.fdwait = x.fdwait
        /\ z.fd = x.fd /\ z.runtime = x.runtime
    BY <1>1, <2>1, ReadyFields
  <2> HIDE DEF z
  <2>3. y \in Data
    BY <2>2 DEF Data
  <2>4. /\ y.cur = z.cur /\ y.deadq = z.deadq /\ y.dead = z.dead /\ y.freed = z.freed
        /\ y.maxfd = z.maxfd /\ y.sched = z.sched /\ y.oops = z.oops /\ y.waiter = None
        /\ y.delayq = z.delayq /\ y.fds = z.fds /\ y.nfds = z.nfds /\ y.fdwait = z.fdwait
        /\ y.fd = z.fd /\ y.runtime = z.runtime
    BY <2>2 DEF Data
  <2> HIDE DEF y
  <2>5. x.sched[1] \in Queue(Threads) /\ w \notin ReadySet(x) /\ w \notin Sleepers(x, {})
        /\ w \notin ToSet(x.deadq) \cup x.freed \cup E
    BY DEF Sound, Apart
  <2>6. y.sched[1] \in Queue(Threads) /\ ReadySet(y) = ReadySet(x) \cup {w}
    BY <2>1, <2>2, <2>4, <2>5, AddTailIs DEF ReadySet
  <2>7. Alike(x, y) /\ y.runtime = x.runtime /\ y.delayq = x.delayq /\ y.oops = x.oops
    BY <2>2, <2>4 DEF Alike
  <2>8. Sleepers(y, {}) = Sleepers(x, {}) /\ FdsAgree(y)
    BY <2>2, <2>4 DEF Sleepers, FdWaiters, FdsAgree, Sound, Alike
  <2>9. Sound(y, {})
    BY <2>3, <2>5, <2>6, <2>7, <2>8 DEF Sound, Alike
  <2>10. Apart(y, E, U)
    <3>1. y.deadq = x.deadq /\ y.freed = x.freed /\ y.waiter = None /\ y.deadq \in Queue(Threads)
      BY <2>4, <2>7 DEF Alike, Apart
    <3>2. None \notin ReadySet(y) \cup Sleepers(y, {}) \cup ToSet(y.deadq) \cup y.freed
      <4>1. ReadySet(y) \subseteq Threads /\ ToSet(y.deadq) \subseteq Threads
        BY <2>6, <3>1, QueueIsEmpty DEF ReadySet
      <4>2. y.freed \subseteq Threads
        BY <2>3 DEF Data
      <4>3. ToSet(y.delayq) \subseteq Threads
        BY <2>9, QueueIsEmpty, WorkersThreads DEF Sound
      <4> QED
        BY <4>1, <4>2, <4>3, WorkersThreads DEF Sleepers, FdWaiters
    <3>3. None \notin E
      BY WorkersThreads
    <3> QED
      BY <2>1, <2>5, <2>6, <2>8, <3>1, <3>2, <3>3, WorkersThreads DEF Apart
  <2>11. Mortal(y)
    <3>1. y.dead \subseteq Threads /\ None \notin y.dead
      BY <2>3, WorkersThreads DEF Data
    <3> QED
      BY <2>4, <2>7, <2>8, <3>1 DEF Mortal, Alike
  <2> QED
    BY <1>3, <2>1, <2>4, <2>6, <2>7, <2>8, <2>9, <2>10, <2>11
<1> QED
  BY <1>2, <1>3

\* The threads lwpReschedule() passes over are dead, and the next is not.
LEMMA PrefixIsDead ==
  ASSUME NEW x, Sound(x, {})
  PROVE  LET q == x.sched[1]
             n == DeadPrefix(x)
         IN  /\ n \in 0..Len(q)
             /\ {q[i] : i \in 1..n} \subseteq x.dead
             /\ n < Len(q) => q[n + 1] \notin x.dead
<1> DEFINE q == x.sched[1]
           n == DeadPrefix(x)
           live == {i \in DOMAIN q : q[i] \notin x.dead}
<1>1. Len(q) \in Nat /\ DOMAIN q = 1..Len(q)
  <2>1. q \in Queue(Threads)
    BY DEF Sound
  <2> QED
    BY <2>1, LenProperties DEF Queue
<1>2. CASE live = {}
  <2>1. n = Len(q)
    BY <1>2 DEF DeadPrefix
  <2>2. \A i \in DOMAIN q : q[i] \in x.dead
    BY <1>2
  <2> HIDE DEF n, q
  <2>3. n \in 0..Len(q) /\ ~(n < Len(q))
    BY <1>1, <2>1
  <2>4. \A i \in 1..n : q[i] \in x.dead
    BY <1>1, <2>1, <2>2
  <2> QED
    BY <2>3, <2>4 DEF n, q
<1>3. CASE live # {}
  <2>1. n = Min(live) - 1
    BY <1>3 DEF DeadPrefix
  <2> HIDE DEF n, q
  <2>2. live \in SUBSET Nat
    BY <1>1
  <2>3. Min(live) \in live /\ \A m \in live : Min(live) <= m
    BY <1>3, <2>2, MinOfSome
  <2>4. PICK l \in live : l = Min(live) /\ \A m \in live : l <= m
    BY <2>3
  <2>5. l \in 1..Len(q) /\ n = l - 1 /\ q[l] \notin x.dead
    BY <1>1, <2>1, <2>4
  <2>6. n \in 0..Len(q) /\ n + 1 = l
    BY <1>1, <2>5
  <2>7. ASSUME NEW i \in 1..n PROVE q[i] \in x.dead
    <3>1. i \in 1..Len(q) /\ ~(l <= i)
      BY <1>1, <2>5
    <3> QED
      BY <1>1, <2>4, <3>1
  <2> QED
    BY <2>5, <2>6, <2>7 DEF n, q
<1> QED
  BY <1>2, <1>3

\* The second half of lwpReschedule() frees the dead and finds a thread to run.
LEMMA PickNextKeeps ==
  ASSUME NEW x, NEW U, NEW m \in U,
         Sound(x, {}), Timed(x), Apart(x, {}, U), Mortal(x), x.cur \in Procs, x.cur \notin ToSet(x.deadq),
         x.sched[0] = <<>> => Idle(x), m \notin x.dead, m # x.waiter
  PROVE  LET y == PickNext(x)
         IN  /\ Sound(y, {}) /\ Timed(y) /\ Mortal(y)
             /\ y.cur \in Procs /\ y.cur \notin y.dead /\ Apart(y, {y.cur} \cap Threads, U)
             /\ y.dead = x.dead /\ y.waiter = x.waiter /\ y.runtime = x.runtime
             /\ Sleepers(y, {}) = Sleepers(x, {})
             /\ y.cur = Select => y.sched[0] = <<>>
             /\ y.cur # Select /\ y.sched[0] = <<>> => Idle(y)
<1> DEFINE q == x.sched[1]
           n == DeadPrefix(x)
           bodies == ToSet(SubSeq(q, 1, n))
           rest == SubSeq(q, n + 1, Len(q))
           freed == ToSet(x.deadq) \cup Buried(x, bodies)
           next == CASE rest # <<>> -> Head(rest)
                     [] rest = <<>> /\ x.sched[0] # <<>> -> Head(x.sched[0])
                     [] OTHER -> None
           dq == SetToSeq(bodies \ freed)
           one == IF rest = <<>> THEN rest ELSE Tail(rest)
           zero == IF next = Select THEN Tail(x.sched[0]) ELSE x.sched[0]
           sc == [x.sched EXCEPT ![1] = one, ![0] = zero]
           y == [x EXCEPT !.deadq = dq, !.freed = x.freed \cup freed, !.sched = sc, !.cur = next,
                          !.oops = x.oops \/ next = None \/ x.cur \in freed]
<1>1. PickNext(x) = y
  BY DEF PickNext
<1>2. /\ x \in Data /\ q \in Queue(Threads) /\ x.sched[0] \in {<<>>, <<Select>>}
      /\ x.sched \in [0..1 -> Seq(Procs)] /\ ~x.oops /\ x.freed \in SUBSET Threads
      /\ x.deadq \in Queue(Threads) /\ x.dead \subseteq Workers
  BY DEF Sound, Data, Apart, Mortal
<1>3. n \in 0..Len(q) /\ {q[i] : i \in 1..n} \subseteq x.dead /\ (n < Len(q) => q[n + 1] \notin x.dead)
  BY PrefixIsDead
<1> HIDE DEF q, n
<1>4. /\ bodies = {q[i] : i \in 1..n} /\ bodies \subseteq ToSet(q) /\ rest \in Queue(Threads)
      /\ ToSet(rest) = ToSet(q) \ bodies
      /\ (rest = <<>> <=> n = Len(q)) /\ (n < Len(q) => Head(rest) = q[n + 1])
  BY <1>2, <1>3, SplitQueue
<1>5. bodies \subseteq x.dead /\ bodies \subseteq ReadySet(x)
  BY <1>3, <1>4 DEF ReadySet, q
<1> HIDE DEF bodies, rest
<1>6. bodies \ freed = bodies \cap {x.cur} /\ x.cur \notin freed /\ freed \subseteq Threads /\ freed \subseteq x.dead
  <2>1. bodies \cap ToSet(x.deadq) = {}
    BY <1>5 DEF Apart
  <2>2. ToSet(x.deadq) \subseteq x.dead /\ x.dead \subseteq Threads
    BY <1>2, WorkersThreads DEF Mortal
  <2> QED
    BY <1>5, <2>1, <2>2 DEF Buried
<1>7. /\ dq \in Queue(Threads) /\ ToSet(dq) = bodies \cap {x.cur} /\ dq \in Seq(Threads)
  <2>1. bodies \cap {x.cur} \subseteq Threads /\ IsFiniteSet(bodies \cap {x.cur})
    <3>1. IsFiniteSet({x.cur})
      BY FS_Singleton
    <3>2. IsFiniteSet(bodies \cap {x.cur})
      BY <3>1, FS_Subset
    <3>3. bodies \subseteq Threads
      BY <1>2, <1>5, WorkersThreads
    <3> QED
      BY <3>2, <3>3
  <2>2. SetToSeq(bodies \cap {x.cur}) \in Queue(Threads) /\ ToSet(SetToSeq(bodies \cap {x.cur})) = bodies \cap {x.cur}
    BY <2>1, SetToSeqIs
  <2> QED
    BY <1>6, <2>2 DEF Queue
<1> HIDE DEF freed, dq
<1>8. /\ next \in Procs /\ next # None
      /\ next = Select => rest = <<>> /\ x.sched[0] = <<Select>>
      /\ next # Select => rest # <<>> /\ next = Head(rest) /\ next \in Threads
      /\ next \notin x.dead
  <2>1. CASE rest # <<>>
    <3>1. next = Head(rest) /\ Head(rest) \in Threads
      BY <1>4, <2>1, TailQueue
    <3>2. Head(rest) \notin x.dead
      BY <1>2, <1>3, <1>4, <2>1, LenProperties DEF Queue
    <3> QED
      BY <2>1, <3>1, <3>2, WorkersThreads
  <2>2. CASE rest = <<>>
    <3>1. m \notin ReadySet(x)
      <4>1. ReadySet(x) = bodies
        BY <1>4, <1>5, <2>2, QueueIsEmpty DEF ReadySet, q
      <4> QED
        BY <1>5, <4>1
    <3>2. m \in Sleepers(x, {})
      BY <3>1 DEF Apart, Mortal
    <3>3. x.sched[0] = <<Select>>
      BY <1>2, <3>2 DEF Idle
    <3>4. next = Select
      BY <2>2, <3>3
    <3>5. Select \in Procs /\ Select # None /\ Select \notin x.dead
      BY <1>2, WorkersThreads, ConstantsAssumption DEF Procs
    <3> QED
      BY <2>2, <3>3, <3>4, <3>5
  <2> QED
    BY <2>1, <2>2
<1>9. /\ one \in Queue(Threads) /\ zero \in {<<>>, <<Select>>}
      /\ ToSet(one) = ToSet(rest) \ {next}
      /\ next # Select => next \in ToSet(rest)
      /\ next = Select => zero = <<>>
      /\ next # Select => zero = x.sched[0]
  <2>1. CASE next = Select
    <3>1. rest = <<>> /\ x.sched[0] = <<Select>> /\ zero = Tail(x.sched[0]) /\ one = rest
      BY <1>8, <2>1
    <3>2. zero = <<>>
      BY <3>1
    <3>3. ToSet(rest) = {}
      BY <1>4, <3>1, QueueIsEmpty
    <3> HIDE DEF one, zero, next
    <3> QED
      BY <1>4, <2>1, <3>1, <3>2, <3>3
  <2>2. CASE next # Select
    <3>1. rest # <<>> /\ next = Head(rest) /\ one = Tail(rest) /\ zero = x.sched[0]
      BY <1>8, <2>2
    <3>2. Tail(rest) \in Queue(Threads) /\ Head(rest) \in ToSet(rest) /\ ToSet(Tail(rest)) = ToSet(rest) \ {Head(rest)}
      BY <1>4, <3>1, TailQueue
    <3> HIDE DEF one, zero, next
    <3> QED
      BY <1>2, <2>2, <3>1, <3>2
  <2> QED
    BY <2>1, <2>2
<1> HIDE DEF next, one, zero
<1>10. sc \in [0..1 -> Seq(Procs)] /\ sc[1] = one /\ sc[0] = zero
  <2>1. one \in Seq(Procs)
    BY <1>9, WorkersThreads DEF Queue
  <2>2. zero \in Seq(Procs)
    <3>1. <<>> \in Seq(Procs) /\ Select \in Procs
      BY DEF Procs
    <3>2. <<Select>> \in Seq(Procs)
      BY <3>1
    <3> QED
      BY <1>9, <3>1, <3>2
  <2> QED
    BY <1>2, <2>1, <2>2
<1> HIDE DEF sc
<1>11. y \in Data
  <2>1. x.freed \cup freed \in SUBSET Threads /\ next \in Procs \cup {None}
    BY <1>2, <1>6, <1>8
  <2>2. (x.oops \/ next = None \/ x.cur \in freed) \in BOOLEAN
    OBVIOUS
  <2> QED
    BY <1>2, <1>7, <1>10, <2>1, <2>2 DEF Data
<1>12. /\ y.deadq = dq /\ y.freed = x.freed \cup freed /\ y.sched = sc /\ y.cur = next
       /\ y.fds = x.fds /\ y.nfds = x.nfds /\ y.fdwait = x.fdwait /\ y.fd = x.fd
       /\ y.runtime = x.runtime /\ y.delayq = x.delayq /\ y.dead = x.dead
       /\ y.maxfd = x.maxfd /\ y.waiter = x.waiter
  BY <1>2 DEF Data
<1>13. ~y.oops
  <2>1. y.oops = (x.oops \/ next = None \/ x.cur \in freed)
    BY <1>2 DEF Data
  <2> QED
    BY <1>2, <1>6, <1>8, <2>1
<1> HIDE DEF y
<1>14. /\ ReadySet(y) = (ReadySet(x) \ bodies) \ {next} /\ Sleepers(y, {}) = Sleepers(x, {})
       /\ FdsAgree(y)
  <2>1. ReadySet(y) = (ReadySet(x) \ bodies) \ {next}
    BY <1>4, <1>9, <1>10, <1>12 DEF ReadySet, q
  <2>2. Sleepers(y, {}) = Sleepers(x, {})
    BY <1>12 DEF Sleepers, FdWaiters
  <2>3. FdsAgree(y)
    BY <1>12 DEF Sound, FdsAgree
  <2> QED
    BY <2>1, <2>2, <2>3
<1>15. Sound(y, {})
  BY <1>9, <1>10, <1>11, <1>12, <1>13, <1>14 DEF Sound
<1>16. Timed(y)
  BY <1>12 DEF Timed
<1>17. Mortal(y)
  BY <1>5, <1>6, <1>7, <1>12, <1>14 DEF Mortal
<1>18. next # Select => next \in ReadySet(x) /\ next \notin bodies
  BY <1>4, <1>9 DEF ReadySet, q
<1>19. freed = ToSet(x.deadq) \cup (bodies \ {x.cur})
  BY DEF freed, Buried
<1>20. {next} \cap Threads = IF next = Select THEN {} ELSE {next}
  BY <1>8, WorkersThreads
<1>21. Apart(y, {next} \cap Threads, U)
  <2>1. y.deadq \in Queue(Threads)
    BY <1>7, <1>12
  <2>2. \A t \in ReadySet(y) : t \notin Sleepers(y, {}) \cup ToSet(y.deadq) \cup y.freed \cup {y.waiter} \cup ({next} \cap Threads)
    BY <1>7, <1>12, <1>14, <1>19, <1>20 DEF Apart
  <2>3. \A t \in Sleepers(y, {}) : t \notin ToSet(y.deadq) \cup y.freed \cup {y.waiter} \cup ({next} \cap Threads)
    BY <1>5, <1>7, <1>12, <1>14, <1>18, <1>19, <1>20 DEF Apart
  <2>4. \A t \in ToSet(y.deadq) : t \notin y.freed \cup {y.waiter} \cup ({next} \cap Threads)
    BY <1>5, <1>6, <1>7, <1>12, <1>18, <1>19, <1>20 DEF Apart
  <2>5. \A t \in y.freed : t \notin {y.waiter} \cup ({next} \cap Threads)
    BY <1>5, <1>7, <1>12, <1>18, <1>19, <1>20 DEF Apart
  <2>6. y.waiter \notin {next} \cap Threads
    BY <1>12, <1>18, <1>20 DEF Apart
  <2>7. U = ReadySet(y) \cup Sleepers(y, {}) \cup ToSet(y.deadq) \cup y.freed \cup ({y.waiter} \ {None}) \cup ({next} \cap Threads)
    <3> DEFINE D == ToSet(x.deadq)
               R == ReadySet(x)
    <3>1. U = R \cup Sleepers(x, {}) \cup D \cup x.freed \cup ({x.waiter} \ {None})
      BY DEF Apart
    <3>2. R = ReadySet(y) \cup bodies \cup ({next} \cap Threads)
      <4>1. R \subseteq Threads /\ bodies \subseteq R
        BY <1>2, <1>5, QueueIsEmpty DEF ReadySet, q
      <4>2. ReadySet(y) = (R \ bodies) \ {next} /\ (next # Select => next \in R)
        BY <1>14, <1>18
      <4> HIDE DEF R
      <4> QED
        BY <1>20, <4>1, <4>2, WorkersThreads
    <3>3. ToSet(y.deadq) \cup y.freed = D \cup x.freed \cup bodies
      <4>1. ToSet(y.deadq) = bodies \cap {x.cur} /\ y.freed = x.freed \cup D \cup (bodies \ {x.cur})
        BY <1>7, <1>12, <1>19
      <4> HIDE DEF D
      <4> QED
        BY <4>1
    <3> HIDE DEF D, R
    <3> QED
      BY <1>12, <1>14, <3>1, <3>2, <3>3
  <2> QED
    BY <2>1, <2>2, <2>3, <2>4, <2>5, <2>6, <2>7 DEF Apart
<1>22. /\ y.cur = Select => y.sched[0] = <<>>
       /\ y.cur # Select /\ y.sched[0] = <<>> => Idle(y)
  BY <1>9, <1>10, <1>12, <1>14 DEF Idle
<1> QED
  BY <1>1, <1>8, <1>12, <1>14, <1>15, <1>16, <1>17, <1>21, <1>22 DEF y

\* What lwpReschedule() does to the data: some thread runs, nobody is lost.
Rescheduled(x, y, U) ==
  /\ Sound(y, {}) /\ Timed(y) /\ Mortal(y)
  /\ y.cur \in Procs /\ y.cur \notin y.dead /\ Apart(y, {y.cur} \cap Threads, U)
  /\ y.dead = x.dead /\ y.waiter \in {x.waiter, None}
  /\ Sleepers(y, {}) \subseteq Sleepers(x, {})
  /\ \A t \in Threads : y.runtime[t] \in {x.runtime[t], NoTime, WokenEarly}
  /\ y.cur = Select => y.sched[0] = <<>>
  /\ y.cur # Select /\ y.sched[0] = <<>> => Idle(y)

\* What a thread that calls lwpReschedule() leaves; m is a thread that lives.
Leaves(x, U, m) ==
  /\ Sound(x, {}) /\ Apart(x, {}, U) /\ Mortal(x)
  /\ x.cur \in Procs /\ x.cur \notin ToSet(x.deadq)
  /\ x.sched[0] = <<>> => Idle(x)
  /\ m \in U /\ m \in Threads /\ m \notin x.dead /\ m # x.waiter

\* lwpReschedule() finds a thread to run and loses nobody.
LEMMA RescheduleKeeps ==
  ASSUME NEW x, NEW U, NEW m, Leaves(x, U, m), now \in Nat \ {0}
  PROVE  Rescheduled(x, Reschedule(x), U)
<1> DEFINE a == SigWakeup(x)
           b == WakeupSleep(a)
           y == PickNext(b)
<1>1. Reschedule(x) = y
  BY DEF Reschedule
<1>2. /\ Sound(a, {}) /\ Apart(a, {}, U) /\ Mortal(a)
      /\ Alike(x, a) /\ a.waiter \in {x.waiter, None} /\ Sleepers(a, {}) = Sleepers(x, {})
      /\ a.runtime = x.runtime
  <2>1. {} \in SUBSET Threads /\ Sound(x, {}) /\ Apart(x, {}, U) /\ Mortal(x)
    BY DEF Leaves
  <2> QED
    BY <2>1, SigWakeupKeeps
<1> HIDE DEF a
<1>3. Sound(b, {}) /\ Timed(b) /\ Woken(a, {}, b, {})
  BY <1>2, WakeupSleepKeeps
<1> HIDE DEF b
<1>4. Apart(b, {}, U) /\ Mortal(b) /\ Sleepers(b, {}) \subseteq Sleepers(a, {})
  BY <1>2, <1>3, WokenApart, WokenFewer
<1>5. /\ b.cur = x.cur /\ b.deadq = x.deadq /\ b.dead = x.dead /\ b.maxfd = x.maxfd /\ b.sched[0] = x.sched[0]
      /\ b.waiter = a.waiter /\ \A t \in Threads : b.runtime[t] \in {x.runtime[t], NoTime, WokenEarly}
  BY <1>2, <1>3 DEF Woken, Alike
<1>6. b.sched[0] = <<>> => Idle(b)
  BY <1>2, <1>4, <1>5 DEF Leaves, Idle
<1>7. m \in U /\ m \notin b.dead /\ m # b.waiter /\ b.cur \in Procs /\ b.cur \notin ToSet(b.deadq)
  BY <1>2, <1>5, WorkersThreads DEF Leaves
<1>8. /\ Sound(y, {}) /\ Timed(y) /\ Mortal(y)
      /\ y.cur \in Procs /\ y.cur \notin y.dead /\ Apart(y, {y.cur} \cap Threads, U)
      /\ y.dead = b.dead /\ y.waiter = b.waiter /\ y.runtime = b.runtime
      /\ Sleepers(y, {}) = Sleepers(b, {})
      /\ y.cur = Select => y.sched[0] = <<>>
      /\ y.cur # Select /\ y.sched[0] = <<>> => Idle(y)
  BY <1>3, <1>4, <1>6, <1>7, PickNextKeeps
<1> HIDE DEF y
<1> QED
  BY <1>1, <1>2, <1>4, <1>5, <1>8 DEF Rescheduled

-----------------------------------------------------------------------------
(***************************************************************************)
(* lwpWakeup(), and what the select thread does for the fds.               *)
(***************************************************************************)

\* A thread is woken from its fd: at once, or by its turn in LwpDelayq.
LEMMA WakeupFdKeeps ==
  ASSUME NEW x, Sound(x, {}), NEW p \in FdWaiters(x), p \in ToSet(x.delayq) => x.runtime[p] > 0
  PROVE  LET y == WakeupFd(x, p)
         IN  /\ Sound(y, {}) /\ Woken(x, {}, y, {}) /\ y.delayq = x.delayq
             /\ \A f \in Fds : y.fdwait[f] \in {x.fdwait[f], None}
             /\ \A t \in Threads \ {p} : y.runtime[t] = x.runtime[t]
<1>1. x \in Data /\ p \in Workers /\ p \in Threads /\ x.runtime \in [Threads -> Int]
      /\ x.fdwait \in [Fds -> Threads \cup {None}]
  BY WorkersThreads DEF Sound, Data, FdsAgree, FdWaiters
<1>2. x.fd[p] \in 0..x.maxfd
  BY <1>1, FdInRange
<1>3. CASE InDelayq(x, p)
  <2> DEFINE y == [x EXCEPT !.runtime[p] = NoTime]
  <2>1. WakeupFd(x, p) = y
    BY <1>2, <1>3 DEF WakeupFd
  <2>2. NoTime \in Int
    BY DEF NoTime
  <2>3. Sound(y, {}) /\ y.runtime = [x.runtime EXCEPT ![p] = NoTime] /\ Woken(x, {}, y, {})
        /\ y.delayq = x.delayq /\ y.fdwait = x.fdwait
    BY <1>1, <2>2, RuntimeSet
  <2> HIDE DEF y
  <2> QED
    BY <1>1, <2>1, <2>3
<1>4. CASE ~InDelayq(x, p)
  <2>1. WakeupFd(x, p) = LeaveFd(x, p)
    BY <1>2, <1>4 DEF WakeupFd
  <2>2. p \notin ToSet(x.delayq)
    BY <1>1, <1>4 DEF InDelayq, NoTime, WokenEarly
  <2>3. {} \ {p} = {}
    OBVIOUS
  <2>4. /\ Sound(LeaveFd(x, p), {}) /\ Woken(x, {}, LeaveFd(x, p), {})
        /\ LeaveFd(x, p).delayq = x.delayq /\ LeaveFd(x, p).runtime = x.runtime
        /\ \A f \in Fds : LeaveFd(x, p).fdwait[f] \in {x.fdwait[f], None}
    BY <2>2, <2>3, LeaveFdKeeps
  <2> QED
    BY <2>1, <2>4
<1> QED
  BY <1>3, <1>4

\* lwpWakeup() loses nobody.
LEMMA WakeupKeeps ==
  ASSUME NEW x, Sound(x, {}), Timed(x), NEW p \in Workers, now \in Nat \ {0}
  PROVE  LET y == Wakeup(x, p)
         IN  Sound(y, {}) /\ Timed(y) /\ Woken(x, {}, y, {})
<1> DEFINE z == IF x.fd[p] >= 0 THEN WakeupFd(x, p)
                ELSE IF x.runtime[p] # NoTime THEN [x EXCEPT !.runtime[p] = WokenEarly]
                ELSE x
<1>1. Sound(z, {}) /\ Woken(x, {}, z, {})
  <2>1. CASE x.fd[p] >= 0
    <3>1. p \in FdWaiters(x) /\ z = WakeupFd(x, p) /\ (p \in ToSet(x.delayq) => x.runtime[p] > 0)
      BY <2>1, FdInRange DEF Timed
    <3> QED
      BY <3>1, WakeupFdKeeps
  <2>2. CASE ~(x.fd[p] >= 0) /\ x.runtime[p] # NoTime
    <3>1. z = [x EXCEPT !.runtime[p] = WokenEarly]
      BY <2>2
    <3>2. WokenEarly \in Int /\ p \in Threads
      BY WorkersThreads DEF WokenEarly
    <3> QED
      BY <3>1, <3>2, RuntimeSet
  <2>3. CASE ~(x.fd[p] >= 0) /\ x.runtime[p] = NoTime
    <3>1. z = x
      BY <2>3
    <3> QED
      BY <3>1 DEF Woken, Alike
  <2> QED
    BY <2>1, <2>2, <2>3
<1>2. Wakeup(x, p) = WakeupSleep(z)
  BY DEF Wakeup
<1> HIDE DEF z
<1>3. Sound(WakeupSleep(z), {}) /\ Timed(WakeupSleep(z)) /\ Woken(z, {}, WakeupSleep(z), {})
  BY <1>1, WakeupSleepKeeps
<1> QED
  BY <1>1, <1>2, <1>3, WokenTwice

\* Who waits for fd number i or a later one is not yet due in LwpDelayq.
Turn(x, i) ==
  /\ Sound(x, {})
  /\ \A f \in Fds : f >= i /\ x.fdwait[f] \in ToSet(x.delayq) => x.runtime[x.fdwait[f]] > 0

\* The select thread looks at one fd.
LEMMA FdDispatchKeeps ==
  ASSUME NEW x, NEW f \in Fds, Turn(x, f)
  PROVE  LET y == FdDispatch(x, f)
         IN  Turn(y, f + 1) /\ Woken(x, {}, y, {})
<1>1. /\ x \in Data /\ Sound(x, {}) /\ FdsAgree(x) /\ Fds \subseteq Nat /\ x.fdwait \in [Fds -> Threads \cup {None}]
      /\ x.runtime \in [Threads -> Int] /\ ToSet(x.delayq) \subseteq Workers
  BY ConstantsAssumption, QueueIsEmpty DEF Turn, Sound, Data
<1>2. CASE x.fdwait[f] = None
  <2>1. FdDispatch(x, f) = x
    BY <1>2 DEF FdDispatch
  <2>2. \A g \in Fds : g >= f + 1 => g >= f
    BY <1>1
  <2> QED
    BY <2>1, <2>2 DEF Turn, Woken, Alike
<1>3. CASE x.fdwait[f] # None
  <2> DEFINE p == x.fdwait[f]
             r == [x.fdready EXCEPT ![p] = TRUE]
             z == [x EXCEPT !.fdready = r]
             y == WakeupFd(z, p)
  <2>1. FdDispatch(x, f) = y
    BY <1>3 DEF FdDispatch
  <2>2. p \in Workers /\ p \in Threads /\ p \in FdWaiters(x) /\ x.fd[p] = f
    BY <1>1, <1>3, WorkersThreads DEF FdsAgree, FdWaiters
  <2>3. r \in [Threads -> BOOLEAN]
    BY <1>1, <2>2 DEF Data
  <2> HIDE DEF r, p
  <2>4. z \in Data
    BY <1>1, <2>3 DEF Data
  <2>5. /\ z.runtime = x.runtime
        /\ z.fds = x.fds /\ z.nfds = x.nfds /\ z.fdwait = x.fdwait /\ z.fd = x.fd
        /\ z.sched = x.sched /\ z.delayq = x.delayq /\ z.oops = x.oops
        /\ z.cur = x.cur /\ z.deadq = x.deadq /\ z.dead = x.dead /\ z.freed = x.freed
        /\ z.maxfd = x.maxfd /\ z.waiter = x.waiter
    BY <1>1 DEF Data
  <2> HIDE DEF z
  <2>6. Sleepers(z, {}) = Sleepers(x, {}) /\ ReadySet(z) = ReadySet(x) /\ FdWaiters(z) = FdWaiters(x)
    BY <2>5 DEF Sleepers, ReadySet, FdWaiters
  <2>7. FdsAgree(z)
    BY <2>5 DEF Sound, FdsAgree, Turn
  <2>8. Sound(z, {})
    BY <1>1, <2>4, <2>5, <2>6, <2>7 DEF Sound
  <2>9. Woken(x, {}, z, {})
    BY <2>5, <2>6 DEF Woken, Alike
  <2>10. p \in ToSet(z.delayq) => z.runtime[p] > 0
    <3>1. f >= f
      BY <1>1
    <3> QED
      BY <2>5, <3>1 DEF Turn, p
  <2>11. /\ Sound(y, {}) /\ Woken(z, {}, y, {}) /\ y.delayq = z.delayq
         /\ \A g \in Fds : y.fdwait[g] \in {z.fdwait[g], None}
         /\ \A t \in Threads \ {p} : y.runtime[t] = z.runtime[t]
    BY <2>2, <2>6, <2>8, <2>10, WakeupFdKeeps
  <2> HIDE DEF y
  <2>12. ASSUME NEW g \in Fds, g >= f + 1, y.fdwait[g] \in ToSet(y.delayq)
         PROVE  y.runtime[y.fdwait[g]] > 0
    <3>1. g >= f /\ g # f
      BY <1>1, <2>12
    <3>2. y.fdwait[g] \in ToSet(x.delayq) /\ y.fdwait[g] \in Workers
      BY <1>1, <2>5, <2>11, <2>12
    <3>3. y.fdwait[g] # None
      BY <3>2, WorkersThreads
    <3>4. y.fdwait[g] = x.fdwait[g]
      BY <2>5, <2>11, <3>3
    <3>5. x.fdwait[g] # p
      BY <1>1, <2>2, <3>1, <3>3, <3>4 DEF FdsAgree
    <3>6. x.runtime[x.fdwait[g]] > 0
      BY <3>1, <3>2, <3>4 DEF Turn
    <3>7. y.runtime[x.fdwait[g]] = x.runtime[x.fdwait[g]]
      BY <2>5, <2>11, <3>2, <3>4, <3>5, WorkersThreads
    <3> QED
      BY <3>4, <3>6, <3>7
  <2>13. Turn(y, f + 1)
    BY <2>11, <2>12 DEF Turn
  <2> QED
    BY <2>1, <2>9, <2>11, <2>13, WokenTwice
<1> QED
  BY <1>2, <1>3

\* What the select thread does for one fd makes data of data.
LEMMA FdDispatchData ==
  ASSUME NEW x \in Data, NEW f \in Fds
  PROVE  FdDispatch(x, f) \in Data
<1>1. CASE x.fdwait[f] = None
  BY <1>1 DEF FdDispatch
<1>2. CASE x.fdwait[f] # None
  <2> DEFINE p == x.fdwait[f]
             z == [x EXCEPT !.fdready[p] = TRUE]
  <2>1. p \in Threads
    BY <1>2 DEF Data
  <2>2. [x.fdready EXCEPT ![p] = TRUE] \in [Threads -> BOOLEAN]
    BY <2>1 DEF Data
  <2>3. z \in Data
    BY <2>2 DEF Data
  <2>4. FdDispatch(x, f) = WakeupFd(z, p)
    BY <1>2 DEF FdDispatch
  <2> HIDE DEF z, p
  <2> QED
    BY <2>1, <2>3, <2>4, WakeupFdData
<1> QED
  BY <1>1, <1>2

\* What the select thread's loop over the fds has made of the data after each.
LEMMA DispatchRounds ==
  ASSUME NEW x \in Data, NEW ready \in SUBSET Fds, NEW n \in Nat, n = x.maxfd + 1
  PROVE  \E acc : /\ acc[0] = x
                  /\ \A i \in 1..n : acc[i] = IF i - 1 \in ready THEN FdDispatch(acc[i - 1], i - 1) ELSE acc[i - 1]
                  /\ DispatchFds(x, ready) = acc[n]
<1> DEFINE D(y, f) == IF f \in ready THEN FdDispatch(y, f) ELSE y
           F == [y \in Data |-> [f \in Nat |-> D(y, f)]]
           q == [i \in 1..n |-> i - 1]
           Is(h) == h = [s \in SUBSET DOMAIN q |->
                           IF s = {} THEN x ELSE D(h[s \ {Max(s)}], q[Max(s)])]
           iter == CHOOSE h : Is(h)
           acc == [i \in 0..n |-> iter[1..i]]
<1>1. q \in Seq(Nat) /\ Len(q) = n /\ DOMAIN q = 1..n
  <2>1. \A i \in 1..n : i - 1 \in Nat
    OBVIOUS
  <2> QED
    BY <2>1
<1>2. F \in [Data -> [Nat -> Data]]
  <2>1. ASSUME NEW y \in Data, NEW f \in Nat PROVE D(y, f) \in Data
    BY FdDispatchData
  <2> HIDE DEF D
  <2> QED
    BY <2>1
<1>3. \E h : Is(h)
  <2>0. Folds(Data, Len(q), x, F, q)
    <3> HIDE DEF F, q
    <3> QED
      BY <1>1, <1>2, FoldExists
  <2>1. PICK h : h \in [SUBSET (1..n) -> Data] /\ Recurs(h, n, x, F, q)
    BY <1>1, <2>0 DEF Folds
  <2>2. ASSUME NEW s \in SUBSET DOMAIN q, s # {}
        PROVE  h[s \ {Max(s)}] \in Data /\ q[Max(s)] \in Nat
    <3>1. Max(s) \in s
      BY <1>1, <2>2, MaxOfSome
    <3> HIDE DEF q
    <3> QED
      BY <1>1, <2>1, <3>1, ElementOfSeq
  <2> HIDE DEF D, q
  <2>3. \A s \in SUBSET DOMAIN q : s # {} => F[h[s \ {Max(s)}]][q[Max(s)]] = D(h[s \ {Max(s)}], q[Max(s)])
    BY <2>2
  <2> HIDE DEF F
  <2>4. \A s \in SUBSET DOMAIN q : h[s] = IF s = {} THEN x ELSE D(h[s \ {Max(s)}], q[Max(s)])
    BY <1>1, <2>1, <2>3 DEF Recurs
  <2> QED
    BY <1>1, <2>1, <2>4
<1>4. Is(iter)
  BY <1>3
<1>5. DispatchFds(x, ready) = iter[1..n]
  BY <1>1 DEF DispatchFds, FoldLeft, MapThenFoldSet
<1> HIDE DEF iter
<1>6. acc[0] = x
  <2>1. 1..0 = {} /\ {} \in SUBSET DOMAIN q /\ 0 \in 0..n
    BY <1>1
  <2> QED
    BY <1>4, <2>1
<1>7. ASSUME NEW i \in 1..n
      PROVE  acc[i] = D(acc[i - 1], i - 1)
  <2>1. 1..i \in SUBSET (1..n) /\ 1..i # {} /\ Max(1..i) = i /\ (1..i) \ {Max(1..i)} = 1..i - 1
    BY <1>1, UpTo
  <2>2. i \in 0..n /\ i - 1 \in 0..n /\ q[i] = i - 1
    BY <1>1
  <2> HIDE DEF D, q
  <2>3. iter[1..i] = D(iter[(1..i) \ {Max(1..i)}], q[Max(1..i)])
    BY <1>1, <1>4, <2>1
  <2> QED
    BY <2>1, <2>2, <2>3
<1>8. acc[n] = iter[1..n]
  OBVIOUS
<1> QED
  BY <1>5, <1>6, <1>7, <1>8

\* The loop over the fds loses nobody.
LEMMA DispatchKeeps ==
  ASSUME NEW x, Sound(x, {}), Timed(x), NEW ready \in SUBSET Fds
  PROVE  LET y == DispatchFds(x, ready)
         IN  Sound(y, {}) /\ Woken(x, {}, y, {})
<1> DEFINE n == x.maxfd + 1
<1>1. x \in Data /\ n \in Nat /\ Fds \subseteq Nat
  <2>1. x \in Data /\ x.maxfd \in Fds /\ Fds \subseteq Nat
    BY ConstantsAssumption DEF Sound, Data
  <2>2. x.maxfd \in Nat
    BY <2>1
  <2> QED
    BY <2>1, <2>2
<1> HIDE DEF n
<1>2. PICK acc : /\ acc[0] = x
                 /\ \A i \in 1..n : acc[i] = IF i - 1 \in ready THEN FdDispatch(acc[i - 1], i - 1) ELSE acc[i - 1]
                 /\ DispatchFds(x, ready) = acc[n]
  BY <1>1, DispatchRounds DEF n
<1> DEFINE N == {i \in 0..n : Turn(acc[i], i) /\ Woken(x, {}, acc[i], {})}
<1>3. 0 \in N
  <2>1. Turn(x, 0) /\ Woken(x, {}, x, {})
    BY DEF Turn, Timed, Woken, Alike
  <2> QED
    BY <1>1, <1>2, <2>1
<1>4. ASSUME NEW i \in 0..n, i \in N, i < n
      PROVE  i + 1 \in N
  <2>1. i \in Nat /\ i + 1 \in 1..n /\ i + 1 \in 0..n /\ (i + 1) - 1 = i
    BY <1>1, <1>4
  <2>2. acc[i + 1] = IF i \in ready THEN FdDispatch(acc[i], i) ELSE acc[i]
    BY <1>2, <2>1
  <2>3. Turn(acc[i], i) /\ Woken(x, {}, acc[i], {})
    BY <1>4
  <2>4. CASE i \in ready
    <3> DEFINE a == acc[i]
    <3>1. i \in Fds /\ Turn(a, i)
      BY <2>3, <2>4
    <3> HIDE DEF a
    <3>2. Turn(FdDispatch(a, i), i + 1) /\ Woken(a, {}, FdDispatch(a, i), {})
      BY <3>1, FdDispatchKeeps
    <3>3. Woken(x, {}, FdDispatch(a, i), {})
      BY <2>3, <3>2, WokenTwice DEF a
    <3> QED
      BY <2>1, <2>2, <2>4, <3>2, <3>3 DEF a
  <2>5. CASE i \notin ready
    <3>1. \A f \in Fds : f >= i + 1 => f >= i
      BY <1>1, <2>1
    <3>2. Turn(acc[i], i + 1)
      BY <2>3, <3>1 DEF Turn
    <3> QED
      BY <2>1, <2>2, <2>3, <2>5, <3>2
  <2> QED
    BY <2>4, <2>5
<1> HIDE DEF N
<1>5. 0..n \subseteq N
  BY <1>1, <1>3, <1>4, NatsBySteps
<1>6. n \in N
  BY <1>1, <1>5
<1> QED
  BY <1>2, <1>6 DEF N, Turn

-----------------------------------------------------------------------------
(***************************************************************************)
(* The steps of the scheduler.                                             *)
(***************************************************************************)

\* Some thread lives that does not wait for a signal.
LEMMA SomeoneLives ==
  ASSUME SchedInv
  PROVE  \E m \in Existing \cap (Keepers \cup {Main}) : m \in Threads /\ m \notin k.dead /\ m # k.waiter
<1>1. CASE k.waiter = Main
  <2>1. PICK w \in Keepers : TRUE
    BY ConstantsAssumption
  <2>2. w \in Workers /\ pc[w] # "new" /\ w \notin k.dead /\ w # Main
    BY <1>1, <2>1, WorkersThreads, ConstantsAssumption DEF SchedInv, ServerUp, Mortal
  <2> QED
    BY <1>1, <2>2, WorkersThreads DEF Existing
<1>2. CASE k.waiter # Main
  <2>1. Main \in Threads /\ pc[Main] # "new" /\ Main \notin k.dead
    BY WorkersThreads DEF SchedInv, Mortal, Threads
  <2> QED
    BY <1>2, <2>1 DEF Existing
<1> QED
  BY <1>1, <1>2

\* lwpReady() of somebody who is nowhere else.
LEMMA ReadyKeeps ==
  ASSUME NEW x, Sound(x, {}), NEW t \in Threads, NEW E, NEW U, t \in E \/ t \notin U, Apart(x, E, U), Mortal(x)
  PROVE  LET y == Ready(x, t)
         IN  /\ Sound(y, {}) /\ Apart(y, E \ {t}, U \cup {t}) /\ Mortal(y)
             /\ Alike(x, y) /\ y.waiter = x.waiter /\ y.runtime = x.runtime /\ y.delayq = x.delayq
             /\ Sleepers(y, {}) = Sleepers(x, {})
<1> DEFINE y == Ready(x, t)
<1>1. x \in Data /\ x.sched[1] \in Queue(Threads)
  BY DEF Sound
<1>2. /\ y \in Data /\ Alike(x, y) /\ y.waiter = x.waiter /\ y.oops = x.oops
      /\ y.sched[1] = AddTail(x.sched[1], t)
      /\ y.delayq = x.delayq /\ y.fds = x.fds /\ y.nfds = x.nfds /\ y.fdwait = x.fdwait
      /\ y.fd = x.fd /\ y.runtime = x.runtime
  BY <1>1, ReadyFields
<1> HIDE DEF y
<1>3. t \notin ReadySet(x) \cup Sleepers(x, {}) \cup ToSet(x.deadq) \cup x.freed \cup {x.waiter}
  BY WorkersThreads DEF Apart
<1>4. y.sched[1] \in Queue(Threads) /\ ReadySet(y) = ReadySet(x) \cup {t}
  BY <1>1, <1>2, <1>3, AddTailIs DEF ReadySet
<1>5. Sleepers(y, {}) = Sleepers(x, {}) /\ FdsAgree(y)
  BY <1>2 DEF Sleepers, FdWaiters, FdsAgree, Sound, Alike
<1>6. Sound(y, {})
  BY <1>2, <1>3, <1>4, <1>5 DEF Sound, Alike
<1>7. Apart(y, E \ {t}, U \cup {t})
  BY <1>2, <1>3, <1>4, <1>5 DEF Apart, Alike
<1>8. Mortal(y)
  BY <1>2, <1>5 DEF Mortal, Alike
<1> QED
  BY <1>2, <1>5, <1>6, <1>7, <1>8 DEF y

\* A step that ends in lwpReschedule().
LEMMA BlockKeeps ==
  ASSUME SchedInv, NEW x, NEW m, k' = Reschedule(x), now' = now, pc' \in [Procs -> Places],
         Leaves(x, Existing', m),
         x.dead = {t \in Threads : pc'[t] = "dead"}, x.waiter \in {Main, None}, pc'[Main] \in {"run", "sigwait"},
         x.waiter = Main => pc'[Main] = "sigwait", pc'[Main] = "sigwait" => ServerUp',
         \A t \in Sleepers(x, {}) : pc'[t] \in {"sleep", "sleepfd"},
         \A t \in Threads : x.runtime[t] \in NoTime..Never,
         pc'[Select] \notin {"select", "eintr"}
  PROVE  SchedInv'
<1>1. now \in Nat \ {0} /\ now <= MaxTime
  BY DEF SchedInv
<1>2. Rescheduled(x, k', Existing')
  BY <1>1, RescheduleKeeps
<1>3. \A t \in Threads : k'.runtime[t] \in NoTime..Never
  <2>1. NoTime \in NoTime..Never /\ WokenEarly \in NoTime..Never
    BY ConstantsAssumption DEF NoTime, WokenEarly, Never
  <2> QED
    BY <1>2, <2>1 DEF Rescheduled
<1>4. \A t \in Sleepers(k', {}) : pc'[t] \in {"sleep", "sleepfd"}
  BY <1>2 DEF Rescheduled
<1>5. /\ k'.dead = {t \in Threads : pc'[t] = "dead"} /\ k'.waiter \in {Main, None}
      /\ k'.waiter = Main => pc'[Main] = "sigwait"
  BY <1>2, WorkersThreads DEF Rescheduled, Threads
<1> QED
  BY <1>1, <1>2, <1>3, <1>4, <1>5 DEF SchedInv, Rescheduled

\* A step that does not: somebody may be woken.
LEMMA StaysKeeps ==
  ASSUME SchedInv, now' \in Nat \ {0}, now' <= MaxTime, pc' \in [Procs -> Places],
         Sound(k', {}), Timed(k'), Woken(k, {}, k', {}), Existing' = Existing,
         k.dead = {t \in Threads : pc'[t] = "dead"}, pc'[Main] \in {"run", "sigwait"},
         k.waiter = Main => pc'[Main] = "sigwait", pc'[Main] = "sigwait" => ServerUp',
         \A t \in Sleepers(k, {}) : pc'[t] \in {"sleep", "sleepfd"},
         pc'[Select] \in {"select", "eintr"} => k.cur = Select
  PROVE  SchedInv'
<1>1. Sound(k, {}) /\ Apart(k, {k.cur} \cap Threads, Existing) /\ Mortal(k)
  BY DEF SchedInv
<1>2. Apart(k', {k.cur} \cap Threads, Existing) /\ Mortal(k') /\ Sleepers(k', {}) \subseteq Sleepers(k, {})
  BY <1>1, WokenApart, WokenFewer
<1>3. /\ k'.cur = k.cur /\ k'.deadq = k.deadq /\ k'.dead = k.dead /\ k'.freed = k.freed
      /\ k'.maxfd = k.maxfd /\ k'.sched[0] = k.sched[0] /\ k'.waiter = k.waiter
      /\ \A t \in Threads : k'.runtime[t] \in {k.runtime[t], NoTime, WokenEarly}
  BY DEF Woken, Alike
<1>4. \A t \in Threads : k'.runtime[t] \in NoTime..Never
  <2>1. NoTime \in NoTime..Never /\ WokenEarly \in NoTime..Never
    BY ConstantsAssumption DEF NoTime, WokenEarly, Never
  <2> QED
    BY <1>3, <2>1 DEF SchedInv
<1>5. \A t \in Sleepers(k', {}) : pc'[t] \in {"sleep", "sleepfd"}
  BY <1>2
<1>6. /\ k'.cur = Select => k'.sched[0] = <<>>
      /\ k'.cur # Select /\ k'.sched[0] = <<>> => Idle(k')
  BY <1>2, <1>3 DEF SchedInv, Idle
<1>7. k'.waiter \in {Main, None} /\ k'.cur \in Procs /\ k'.cur \notin k'.dead
  BY <1>3 DEF SchedInv
<1> QED
  BY <1>2, <1>3, <1>4, <1>5, <1>6, <1>7 DEF SchedInv

\* LwpSigCheck tells nothing of where a thread is.
LEMMA CheckSet ==
  ASSUME NEW x, Sound(x, {}), Timed(x), NEW b \in BOOLEAN
  PROVE  LET y == [x EXCEPT !.check = b]
         IN  Sound(y, {}) /\ Timed(y) /\ Woken(x, {}, y, {})
<1> DEFINE y == [x EXCEPT !.check = b]
<1>1. x \in Data
  BY DEF Sound
<1>2. y \in Data
  BY <1>1 DEF Data
<1>3. /\ y.runtime = x.runtime
      /\ y.fds = x.fds /\ y.nfds = x.nfds /\ y.fdwait = x.fdwait /\ y.fd = x.fd
      /\ y.sched = x.sched /\ y.delayq = x.delayq /\ y.oops = x.oops
      /\ y.cur = x.cur /\ y.deadq = x.deadq /\ y.dead = x.dead /\ y.freed = x.freed
      /\ y.maxfd = x.maxfd /\ y.waiter = x.waiter
  BY <1>1 DEF Data
<1> HIDE DEF y
<1>4. Sleepers(y, {}) = Sleepers(x, {}) /\ ReadySet(y) = ReadySet(x)
  BY <1>3 DEF Sleepers, ReadySet, FdWaiters
<1>5. FdsAgree(y)
  BY <1>3 DEF Sound, FdsAgree
<1>6. Sound(y, {}) /\ Timed(y)
  BY <1>2, <1>3, <1>4, <1>5 DEF Sound, Timed
<1>7. Woken(x, {}, y, {})
  BY <1>3, <1>4 DEF Woken, Alike
<1> QED
  BY <1>6, <1>7 DEF y

\* lwpReady() of the select thread.
LEMMA ReadySelectIs ==
  ASSUME NEW x \in Data, x.sched[0] \in {<<>>, <<Select>>}
  PROVE  LET y == Ready(x, Select)
         IN  /\ y \in Data /\ y.sched[0] = <<Select>> /\ y.sched[1] = x.sched[1]
             /\ y.cur = x.cur /\ y.deadq = x.deadq /\ y.dead = x.dead /\ y.freed = x.freed
             /\ y.maxfd = x.maxfd /\ y.waiter = x.waiter /\ y.oops = x.oops
             /\ y.delayq = x.delayq /\ y.fds = x.fds /\ y.nfds = x.nfds /\ y.fdwait = x.fdwait
             /\ y.fd = x.fd /\ y.fdready = x.fdready /\ y.runtime = x.runtime /\ y.check = x.check
<1> DEFINE q == AddTail(x.sched[0], Select)
           sc == [x.sched EXCEPT ![0] = q]
           y == [x EXCEPT !.sched = sc]
<1>1. Ready(x, Select) = y
  BY DEF Ready, Pri
<1>2. q = <<Select>>
  <2>1. CASE x.sched[0] = <<>>
    BY <2>1 DEF AddTail
  <2>2. CASE x.sched[0] = <<Select>>
    <3>1. Last(<<Select>>) = Select
      BY DEF Last
    <3> QED
      BY <2>2, <3>1 DEF AddTail
  <2> QED
    BY <2>1, <2>2
<1> HIDE DEF q
<1>3. x.sched \in [0..1 -> Seq(Procs)] /\ <<Select>> \in Seq(Procs)
  <2>1. Select \in Procs
    BY DEF Procs
  <2>2. <<Select>> \in Seq(Procs)
    BY <2>1
  <2> QED
    BY <2>2 DEF Data
<1>4. sc \in [0..1 -> Seq(Procs)] /\ sc[0] = <<Select>> /\ sc[1] = x.sched[1]
  BY <1>2, <1>3
<1> HIDE DEF sc
<1>5. y \in Data
  BY <1>4 DEF Data
<1>6. /\ y.sched = sc
      /\ y.cur = x.cur /\ y.deadq = x.deadq /\ y.dead = x.dead /\ y.freed = x.freed
      /\ y.maxfd = x.maxfd /\ y.waiter = x.waiter /\ y.oops = x.oops
      /\ y.delayq = x.delayq /\ y.fds = x.fds /\ y.nfds = x.nfds /\ y.fdwait = x.fdwait
      /\ y.fd = x.fd /\ y.fdready = x.fdready /\ y.runtime = x.runtime /\ y.check = x.check
  BY DEF Data
<1> HIDE DEF y
<1> QED
  BY <1>1, <1>4, <1>5, <1>6

\* To ready the select thread moves nobody else.
LEMMA ReadySelectKeeps ==
  ASSUME NEW x, Sound(x, {}), NEW E, NEW U, Apart(x, E, U), Mortal(x)
  PROVE  LET y == Ready(x, Select)
         IN  /\ Sound(y, {}) /\ Apart(y, E, U) /\ Mortal(y)
             /\ y.sched[0] = <<Select>> /\ y.cur = x.cur /\ y.deadq = x.deadq /\ y.dead = x.dead
             /\ y.waiter = x.waiter /\ y.runtime = x.runtime /\ Sleepers(y, {}) = Sleepers(x, {})
<1> DEFINE y == Ready(x, Select)
<1>1. x \in Data /\ x.sched[0] \in {<<>>, <<Select>>}
  BY DEF Sound
<1>2. /\ y \in Data /\ y.sched[0] = <<Select>> /\ y.sched[1] = x.sched[1]
      /\ y.cur = x.cur /\ y.deadq = x.deadq /\ y.dead = x.dead /\ y.freed = x.freed
      /\ y.maxfd = x.maxfd /\ y.waiter = x.waiter /\ y.oops = x.oops
      /\ y.delayq = x.delayq /\ y.fds = x.fds /\ y.nfds = x.nfds /\ y.fdwait = x.fdwait
      /\ y.fd = x.fd /\ y.runtime = x.runtime
  BY <1>1, ReadySelectIs
<1> HIDE DEF y
<1>3. Sleepers(y, {}) = Sleepers(x, {}) /\ ReadySet(y) = ReadySet(x) /\ FdsAgree(y)
  BY <1>2 DEF Sleepers, ReadySet, FdWaiters, Sound, FdsAgree
<1>4. Sound(y, {})
  BY <1>2, <1>3 DEF Sound
<1>5. Apart(y, E, U) /\ Mortal(y)
  BY <1>2, <1>3 DEF Apart, Mortal
<1> QED
  BY <1>2, <1>3, <1>4, <1>5 DEF y

\* A thread that runs is nowhere else.
LEMMA RunnerIs ==
  ASSUME SchedInv, NEW t \in Threads, k.cur = t
  PROVE  /\ Sound(k, {}) /\ Timed(k) /\ Apart(k, {t}, Existing) /\ Mortal(k)
         /\ t \in Existing /\ t \notin k.dead /\ t # k.waiter /\ t \notin ReadySet(k) \cup Sleepers(k, {}) \cup ToSet(k.deadq)
         /\ pc[Select] \notin {"select", "eintr"} /\ k.cur # Select
         /\ k.sched[0] = <<>> => Idle(k)
<1>1. {k.cur} \cap Threads = {t} /\ t # Select
  BY WorkersThreads
<1>2. Sound(k, {}) /\ Timed(k) /\ Apart(k, {t}, Existing) /\ Mortal(k) /\ k.cur # Select
      /\ pc[Select] \notin {"select", "eintr"} /\ (k.sched[0] = <<>> => Idle(k)) /\ t \notin k.dead
  BY <1>1 DEF SchedInv
<1> QED
  BY <1>2 DEF Apart

\* A thread yields: it waits for its turn in the run queue.
LEMMA YieldKeeps ==
  ASSUME SchedInv, NEW t \in Threads, Yield(t)
  PROVE  SchedInv'
<1> DEFINE x == Ready(k, t)
<1>1. k.cur = t /\ k' = Reschedule(x) /\ UNCHANGED <<pc, now>>
  BY DEF Yield, Runs
<1>2. PICK m \in Existing \cap (Keepers \cup {Main}) : m \in Threads /\ m \notin k.dead /\ m # k.waiter
  BY SomeoneLives
<1>3. /\ Sound(k, {}) /\ Apart(k, {t}, Existing) /\ Mortal(k)
      /\ t \in Existing /\ t \notin ToSet(k.deadq) /\ pc[Select] \notin {"select", "eintr"}
      /\ k.sched[0] = <<>> => Idle(k)
  BY <1>1, RunnerIs
<1>4. /\ Sound(x, {}) /\ Apart(x, {t} \ {t}, Existing \cup {t}) /\ Mortal(x)
      /\ Alike(k, x) /\ x.waiter = k.waiter /\ x.runtime = k.runtime /\ x.delayq = k.delayq
      /\ Sleepers(x, {}) = Sleepers(k, {})
  BY <1>3, ReadyKeeps
<1> HIDE DEF x
<1>5. {t} \ {t} = {} /\ Existing \cup {t} = Existing /\ Existing' = Existing
  BY <1>1, <1>3 DEF Existing
<1>6. Leaves(x, Existing', m)
  BY <1>1, <1>2, <1>3, <1>4, <1>5, WorkersThreads DEF Leaves, Alike, Idle
<1>7. /\ pc' = pc /\ now' = now /\ x.dead = k.dead /\ ServerUp' = ServerUp
  BY <1>1, <1>4 DEF Alike, ServerUp
<1>8. /\ pc \in [Procs -> Places] /\ k.dead = {u \in Threads : pc[u] = "dead"}
      /\ k.waiter \in {Main, None} /\ pc[Main] \in {"run", "sigwait"}
      /\ k.waiter = Main => pc[Main] = "sigwait"
      /\ pc[Main] = "sigwait" => ServerUp
      /\ \A u \in Sleepers(k, {}) : pc[u] \in {"sleep", "sleepfd"}
      /\ \A u \in Threads : k.runtime[u] \in NoTime..Never
  BY DEF SchedInv
<1> QED
  BY <1>1, <1>3, <1>4, <1>6, <1>7, <1>8, BlockKeeps

\* A new thread and its creator are both ready.
LEMMA CreateKeeps ==
  ASSUME SchedInv, NEW t \in Threads, NEW u \in Threads, Create(t, u)
  PROVE  SchedInv'
<1> DEFINE z == Ready(k, u)
           x == Ready(z, t)
<1>1. k.cur = t /\ k' = Reschedule(x) /\ now' = now /\ pc' = [pc EXCEPT ![u] = "run"] /\ pc[u] = "new"
  BY DEF Create, Runs
<1>2. PICK m \in Existing \cap (Keepers \cup {Main}) : m \in Threads /\ m \notin k.dead /\ m # k.waiter
  BY SomeoneLives
<1>3. /\ Sound(k, {}) /\ Apart(k, {t}, Existing) /\ Mortal(k)
      /\ t \in Existing /\ t \notin ToSet(k.deadq) /\ pc[Select] \notin {"select", "eintr"}
      /\ k.sched[0] = <<>> => Idle(k)
  BY <1>1, RunnerIs
<1>4. u \notin Existing
  BY <1>1 DEF Existing
<1>5. /\ Sound(z, {}) /\ Apart(z, {t} \ {u}, Existing \cup {u}) /\ Mortal(z)
      /\ Alike(k, z) /\ z.waiter = k.waiter /\ z.runtime = k.runtime
      /\ Sleepers(z, {}) = Sleepers(k, {})
  BY <1>3, <1>4, ReadyKeeps
<1> HIDE DEF z
<1>6. {t} \ {u} = {t} /\ {t} \ {t} = {} /\ (Existing \cup {u}) \cup {t} = Existing \cup {u}
  BY <1>3, <1>4
<1>7. Apart(z, {t}, Existing \cup {u})
  BY <1>5, <1>6
<1>8. /\ Sound(x, {}) /\ Apart(x, {t} \ {t}, (Existing \cup {u}) \cup {t}) /\ Mortal(x)
      /\ Alike(z, x) /\ x.waiter = z.waiter /\ x.runtime = z.runtime
      /\ Sleepers(x, {}) = Sleepers(z, {})
  BY <1>5, <1>7, ReadyKeeps
<1> HIDE DEF x
<1>9. pc \in [Procs -> Places] /\ u \in Procs /\ pc[Main] \in {"run", "sigwait"} /\ Select \in Procs /\ u # Select
  BY WorkersThreads DEF SchedInv, Procs
<1>10. pc' \in [Procs -> Places] /\ pc'[u] = "run" /\ \A p \in Procs : p # u => pc'[p] = pc[p]
  BY <1>1, <1>9 DEF Places
<1>11. Existing' = Existing \cup {u}
  BY <1>10, WorkersThreads DEF Existing
<1>12. Leaves(x, Existing', m)
  <2>1. Apart(x, {}, Existing')
    BY <1>6, <1>8, <1>11
  <2>2. m \in Existing'
    BY <1>2, <1>11
  <2> QED
    BY <1>1, <1>2, <1>3, <1>5, <1>8, <2>1, <2>2, WorkersThreads DEF Leaves, Alike, Idle
<1>13. /\ k.dead = {p \in Threads : pc[p] = "dead"}
       /\ k.waiter \in {Main, None}
       /\ k.waiter = Main => pc[Main] = "sigwait"
       /\ pc[Main] = "sigwait" => ServerUp
       /\ \A p \in Sleepers(k, {}) : pc[p] \in {"sleep", "sleepfd"}
       /\ \A p \in Threads : k.runtime[p] \in NoTime..Never
  BY DEF SchedInv
<1>14. x.dead = k.dead /\ x.waiter = k.waiter /\ x.runtime = k.runtime /\ Sleepers(x, {}) = Sleepers(k, {})
  BY <1>5, <1>8 DEF Alike
<1>15. pc'[Main] = pc[Main] /\ u # Main /\ Main \in Threads
  BY <1>1, <1>9, <1>10, WorkersThreads DEF Threads
<1>16. x.dead = {p \in Threads : pc'[p] = "dead"}
  BY <1>1, <1>10, <1>13, <1>14, WorkersThreads
<1>17. pc'[Main] = "sigwait" => ServerUp'
  BY <1>10, <1>13, <1>15, WorkersThreads, ConstantsAssumption DEF ServerUp
<1>18. \A p \in Sleepers(x, {}) : pc'[p] \in {"sleep", "sleepfd"}
  <2>1. \A p \in Sleepers(k, {}) : p \in Procs /\ p # u
    <3>1. Sleepers(k, {}) \subseteq Threads
      BY <1>3, QueueIsEmpty, WorkersThreads DEF Sleepers, FdWaiters, Sound
    <3> QED
      BY <1>1, <1>13, <3>1, WorkersThreads
  <2> QED
    BY <1>10, <1>13, <1>14, <2>1
<1> QED
  BY <1>1, <1>3, <1>9, <1>10, <1>12, <1>13, <1>14, <1>15, <1>16, <1>17, <1>18, BlockKeeps

\* A thread that exits is dead, and lwpReschedule() runs on its stack.
LEMMA ExitKeeps ==
  ASSUME SchedInv, NEW t \in Threads, Exit(t)
  PROVE  SchedInv'
<1> DEFINE z == [k EXCEPT !.dead = k.dead \cup {t}]
           x == Ready(z, t)
<1>1. /\ k.cur = t /\ pc[t] = "run" /\ t \in Workers \ Keepers /\ k' = Reschedule(x)
      /\ now' = now /\ pc' = [pc EXCEPT ![t] = "dead"]
  BY DEF Exit, Runs, Block
<1>2. PICK m \in Existing \cap (Keepers \cup {Main}) : m \in Threads /\ m \notin k.dead /\ m # k.waiter
  BY SomeoneLives
<1>3. m # t
  BY <1>1, <1>2, WorkersThreads
<1>4. /\ Sound(k, {}) /\ Apart(k, {t}, Existing) /\ Mortal(k)
      /\ t \in Existing /\ t \notin ToSet(k.deadq) /\ t # k.waiter /\ pc[Select] \notin {"select", "eintr"}
      /\ t \notin Sleepers(k, {})
      /\ k.sched[0] = <<>> => Idle(k)
  BY <1>1, RunnerIs
<1>5. k \in Data /\ k.dead \cup {t} \in SUBSET Threads
  BY <1>4 DEF Sound, Data
<1>6. z \in Data
  BY <1>5 DEF Data
<1>7. /\ z.dead = k.dead \cup {t} /\ z.runtime = k.runtime
      /\ z.fds = k.fds /\ z.nfds = k.nfds /\ z.fdwait = k.fdwait /\ z.fd = k.fd
      /\ z.sched = k.sched /\ z.delayq = k.delayq /\ z.oops = k.oops
      /\ z.cur = k.cur /\ z.deadq = k.deadq /\ z.freed = k.freed
      /\ z.maxfd = k.maxfd /\ z.waiter = k.waiter
  BY <1>5 DEF Data
<1> HIDE DEF z
<1>8. Sleepers(z, {}) = Sleepers(k, {}) /\ ReadySet(z) = ReadySet(k) /\ FdsAgree(z)
  BY <1>4, <1>7 DEF Sleepers, ReadySet, FdWaiters, Sound, FdsAgree
<1>9. Sound(z, {}) /\ Apart(z, {t}, Existing) /\ Mortal(z)
  <2>1. Sound(z, {})
    BY <1>4, <1>6, <1>7, <1>8 DEF Sound
  <2>2. Apart(z, {t}, Existing)
    BY <1>4, <1>7, <1>8 DEF Apart
  <2>3. Mortal(z)
    BY <1>1, <1>4, <1>7, <1>8 DEF Mortal
  <2> QED
    BY <2>1, <2>2, <2>3
<1>10. /\ Sound(x, {}) /\ Apart(x, {t} \ {t}, Existing \cup {t}) /\ Mortal(x)
       /\ Alike(z, x) /\ x.waiter = z.waiter /\ x.runtime = z.runtime
       /\ Sleepers(x, {}) = Sleepers(z, {})
  BY <1>9, ReadyKeeps
<1> HIDE DEF x
<1>11. pc \in [Procs -> Places] /\ t \in Procs /\ pc[Main] \in {"run", "sigwait"} /\ Select \in Procs /\ t # Select
  BY WorkersThreads DEF SchedInv, Procs
<1>12. pc' \in [Procs -> Places] /\ pc'[t] = "dead" /\ \A p \in Procs : p # t => pc'[p] = pc[p]
  BY <1>1, <1>11 DEF Places
<1>13. Existing' = Existing
  BY <1>1, <1>12, WorkersThreads DEF Existing
<1>14. {t} \ {t} = {} /\ Existing \cup {t} = Existing
  BY <1>4
<1>15. Leaves(x, Existing', m)
  <2>1. Apart(x, {}, Existing')
    BY <1>10, <1>13, <1>14
  <2>2. m \in Existing' /\ m \notin x.dead
    BY <1>2, <1>3, <1>7, <1>10, <1>13 DEF Alike
  <2> QED
    BY <1>1, <1>2, <1>4, <1>7, <1>8, <1>10, <2>1, <2>2, WorkersThreads DEF Leaves, Alike, Idle
<1>16. /\ k.dead = {p \in Threads : pc[p] = "dead"}
       /\ k.waiter \in {Main, None}
       /\ k.waiter = Main => pc[Main] = "sigwait"
       /\ pc[Main] = "sigwait" => ServerUp
       /\ \A p \in Sleepers(k, {}) : pc[p] \in {"sleep", "sleepfd"}
       /\ \A p \in Threads : k.runtime[p] \in NoTime..Never
  BY DEF SchedInv
<1>17. x.dead = k.dead \cup {t} /\ x.waiter = k.waiter /\ x.runtime = k.runtime /\ Sleepers(x, {}) = Sleepers(k, {})
  BY <1>7, <1>8, <1>10 DEF Alike
<1>18. pc'[Main] = pc[Main] /\ Main \in Threads
  BY <1>1, <1>12, WorkersThreads DEF Threads
<1>19. x.dead = {p \in Threads : pc'[p] = "dead"}
  BY <1>12, <1>16, <1>17, WorkersThreads
<1>20. pc'[Main] = "sigwait" => ServerUp'
  BY <1>12, <1>16, <1>18, WorkersThreads, ConstantsAssumption DEF ServerUp
<1>21. \A p \in Sleepers(x, {}) : pc'[p] \in {"sleep", "sleepfd"}
  <2>1. Sleepers(k, {}) \subseteq Threads
    BY <1>4, QueueIsEmpty, WorkersThreads DEF Sleepers, FdWaiters, Sound
  <2>2. \A p \in Sleepers(k, {}) : p \in Procs /\ p # t
    BY <1>4, <2>1, WorkersThreads
  <2> QED
    BY <1>12, <1>16, <1>17, <2>2
<1> QED
  BY <1>1, <1>4, <1>11, <1>12, <1>15, <1>16, <1>17, <1>18, <1>19, <1>20, <1>21, BlockKeeps

\* Time passes.
LEMMA TickKeeps ==
  ASSUME SchedInv, Tick
  PROVE  SchedInv'
<1>1. UNCHANGED <<k, pc>> /\ now' \in Nat \ {0} /\ now' <= MaxTime
  BY ConstantsAssumption DEF Tick, SchedInv
<1> QED
  BY <1>1 DEF SchedInv, ServerUp, Existing

\* A signal arrives: select() may fail, and nobody moves.
LEMMA SignalKeeps ==
  ASSUME SchedInv, NEW s, Signal(s)
  PROVE  SchedInv'
<1>1. /\ k' = [k EXCEPT !.check = TRUE] /\ now' = now
      /\ pc' = [pc EXCEPT ![Select] = IF pc[Select] = "select" THEN "eintr" ELSE pc[Select]]
  BY DEF Signal
<1>2. Sound(k, {}) /\ Timed(k) /\ pc \in [Procs -> Places] /\ Select \in Procs /\ now \in Nat \ {0} /\ now <= MaxTime
  BY DEF SchedInv, Procs
<1>3. Sound(k', {}) /\ Timed(k') /\ Woken(k, {}, k', {})
  BY <1>1, <1>2, CheckSet
<1>4. /\ pc' \in [Procs -> Places] /\ \A t \in Threads : pc'[t] = pc[t]
      /\ pc'[Select] \in {"select", "eintr"} => pc[Select] \in {"select", "eintr"}
  BY <1>1, <1>2, WorkersThreads DEF Places
<1>5. Existing' = Existing
  BY <1>4 DEF Existing
<1>6. Sleepers(k, {}) \subseteq Threads
  BY <1>2, QueueIsEmpty, WorkersThreads DEF Sleepers, FdWaiters, Sound
<1>7. /\ k.dead = {t \in Threads : pc[t] = "dead"} /\ pc[Main] \in {"run", "sigwait"}
      /\ k.waiter = Main => pc[Main] = "sigwait"
      /\ pc[Main] = "sigwait" => ServerUp
      /\ \A t \in Sleepers(k, {}) : pc[t] \in {"sleep", "sleepfd"}
      /\ pc[Select] \in {"select", "eintr"} => k.cur = Select
  BY DEF SchedInv
<1>8. pc'[Main] = pc[Main] /\ (ServerUp => ServerUp')
  BY <1>4, WorkersThreads, ConstantsAssumption DEF ServerUp, Threads
<1>9. k.dead = {t \in Threads : pc'[t] = "dead"}
  BY <1>4, <1>7
<1>10. \A t \in Sleepers(k, {}) : pc'[t] \in {"sleep", "sleepfd"}
  BY <1>4, <1>6, <1>7
<1> QED
  BY <1>1, <1>2, <1>3, <1>4, <1>5, <1>7, <1>8, <1>9, <1>10, StaysKeeps

\* empth_wakeup().
LEMMA WakeUpKeeps ==
  ASSUME SchedInv, NEW t \in Threads, NEW u \in Threads, WakeUp(t, u)
  PROVE  SchedInv'
<1>1. k' = Wakeup(k, u) /\ pc' = pc /\ now' = now /\ u \in Workers
  BY DEF WakeUp
<1>2. Sound(k, {}) /\ Timed(k) /\ now \in Nat \ {0} /\ now <= MaxTime /\ pc \in [Procs -> Places]
  BY DEF SchedInv
<1>3. Sound(k', {}) /\ Timed(k') /\ Woken(k, {}, k', {})
  BY <1>1, <1>2, WakeupKeeps
<1>4. /\ k.dead = {p \in Threads : pc[p] = "dead"} /\ pc[Main] \in {"run", "sigwait"}
      /\ k.waiter = Main => pc[Main] = "sigwait"
      /\ pc[Main] = "sigwait" => ServerUp
      /\ \A p \in Sleepers(k, {}) : pc[p] \in {"sleep", "sleepfd"}
      /\ pc[Select] \in {"select", "eintr"} => k.cur = Select
  BY DEF SchedInv
<1>5. Existing' = Existing /\ ServerUp' = ServerUp
  BY <1>1 DEF Existing, ServerUp
<1> QED
  BY <1>1, <1>2, <1>3, <1>4, <1>5, StaysKeeps

\* A thread returns from lwpSleepUntil() or lwpSleepFd().
LEMMA ReturnKeeps ==
  ASSUME SchedInv, NEW t \in Threads, Return(t)
  PROVE  SchedInv'
<1>1. /\ k.cur = t /\ pc[t] \in {"sleep", "sleepfd"} /\ k' \in {k, [k EXCEPT !.runtime[t] = NoTime]}
      /\ pc' = [pc EXCEPT ![t] = "run"] /\ now' = now
  BY DEF Return
<1>2. /\ Sound(k, {}) /\ Timed(k) /\ t \notin Sleepers(k, {}) /\ pc[Select] \notin {"select", "eintr"}
      /\ now \in Nat \ {0} /\ now <= MaxTime /\ pc \in [Procs -> Places]
      /\ pc[Main] \in {"run", "sigwait"}
  BY <1>1, RunnerIs DEF SchedInv
<1>3. Sound(k', {}) /\ Timed(k') /\ Woken(k, {}, k', {})
  <2>1. CASE k' = k
    BY <1>2, <2>1 DEF Woken, Alike
  <2>2. CASE k' = [k EXCEPT !.runtime[t] = NoTime]
    <3>1. NoTime \in Int /\ k.runtime \in [Threads -> Int]
      BY <1>2 DEF NoTime, Sound, Data
    <3>2. /\ Sound(k', {}) /\ k'.runtime = [k.runtime EXCEPT ![t] = NoTime]
          /\ Woken(k, {}, k', {}) /\ k'.delayq = k.delayq
      BY <1>2, <2>2, <3>1, RuntimeSet
    <3>3. ToSet(k.delayq) \subseteq Threads /\ t \notin ToSet(k.delayq)
      BY <1>2, QueueIsEmpty, WorkersThreads DEF Sleepers, Sound
    <3>4. Timed(k')
      BY <1>2, <3>1, <3>2, <3>3 DEF Timed
    <3> QED
      BY <3>2, <3>4
  <2> QED
    BY <1>1, <2>1, <2>2
<1>4. /\ pc' \in [Procs -> Places] /\ pc'[t] = "run" /\ \A p \in Procs : p # t => pc'[p] = pc[p]
      /\ t # Main /\ t # Select /\ Main \in Procs /\ Select \in Procs
  BY <1>1, <1>2, WorkersThreads DEF Places, Procs, Threads
<1>5. Existing' = Existing
  BY <1>1, <1>4, WorkersThreads DEF Existing
<1>6. Sleepers(k, {}) \subseteq Threads
  BY <1>2, QueueIsEmpty, WorkersThreads DEF Sleepers, FdWaiters, Sound
<1>7. /\ k.dead = {p \in Threads : pc[p] = "dead"}
      /\ k.waiter = Main => pc[Main] = "sigwait"
      /\ pc[Main] = "sigwait" => ServerUp
      /\ \A p \in Sleepers(k, {}) : pc[p] \in {"sleep", "sleepfd"}
  BY DEF SchedInv
<1>8. ServerUp => ServerUp'
  BY <1>4, WorkersThreads, ConstantsAssumption DEF ServerUp
<1>9. k.dead = {p \in Threads : pc'[p] = "dead"}
  BY <1>1, <1>4, <1>7, WorkersThreads
<1>10. \A p \in Sleepers(k, {}) : pc'[p] \in {"sleep", "sleepfd"}
  BY <1>2, <1>4, <1>6, <1>7, WorkersThreads
<1> QED
  BY <1>1, <1>2, <1>3, <1>4, <1>5, <1>7, <1>8, <1>9, <1>10, StaysKeeps

\* Main awaits a signal: a keeper is there to run instead.
LEMMA SigWaitKeeps ==
  ASSUME SchedInv, NEW t \in Threads, SigWait(t)
  PROVE  SchedInv'
<1>1. /\ t = Main /\ k.cur = t /\ ServerUp /\ now' = now /\ pc \in [Procs -> Places] /\ pc[Main] \in {"run", "sigwait"}
      /\ now \in Nat \ {0} /\ now <= MaxTime /\ Main \in Threads /\ Main \in Procs /\ Select \in Procs /\ Main # Select
  BY ConstantsAssumption, WorkersThreads DEF SigWait, SchedInv, Procs, Threads
<1>2. /\ Sound(k, {}) /\ Timed(k) /\ Apart(k, {t}, Existing) /\ Mortal(k)
      /\ t \in Existing /\ t \notin k.dead /\ t # k.waiter /\ t \notin ReadySet(k) \cup Sleepers(k, {}) \cup ToSet(k.deadq)
      /\ pc[Select] \notin {"select", "eintr"}
      /\ k.sched[0] = <<>> => Idle(k)
  BY <1>1, RunnerIs
<1>3. /\ k.dead = {p \in Threads : pc[p] = "dead"} /\ k.waiter \in {Main, None}
      /\ \A p \in Sleepers(k, {}) : pc[p] \in {"sleep", "sleepfd"}
      /\ \A p \in Threads : k.runtime[p] \in NoTime..Never
  BY DEF SchedInv
<1>4. k.waiter = None
  BY <1>1, <1>2, <1>3
<1>5. Sleepers(k, {}) \subseteq Threads
  BY <1>2, QueueIsEmpty, WorkersThreads DEF Sleepers, FdWaiters, Sound
<1>6. ASSUME NEW w \in {"run", "sigwait"}, pc' = [pc EXCEPT ![t] = w]
      PROVE  /\ pc' \in [Procs -> Places] /\ pc'[Main] = w
             /\ \A p \in Procs : p # Main => pc'[p] = pc[p]
             /\ Existing' = Existing /\ ServerUp'
             /\ k.dead = {p \in Threads : pc'[p] = "dead"}
             /\ \A p \in Sleepers(k, {}) : pc'[p] \in {"sleep", "sleepfd"}
  <2>1. pc' \in [Procs -> Places] /\ pc'[Main] = w /\ \A p \in Procs : p # Main => pc'[p] = pc[p]
    BY <1>1, <1>6 DEF Places
  <2>2. Existing' = Existing
    BY <1>1, <2>1, WorkersThreads DEF Existing
  <2>3. ServerUp'
    BY <1>1, <2>1, WorkersThreads, ConstantsAssumption DEF ServerUp
  <2>4. k.dead = {p \in Threads : pc'[p] = "dead"}
    BY <1>1, <1>3, <2>1, WorkersThreads
  <2>5. \A p \in Sleepers(k, {}) : pc'[p] \in {"sleep", "sleepfd"}
    BY <1>1, <1>2, <1>3, <1>5, <2>1, WorkersThreads
  <2> QED
    BY <2>1, <2>2, <2>3, <2>4, <2>5
<1>7. CASE pending # {}
  <2>1. k' = [k EXCEPT !.check = FALSE] /\ pc' = [pc EXCEPT ![t] = "run"]
    BY <1>7 DEF SigWait
  <2>2. Sound(k', {}) /\ Timed(k') /\ Woken(k, {}, k', {})
    BY <1>2, <2>1, CheckSet
  <2>3. /\ pc' \in [Procs -> Places] /\ pc'[Main] = "run"
        /\ \A p \in Procs : p # Main => pc'[p] = pc[p]
        /\ Existing' = Existing /\ ServerUp'
        /\ k.dead = {p \in Threads : pc'[p] = "dead"}
        /\ \A p \in Sleepers(k, {}) : pc'[p] \in {"sleep", "sleepfd"}
    BY <1>6, <2>1
  <2>4. k.waiter # Main /\ pc'[Select] \notin {"select", "eintr"}
    BY <1>1, <1>2, <2>3
  <2> QED
    BY <1>1, <2>2, <2>3, <2>4, StaysKeeps
<1>8. CASE pending = {}
  <2> DEFINE x == [k EXCEPT !.check = FALSE, !.waiter = t]
  <2>1. k' = Reschedule(x) /\ pc' = [pc EXCEPT ![t] = "sigwait"]
    BY <1>8 DEF SigWait, Block
  <2>2. /\ pc' \in [Procs -> Places] /\ pc'[Main] = "sigwait"
        /\ \A p \in Procs : p # Main => pc'[p] = pc[p]
        /\ Existing' = Existing /\ ServerUp'
        /\ k.dead = {p \in Threads : pc'[p] = "dead"}
        /\ \A p \in Sleepers(k, {}) : pc'[p] \in {"sleep", "sleepfd"}
    BY <1>6, <2>1
  <2>3. k \in Data
    BY <1>2 DEF Sound
  <2>4. x \in Data
    BY <2>3 DEF Data
  <2>5. /\ x.dead = k.dead /\ x.runtime = k.runtime
        /\ x.fds = k.fds /\ x.nfds = k.nfds /\ x.fdwait = k.fdwait /\ x.fd = k.fd
        /\ x.sched = k.sched /\ x.delayq = k.delayq /\ x.oops = k.oops
        /\ x.cur = k.cur /\ x.deadq = k.deadq /\ x.freed = k.freed
        /\ x.maxfd = k.maxfd /\ x.waiter = t
    BY <2>3 DEF Data
  <2> HIDE DEF x
  <2>6. Sleepers(x, {}) = Sleepers(k, {}) /\ ReadySet(x) = ReadySet(k) /\ FdsAgree(x)
    BY <1>2, <2>5 DEF Sleepers, ReadySet, FdWaiters, Sound, FdsAgree
  <2>7. Sound(x, {})
    BY <1>2, <2>4, <2>5, <2>6 DEF Sound
  <2>8. Apart(x, {}, Existing)
    <3>1. t # None /\ {t} \ {None} = {t}
      BY WorkersThreads
    <3> QED
      BY <1>2, <1>4, <2>5, <2>6, <3>1 DEF Apart
  <2>9. Mortal(x)
    BY <1>2, <2>5, <2>6 DEF Mortal
  <2>10. PICK m \in Keepers : TRUE
    BY ConstantsAssumption
  <2>11. m \in Existing /\ m \in Threads /\ m \notin k.dead /\ m # t
    BY <1>1, <1>2, WorkersThreads, ConstantsAssumption DEF ServerUp, Existing, Mortal
  <2>12. Leaves(x, Existing', m)
    BY <1>1, <1>2, <2>2, <2>5, <2>6, <2>7, <2>8, <2>9, <2>11, WorkersThreads DEF Leaves, Idle
  <2>13. pc'[Select] \notin {"select", "eintr"} /\ x.waiter = Main
    BY <1>1, <1>2, <2>2, <2>5
  <2> QED
    BY <1>1, <1>3, <2>1, <2>2, <2>5, <2>6, <2>12, <2>13, BlockKeeps
<1> QED
  BY <1>7, <1>8

\* The select thread, with the data as x, lets others run.
LEMMA SelectLeaves ==
  ASSUME SchedInv, k.cur = Select, NEW x, Sound(x, {}), Apart(x, {}, Existing), Mortal(x),
         x.cur = Select, x.deadq = k.deadq, x.dead = k.dead, x.waiter = k.waiter, x.sched[0] = <<>> => Idle(x),
         \A t \in Threads : x.runtime[t] \in {k.runtime[t], NoTime, WokenEarly},
         Sleepers(x, {}) \subseteq Sleepers(k, {}),
         NEW w \in {"run", "parked"}, pc' = [pc EXCEPT ![Select] = w], k' = Reschedule(x), now' = now
  PROVE  SchedInv'
<1>1. PICK m \in Existing \cap (Keepers \cup {Main}) : m \in Threads /\ m \notin k.dead /\ m # k.waiter
  BY SomeoneLives
<1>2. /\ pc \in [Procs -> Places] /\ Select \in Procs /\ Sound(k, {})
      /\ k.dead = {t \in Threads : pc[t] = "dead"} /\ k.waiter \in {Main, None} /\ pc[Main] \in {"run", "sigwait"}
      /\ k.waiter = Main => pc[Main] = "sigwait"
      /\ pc[Main] = "sigwait" => ServerUp
      /\ \A t \in Sleepers(k, {}) : pc[t] \in {"sleep", "sleepfd"}
      /\ \A t \in Threads : k.runtime[t] \in NoTime..Never
  BY DEF SchedInv, Procs
<1>3. /\ pc' \in [Procs -> Places] /\ pc'[Select] = w /\ \A t \in Threads : pc'[t] = pc[t]
  BY <1>2, WorkersThreads DEF Places
<1>4. Existing' = Existing
  BY <1>3 DEF Existing
<1>5. pc'[Main] = pc[Main] /\ (ServerUp => ServerUp')
  BY <1>3, WorkersThreads, ConstantsAssumption DEF ServerUp, Threads
<1>6. x.dead = {t \in Threads : pc'[t] = "dead"}
  BY <1>2, <1>3
<1>7. \A t \in Sleepers(x, {}) : pc'[t] \in {"sleep", "sleepfd"}
  <2>1. Sleepers(k, {}) \subseteq Threads
    BY <1>2, QueueIsEmpty, WorkersThreads DEF Sleepers, FdWaiters, Sound
  <2> QED
    BY <1>2, <1>3, <2>1
<1>8. \A t \in Threads : x.runtime[t] \in NoTime..Never
  <2>1. NoTime \in NoTime..Never /\ WokenEarly \in NoTime..Never
    BY ConstantsAssumption DEF NoTime, WokenEarly, Never
  <2> QED
    BY <1>2, <2>1
<1>9. Leaves(x, Existing', m)
  <2>1. ToSet(x.deadq) \subseteq Threads
    BY QueueIsEmpty DEF Apart
  <2>2. Select \notin ToSet(x.deadq)
    BY <2>1, WorkersThreads
  <2> QED
    BY <1>1, <1>2, <1>4, <2>2 DEF Leaves
<1> QED
  BY <1>2, <1>3, <1>5, <1>6, <1>7, <1>8, <1>9, BlockKeeps

\* The select thread runs: all others are where lwpReschedule() left them.
LEMMA SelectIs ==
  ASSUME SchedInv, k.cur = Select
  PROVE  Sound(k, {}) /\ Timed(k) /\ Apart(k, {}, Existing) /\ Mortal(k) /\ k.sched[0] = <<>>
<1>1. {k.cur} \cap Threads = {}
  BY WorkersThreads
<1> QED
  BY <1>1 DEF SchedInv

\* select() fails with EINTR: the select thread yields.
LEMMA SelectInterruptedKeeps ==
  ASSUME SchedInv, SelectInterrupted
  PROVE  SchedInv'
<1> DEFINE x == Ready(k, Select)
<1>1. k' = Reschedule(x) /\ pc' = [pc EXCEPT ![Select] = "run"] /\ now' = now /\ k.cur = Select
  BY DEF SelectInterrupted, Block, SchedInv
<1>2. Sound(k, {}) /\ Apart(k, {}, Existing) /\ Mortal(k)
  BY <1>1, SelectIs
<1>3. /\ Sound(x, {}) /\ Apart(x, {}, Existing) /\ Mortal(x)
      /\ x.sched[0] = <<Select>> /\ x.cur = k.cur /\ x.deadq = k.deadq /\ x.dead = k.dead
      /\ x.waiter = k.waiter /\ x.runtime = k.runtime /\ Sleepers(x, {}) = Sleepers(k, {})
  BY <1>2, ReadySelectKeeps
<1> HIDE DEF x
<1>4. <<Select>> # <<>>
  OBVIOUS
<1> QED
  BY <1>1, <1>3, <1>4, SelectLeaves

\* select() returns: whoever it wakes, it goes on to serve the others.
LEMMA SelectReturnsKeeps ==
  ASSUME SchedInv, NEW ready \in SUBSET k.fds, SelectReturns(ready)
  PROVE  SchedInv'
<1> DEFINE z == DispatchFds(k, ready)
           y == WakeupSleep(z)
           x == Ready(y, Select)
<1>1. k' = Reschedule(x) /\ pc' = [pc EXCEPT ![Select] = "run"] /\ now' = now /\ k.cur = Select
  BY DEF SelectReturns, Block, SchedInv
<1>2. Sound(k, {}) /\ Timed(k) /\ Apart(k, {}, Existing) /\ Mortal(k)
  BY <1>1, SelectIs
<1>3. ready \in SUBSET Fds /\ now \in Nat \ {0}
  BY <1>2 DEF Sound, FdsAgree, SchedInv
<1>4. Sound(z, {}) /\ Woken(k, {}, z, {})
  BY <1>2, <1>3, DispatchKeeps
<1> HIDE DEF z
<1>5. Sound(y, {}) /\ Woken(z, {}, y, {})
  BY <1>3, <1>4, WakeupSleepKeeps
<1>6. Woken(k, {}, y, {})
  BY <1>4, <1>5, WokenTwice
<1> HIDE DEF y
<1>7. Apart(y, {}, Existing) /\ Mortal(y) /\ Sleepers(y, {}) \subseteq Sleepers(k, {})
  BY <1>2, <1>5, <1>6, WokenApart, WokenFewer
<1>8. /\ Sound(x, {}) /\ Apart(x, {}, Existing) /\ Mortal(x)
      /\ x.sched[0] = <<Select>> /\ x.cur = y.cur /\ x.deadq = y.deadq /\ x.dead = y.dead
      /\ x.waiter = y.waiter /\ x.runtime = y.runtime /\ Sleepers(x, {}) = Sleepers(y, {})
  BY <1>5, <1>7, ReadySelectKeeps
<1> HIDE DEF x
<1>9. /\ x.cur = Select /\ x.deadq = k.deadq /\ x.dead = k.dead /\ x.waiter = k.waiter /\ x.sched[0] # <<>>
      /\ Sleepers(x, {}) \subseteq Sleepers(k, {})
      /\ \A t \in Threads : x.runtime[t] \in {k.runtime[t], NoTime, WokenEarly}
  <2>1. <<Select>> # <<>>
    OBVIOUS
  <2> QED
    BY <1>1, <1>6, <1>7, <1>8, <2>1 DEF Woken, Alike
<1> QED
  BY <1>1, <1>8, <1>9, SelectLeaves

\* The select thread has somebody to serve, or gives up its place.
LEMMA SelectLoopKeeps ==
  ASSUME SchedInv, SelectLoop
  PROVE  SchedInv'
<1>1. k.cur = Select /\ now' = now
  BY DEF SelectLoop
<1>2. Sound(k, {}) /\ Timed(k) /\ Apart(k, {}, Existing) /\ Mortal(k) /\ k \in Data
  BY <1>1, SelectIs DEF Sound
<1>3. CASE k.nfds = 0 /\ k.delayq = <<>>
  <2> DEFINE x == [k EXCEPT !.maxfd = 0]
  <2>1. k' = Reschedule(x) /\ pc' = [pc EXCEPT ![Select] = "parked"]
    BY <1>3 DEF SelectLoop, Block
  <2>2. x \in Data
    BY <1>2, ConstantsAssumption DEF Data
  <2>3. /\ x.dead = k.dead /\ x.runtime = k.runtime
        /\ x.fds = k.fds /\ x.nfds = k.nfds /\ x.fdwait = k.fdwait /\ x.fd = k.fd
        /\ x.sched = k.sched /\ x.delayq = k.delayq /\ x.oops = k.oops
        /\ x.cur = k.cur /\ x.deadq = k.deadq /\ x.freed = k.freed
        /\ x.maxfd = 0 /\ x.waiter = k.waiter
    BY <1>2 DEF Data
  <2> HIDE DEF x
  <2>4. k.fds = {}
    BY <1>2, <1>3, FS_EmptySet DEF Sound, FdsAgree
  <2>5. \A f \in Fds : k.fdwait[f] = None
    BY <1>2, <2>4 DEF Sound, FdsAgree
  <2>6. FdWaiters(k) = {} /\ ToSet(k.delayq) = {}
    BY <1>3, <2>5, EmptyIsQueue, WorkersThreads DEF FdWaiters
  <2>7. Sleepers(x, {}) = {} /\ Sleepers(k, {}) = {} /\ ReadySet(x) = ReadySet(k)
    BY <2>3, <2>6 DEF Sleepers, FdWaiters, ReadySet
  <2>8. FdsAgree(x)
    BY <1>2, <2>3, <2>5 DEF Sound, FdsAgree
  <2>9. Sound(x, {}) /\ Apart(x, {}, Existing) /\ Mortal(x) /\ Idle(x)
    <3>1. Sound(x, {})
      BY <1>2, <2>2, <2>3, <2>7, <2>8 DEF Sound
    <3>2. Apart(x, {}, Existing)
      BY <1>2, <2>3, <2>7 DEF Apart
    <3>3. Mortal(x) /\ Idle(x)
      BY <1>2, <2>3, <2>7 DEF Mortal, Idle
    <3> QED
      BY <3>1, <3>2, <3>3
  <2> QED
    BY <1>1, <2>1, <2>3, <2>7, <2>9, SelectLeaves
<1>4. CASE ~(k.nfds = 0 /\ k.delayq = <<>>)
  <2>1. k' = k /\ pc' = [pc EXCEPT ![Select] = "select"]
    BY <1>4 DEF SelectLoop
  <2>2. /\ pc \in [Procs -> Places] /\ Select \in Procs /\ now \in Nat \ {0} /\ now <= MaxTime
        /\ k.dead = {t \in Threads : pc[t] = "dead"} /\ pc[Main] \in {"run", "sigwait"}
        /\ k.waiter = Main => pc[Main] = "sigwait"
        /\ pc[Main] = "sigwait" => ServerUp
        /\ \A t \in Sleepers(k, {}) : pc[t] \in {"sleep", "sleepfd"}
    BY DEF SchedInv, Procs
  <2>3. pc' \in [Procs -> Places] /\ \A t \in Threads : pc'[t] = pc[t]
    BY <2>1, <2>2, WorkersThreads DEF Places
  <2>4. Existing' = Existing
    BY <2>3 DEF Existing
  <2>5. pc'[Main] = pc[Main] /\ (ServerUp => ServerUp')
    BY <2>3, WorkersThreads, ConstantsAssumption DEF ServerUp, Threads
  <2>6. k.dead = {t \in Threads : pc'[t] = "dead"}
    BY <2>2, <2>3
  <2>7. \A t \in Sleepers(k, {}) : pc'[t] \in {"sleep", "sleepfd"}
    <3>1. Sleepers(k, {}) \subseteq Threads
      BY <1>2, QueueIsEmpty, WorkersThreads DEF Sleepers, FdWaiters, Sound
    <3> QED
      BY <2>2, <2>3, <3>1
  <2>8. Sound(k', {}) /\ Timed(k') /\ Woken(k, {}, k', {})
    BY <1>2, <2>1 DEF Woken, Alike
  <2> QED
    BY <1>1, <2>2, <2>3, <2>4, <2>5, <2>6, <2>7, <2>8, StaysKeeps
<1> QED
  BY <1>3, <1>4

\* lwpReady(LwpSelProc) for the first sleeper: the select thread will serve.
LEMMA RouseSelectIs ==
  ASSUME NEW x \in Data, x.sched[0] \in {<<>>, <<Select>>}, x.sched[0] = <<>> => x.maxfd = 0 /\ x.delayq = <<>>
  PROVE  LET y == RouseSelect(x)
         IN  /\ y \in Data /\ y.sched[0] = <<Select>> /\ y.sched[1] = x.sched[1]
             /\ y.cur = x.cur /\ y.deadq = x.deadq /\ y.dead = x.dead /\ y.freed = x.freed
             /\ y.maxfd = x.maxfd /\ y.waiter = x.waiter /\ y.oops = x.oops
             /\ y.delayq = x.delayq /\ y.fds = x.fds /\ y.nfds = x.nfds /\ y.fdwait = x.fdwait
             /\ y.fd = x.fd /\ y.fdready = x.fdready /\ y.runtime = x.runtime /\ y.check = x.check
<1>1. CASE x.maxfd = 0 /\ x.delayq = <<>>
  <2>1. RouseSelect(x) = Ready(x, Select)
    BY <1>1 DEF RouseSelect
  <2> QED
    BY <2>1, ReadySelectIs
<1>2. CASE ~(x.maxfd = 0 /\ x.delayq = <<>>)
  <2>1. RouseSelect(x) = x
    BY <1>2 DEF RouseSelect
  <2> QED
    BY <1>2, <2>1
<1> QED
  BY <1>1, <1>2

\* A thread that ran is now asleep.
LEMMA FallAsleep ==
  ASSUME SchedInv, NEW t \in Workers, k.cur = t, NEW x \in Data,
         x.sched[1] = k.sched[1], x.sched[0] = <<Select>>, ~x.oops, x.delayq \in Queue(Workers), FdsAgree(x),
         Sleepers(x, {}) = Sleepers(k, {}) \cup {t},
         x.cur = k.cur, x.deadq = k.deadq, x.dead = k.dead, x.freed = k.freed, x.waiter = k.waiter,
         \A p \in Threads : x.runtime[p] \in NoTime..Never,
         NEW w \in {"sleep", "sleepfd"}, pc' = [pc EXCEPT ![t] = w], k' = Reschedule(x), now' = now, pc[t] = "run"
  PROVE  SchedInv'
<1>1. PICK m \in Existing \cap (Keepers \cup {Main}) : m \in Threads /\ m \notin k.dead /\ m # k.waiter
  BY SomeoneLives
<1>2. /\ Sound(k, {}) /\ Apart(k, {t}, Existing) /\ Mortal(k)
      /\ t \in Existing /\ t \notin k.dead /\ t # k.waiter /\ t \notin ReadySet(k) \cup Sleepers(k, {}) \cup ToSet(k.deadq)
      /\ pc[Select] \notin {"select", "eintr"}
  BY WorkersThreads, RunnerIs
<1>3. Sound(x, {})
  <2>1. ReadySet(x) = ReadySet(k)
    BY DEF ReadySet
  <2> QED
    BY <1>2, <2>1 DEF Sound
<1>4. Apart(x, {}, Existing) /\ Mortal(x)
  <2>1. ReadySet(x) = ReadySet(k)
    BY DEF ReadySet
  <2>2. Apart(x, {}, Existing)
    BY <1>2, <2>1 DEF Apart
  <2>3. Mortal(x)
    BY <1>2 DEF Mortal
  <2> QED
    BY <2>2, <2>3
<1>5. /\ pc \in [Procs -> Places] /\ t \in Procs /\ Select \in Procs /\ t # Select /\ t # Main /\ t \in Threads
      /\ Main \in Threads
  BY WorkersThreads DEF SchedInv, Procs, Threads
<1>6. pc' \in [Procs -> Places] /\ pc'[t] = w /\ \A p \in Procs : p # t => pc'[p] = pc[p]
  BY <1>5 DEF Places
<1>7. Existing' = Existing
  BY <1>2, <1>5, <1>6, WorkersThreads DEF Existing
<1>8. /\ k.dead = {p \in Threads : pc[p] = "dead"} /\ k.waiter \in {Main, None} /\ pc[Main] \in {"run", "sigwait"}
      /\ k.waiter = Main => pc[Main] = "sigwait"
      /\ pc[Main] = "sigwait" => ServerUp
      /\ \A p \in Sleepers(k, {}) : pc[p] \in {"sleep", "sleepfd"}
  BY DEF SchedInv
<1>9. pc'[Main] = pc[Main] /\ pc'[Select] = pc[Select] /\ (ServerUp => ServerUp')
  BY <1>5, <1>6, WorkersThreads, ConstantsAssumption DEF ServerUp
<1>10. x.dead = {p \in Threads : pc'[p] = "dead"}
  BY <1>5, <1>6, <1>8, WorkersThreads
<1>11. \A p \in Sleepers(x, {}) : pc'[p] \in {"sleep", "sleepfd"}
  <2>1. Sleepers(k, {}) \subseteq Threads
    BY <1>2, QueueIsEmpty, WorkersThreads DEF Sleepers, FdWaiters, Sound
  <2> QED
    BY <1>2, <1>6, <1>8, <2>1, WorkersThreads
<1>12. Leaves(x, Existing', m)
  <2>1. <<Select>> # <<>>
    OBVIOUS
  <2> QED
    BY <1>1, <1>2, <1>3, <1>4, <1>5, <1>7, <2>1 DEF Leaves
<1> QED
  BY <1>2, <1>6, <1>8, <1>9, <1>10, <1>11, <1>12, BlockKeeps

\* A thread goes to sleep on time.
LEMMA SleepUntilKeeps ==
  ASSUME SchedInv, NEW t \in Threads, NEW T \in now + 1 .. Never, SleepUntil(t, T)
  PROVE  SchedInv'
<1> DEFINE y == RouseSelect(k)
           r == [y.runtime EXCEPT ![t] = T]
           d == AddTail(y.delayq, t)
           x == [y EXCEPT !.runtime = r, !.delayq = d]
<1>1. /\ k.cur = t /\ pc[t] = "run" /\ t \in Workers /\ now' = now /\ pc' = [pc EXCEPT ![t] = "sleep"]
      /\ k' = Reschedule(x)
  BY DEF SleepUntil, Runs, Block, Threads
<1>2. /\ Sound(k, {}) /\ t \notin ReadySet(k) \cup Sleepers(k, {}) /\ (k.sched[0] = <<>> => Idle(k))
      /\ k \in Data
  BY <1>1, RunnerIs DEF Sound
<1>3. k.sched[0] = <<>> => k.maxfd = 0 /\ k.delayq = <<>>
  BY <1>2, QueueIsEmpty DEF Idle, Sleepers, Sound
<1>4. /\ y \in Data /\ y.sched[0] = <<Select>> /\ y.sched[1] = k.sched[1]
      /\ y.cur = k.cur /\ y.deadq = k.deadq /\ y.dead = k.dead /\ y.freed = k.freed
      /\ y.maxfd = k.maxfd /\ y.waiter = k.waiter /\ y.oops = k.oops
      /\ y.delayq = k.delayq /\ y.fds = k.fds /\ y.nfds = k.nfds /\ y.fdwait = k.fdwait
      /\ y.fd = k.fd /\ y.runtime = k.runtime
  BY <1>2, <1>3, RouseSelectIs DEF Sound
<1> HIDE DEF y
<1>5. T \in Int /\ T \in NoTime..Never
  <2>1. now \in Nat /\ MaxTime \in Nat
    BY ConstantsAssumption DEF SchedInv
  <2> QED
    BY <2>1 DEF NoTime, Never
<1>6. r \in [Threads -> Int] /\ \A p \in Threads : r[p] \in NoTime..Never
  <2>1. y.runtime \in [Threads -> Int] /\ \A p \in Threads : y.runtime[p] \in NoTime..Never
    BY <1>4 DEF Data, SchedInv
  <2> QED
    BY <1>5, <2>1
<1>7. d \in Queue(Workers) /\ ToSet(d) = ToSet(k.delayq) \cup {t}
  BY <1>1, <1>2, <1>4, AddTailIs DEF Sound, Sleepers
<1>8. d \in Seq(Threads)
  BY <1>7, WorkersThreads DEF Queue
<1> HIDE DEF r, d
<1>9. x \in Data
  BY <1>4, <1>6, <1>8 DEF Data
<1>10. /\ x.runtime = r /\ x.delayq = d
       /\ x.fds = y.fds /\ x.nfds = y.nfds /\ x.fdwait = y.fdwait /\ x.fd = y.fd
       /\ x.sched = y.sched /\ x.oops = y.oops
       /\ x.cur = y.cur /\ x.deadq = y.deadq /\ x.dead = y.dead /\ x.freed = y.freed
       /\ x.maxfd = y.maxfd /\ x.waiter = y.waiter
  BY <1>4 DEF Data
<1> HIDE DEF x
<1>11. FdsAgree(x) /\ FdWaiters(x) = FdWaiters(k) /\ ~x.oops
  BY <1>2, <1>4, <1>10 DEF Sound, FdsAgree, FdWaiters
<1>12. Sleepers(x, {}) = Sleepers(k, {}) \cup {t}
  BY <1>7, <1>10, <1>11 DEF Sleepers
<1> QED
  BY <1>1, <1>4, <1>6, <1>7, <1>9, <1>10, <1>11, <1>12, FallAsleep

\* A thread goes to sleep on an fd nobody else waits for.
LEMMA SleepFdKeeps ==
  ASSUME SchedInv, NEW t \in Threads, NEW f \in Fds, NEW T \in now .. Never, SleepFd(t, f, T)
  PROVE  SchedInv'
<1>1. k.cur = t /\ pc[t] = "run" /\ t \in Workers /\ now' = now /\ f # 0 /\ t \in Procs /\ t # Main /\ t # None
  BY WorkersThreads, ConstantsAssumption DEF SleepFd, Runs, Threads
<1>2. /\ Sound(k, {}) /\ t \notin ReadySet(k) \cup Sleepers(k, {}) /\ (k.sched[0] = <<>> => Idle(k))
      /\ k \in Data
  BY <1>1, RunnerIs DEF Sound
<1>3. CASE k.fdwait[f] # None
  <2>1. UNCHANGED <<k, pc, now>>
    BY <1>3 DEF SleepFd
  <2> QED
    BY <2>1 DEF SchedInv, ServerUp, Existing
<1>4. CASE k.fdwait[f] = None
  <2> DEFINE b == [k EXCEPT !.fds = k.fds \cup {f}, !.nfds = k.nfds + 1]
             y == RouseSelect(b)
             v == IF T = Never THEN NoTime ELSE T
             r == [y.runtime EXCEPT ![t] = v]
             d == IF T = Never THEN y.delayq ELSE AddTail(y.delayq, t)
             mx == IF f > y.maxfd THEN f ELSE y.maxfd
             fw == [y.fdwait EXCEPT ![f] = t]
             fd == [y.fd EXCEPT ![t] = f]
             fr == [y.fdready EXCEPT ![t] = FALSE]
             x == [y EXCEPT !.runtime = r, !.delayq = d, !.maxfd = mx, !.fdwait = fw, !.fd = fd, !.fdready = fr]
  <2>1. pc' = [pc EXCEPT ![t] = "sleepfd"] /\ k' = Reschedule(x)
    BY <1>4 DEF SleepFd, Block
  <2>2. b \in Data
    <3>1. k.fds \cup {f} \in SUBSET Fds /\ k.nfds + 1 \in Int
      BY <1>2 DEF Data
    <3> QED
      BY <1>2, <3>1 DEF Data
  <2>3. /\ b.fds = k.fds \cup {f} /\ b.nfds = k.nfds + 1
        /\ b.fdwait = k.fdwait /\ b.fd = k.fd /\ b.fdready = k.fdready
        /\ b.sched = k.sched /\ b.runtime = k.runtime /\ b.oops = k.oops /\ b.delayq = k.delayq
        /\ b.cur = k.cur /\ b.deadq = k.deadq /\ b.dead = k.dead /\ b.freed = k.freed
        /\ b.maxfd = k.maxfd /\ b.waiter = k.waiter
    BY <1>2 DEF Data
  <2> HIDE DEF b
  <2>4. b.sched[0] \in {<<>>, <<Select>>} /\ (b.sched[0] = <<>> => b.maxfd = 0 /\ b.delayq = <<>>)
    BY <1>2, <2>3, QueueIsEmpty DEF Idle, Sleepers, Sound
  <2>5. /\ y \in Data /\ y.sched[0] = <<Select>> /\ y.sched[1] = b.sched[1]
        /\ y.cur = b.cur /\ y.deadq = b.deadq /\ y.dead = b.dead /\ y.freed = b.freed
        /\ y.maxfd = b.maxfd /\ y.waiter = b.waiter /\ y.oops = b.oops
        /\ y.delayq = b.delayq /\ y.fds = b.fds /\ y.nfds = b.nfds /\ y.fdwait = b.fdwait
        /\ y.fd = b.fd /\ y.fdready = b.fdready /\ y.runtime = b.runtime
    BY <2>2, <2>4, RouseSelectIs
  <2> HIDE DEF y
  <2>6. v \in Int /\ v \in NoTime..Never
    <3>1. now \in Nat /\ MaxTime \in Nat
      BY ConstantsAssumption DEF SchedInv
    <3> QED
      BY <3>1 DEF NoTime, Never
  <2> HIDE DEF v
  <2>7. r \in [Threads -> Int] /\ \A p \in Threads : r[p] \in NoTime..Never
    <3>1. y.runtime \in [Threads -> Int] /\ \A p \in Threads : y.runtime[p] \in NoTime..Never
      BY <2>3, <2>5 DEF Data, SchedInv
    <3> QED
      BY <2>6, <3>1
  <2>8. d \in Queue(Workers) /\ ToSet(k.delayq) \subseteq ToSet(d) /\ ToSet(d) \subseteq ToSet(k.delayq) \cup {t}
    <3>1. t \notin ToSet(k.delayq) /\ k.delayq \in Queue(Workers) /\ y.delayq = k.delayq
      BY <1>2, <2>3, <2>5 DEF Sound, Sleepers
    <3>2. AddTail(k.delayq, t) \in Queue(Workers) /\ ToSet(AddTail(k.delayq, t)) = ToSet(k.delayq) \cup {t}
      BY <1>1, <3>1, AddTailIs
    <3> QED
      BY <3>1, <3>2
  <2>9. d \in Seq(Threads)
    BY <2>8, WorkersThreads DEF Queue
  <2>10. mx \in Fds /\ f <= mx /\ k.maxfd <= mx
    <3>1. k.maxfd \in Fds /\ y.maxfd = k.maxfd /\ Fds \subseteq Nat
      BY <1>2, <2>3, <2>5, ConstantsAssumption DEF Data
    <3>2. k.maxfd \in Nat /\ f \in Nat
      BY <3>1
    <3> QED
      BY <3>1, <3>2
  <2>11. fw \in [Fds -> Threads \cup {None}] /\ \A g \in Fds : fw[g] = IF g = f THEN t ELSE k.fdwait[g]
    <3>1. y.fdwait \in [Fds -> Threads \cup {None}] /\ y.fdwait = k.fdwait
      BY <2>3, <2>5 DEF Data
    <3> QED
      BY <3>1
  <2>12. fd \in [Threads -> Int] /\ \A p \in Threads : fd[p] = IF p = t THEN f ELSE k.fd[p]
    <3>1. y.fd \in [Threads -> Int] /\ y.fd = k.fd
      BY <2>3, <2>5 DEF Data
    <3>2. f \in Int
      BY ConstantsAssumption
    <3> QED
      BY <3>1, <3>2
  <2>13. fr \in [Threads -> BOOLEAN]
    BY <2>5 DEF Data
  <2> HIDE DEF r, d, mx, fw, fd, fr
  <2>14. x \in Data
    BY <2>5, <2>7, <2>9, <2>10, <2>11, <2>12, <2>13 DEF Data
  <2>15. /\ x.runtime = r /\ x.delayq = d /\ x.maxfd = mx /\ x.fdwait = fw /\ x.fd = fd
         /\ x.fds = y.fds /\ x.nfds = y.nfds /\ x.sched = y.sched /\ x.oops = y.oops
         /\ x.cur = y.cur /\ x.deadq = y.deadq /\ x.dead = y.dead /\ x.freed = y.freed
         /\ x.waiter = y.waiter
    BY <2>5 DEF Data
  <2> HIDE DEF x
  <2>16. FdsAgree(k) /\ t \notin FdWaiters(k) /\ t \notin ToSet(k.delayq)
    BY <1>2 DEF Sound, Sleepers
  <2>17. FdWaiters(x) = FdWaiters(k) \cup {t}
    BY <1>1, <1>4, <2>11, <2>15, WorkersThreads DEF FdWaiters
  <2>18. Sleepers(x, {}) = Sleepers(k, {}) \cup {t}
    BY <2>8, <2>15, <2>17 DEF Sleepers
  <2>19. FdsAgree(x)
    <3>1. x.fds = {g \in Fds : x.fdwait[g] # None}
      BY <1>1, <1>4, <2>3, <2>5, <2>11, <2>15, <2>16 DEF FdsAgree
    <3>2. IsFiniteSet(x.fds) /\ x.nfds = Cardinality(x.fds)
      <4>1. f \notin k.fds /\ IsFiniteSet(k.fds) /\ k.nfds = Cardinality(k.fds)
        BY <1>4, <2>16 DEF FdsAgree
      <4>2. IsFiniteSet(k.fds \cup {f}) /\ Cardinality(k.fds \cup {f}) = Cardinality(k.fds) + 1
        BY <4>1, FS_AddElement, Zenon
      <4> QED
        BY <2>3, <2>5, <2>15, <4>1, <4>2
    <3>3. \A g \in Fds : x.fdwait[g] # None => x.fdwait[g] \in Workers /\ x.fd[x.fdwait[g]] = g /\ g <= x.maxfd
      <4>1. \A g \in Fds : g \in Nat
        BY ConstantsAssumption
      <4>2. \A g \in Fds : k.fdwait[g] # None => k.fdwait[g] \in Workers /\ k.fd[k.fdwait[g]] = g /\ g <= k.maxfd /\ k.fdwait[g] # t
        BY <1>1, <2>16, WorkersThreads DEF FdsAgree, FdWaiters
      <4>3. k.maxfd \in Nat /\ mx \in Nat
        BY <1>2, <2>10, ConstantsAssumption DEF Data
      <4>4. \A g \in Nat : g <= k.maxfd => g <= mx
        BY <2>10, <4>3
      <4>5. \A g \in Fds : g <= k.maxfd => g <= mx
        BY <4>1, <4>4
      <4> QED
        BY <1>1, <2>10, <2>11, <2>12, <2>15, <4>2, <4>5, WorkersThreads
    <3>4. \A p \in Workers : x.fd[p] = -1 \/ (x.fd[p] \in Fds /\ x.fdwait[x.fd[p]] = p)
      BY <1>1, <1>4, <2>11, <2>12, <2>15, <2>16, WorkersThreads DEF FdsAgree
    <3> QED
      BY <3>1, <3>2, <3>3, <3>4 DEF FdsAgree
  <2>20. ~x.oops
    BY <1>2, <2>3, <2>5, <2>15 DEF Sound
  <2> QED
    BY <1>1, <2>1, <2>3, <2>5, <2>7, <2>8, <2>14, <2>15, <2>18, <2>19, <2>20, FallAsleep
<1> QED
  BY <1>3, <1>4

-----------------------------------------------------------------------------

\* After lwpInitSystem() Main runs and the select thread is ready.
LEMMA InitHolds == Init => SchedInv
<1> SUFFICES ASSUME Init PROVE SchedInv
  OBVIOUS
<1> DEFINE sc == [i \in 0..1 |-> IF i = 0 THEN <<Select>> ELSE <<>>]
           fw == [f \in Fds |-> None]
           fd == [t \in Threads |-> IF t = Main THEN 0 ELSE -1]
           fr == [t \in Threads |-> FALSE]
           rt == [t \in Threads |-> IF t = Main THEN WokenEarly ELSE NoTime]
<1>1. k = [cur |-> Main, sched |-> sc, deadq |-> <<>>, dead |-> {},
           freed |-> {}, delayq |-> <<>>, fds |-> {}, nfds |-> 0, maxfd |-> 0,
           fdwait |-> fw, fd |-> fd, fdready |-> fr, runtime |-> rt,
           waiter |-> None, check |-> FALSE, oops |-> FALSE]
  BY DEF Init
<1>2. sc \in [0..1 -> Seq(Procs)] /\ sc[0] = <<Select>> /\ sc[1] = <<>>
  <2>1. Select \in Procs
    BY DEF Procs
  <2>2. <<Select>> \in Seq(Procs) /\ <<>> \in Seq(Procs)
    BY <2>1
  <2> QED
    BY <2>2
<1>3. fw \in [Fds -> Threads \cup {None}] /\ \A f \in Fds : fw[f] = None
  OBVIOUS
<1>4. fd \in [Threads -> Int] /\ \A t \in Workers : fd[t] = -1
  <2>1. -1 \in Int /\ 0 \in Int
    OBVIOUS
  <2> QED
    BY <2>1, WorkersThreads
<1>5. fr \in [Threads -> BOOLEAN]
  OBVIOUS
<1>6. rt \in [Threads -> Int] /\ \A t \in Threads : rt[t] \in NoTime..Never
  <2>1. NoTime \in Int /\ WokenEarly \in Int /\ NoTime \in NoTime..Never /\ WokenEarly \in NoTime..Never
    BY ConstantsAssumption DEF NoTime, WokenEarly, Never
  <2> QED
    BY <2>1
<1> HIDE DEF sc, fw, fd, fr, rt
<1>7. k \in Data
  <2>1. <<>> \in Seq(Threads) /\ Main \in Procs /\ 0 \in Int /\ 0 \in Fds
    BY WorkersThreads, ConstantsAssumption DEF Threads, Procs
  <2> QED
    BY <1>1, <1>2, <1>3, <1>4, <1>5, <1>6, <2>1 DEF Data
<1>8. /\ k.cur = Main /\ k.sched[0] = <<Select>> /\ k.sched[1] = <<>> /\ k.deadq = <<>> /\ k.dead = {}
      /\ k.freed = {} /\ k.delayq = <<>> /\ k.fds = {} /\ k.nfds = 0 /\ k.maxfd = 0
      /\ k.fdwait = fw /\ k.fd = fd /\ k.runtime = rt /\ k.waiter = None /\ ~k.oops
  BY <1>1, <1>2
<1>9. ReadySet(k) = {} /\ Sleepers(k, {}) = {} /\ ToSet(k.deadq) = {} /\ ToSet(k.delayq) = {}
  <2>1. FdWaiters(k) = {}
    BY <1>3, <1>8, WorkersThreads DEF FdWaiters
  <2> QED
    BY <1>8, <2>1, EmptyIsQueue DEF ReadySet, Sleepers
<1>10. FdsAgree(k)
  BY <1>3, <1>4, <1>8, FS_EmptySet DEF FdsAgree
<1>11. Sound(k, {})
  BY <1>7, <1>8, <1>9, <1>10, EmptyIsQueue DEF Sound
<1>12. /\ pc \in [Procs -> Places] /\ pc[Main] = "run" /\ pc[Select] = "run"
       /\ \A t \in Workers : pc[t] = "new"
       /\ now \in Nat \ {0} /\ now <= MaxTime
  <2>1. Main \in Procs /\ Select \in Procs /\ Main \notin Workers /\ Select \notin Workers /\ Workers \subseteq Procs
    BY ConstantsAssumption DEF Procs, Threads
  <2>2. now = 1 /\ MaxTime \in Nat \ {0}
    BY ConstantsAssumption DEF Init
  <2>3. pc = [p \in Procs |-> IF p \in Workers THEN "new" ELSE "run"]
    BY DEF Init
  <2> QED
    BY <2>1, <2>2, <2>3 DEF Places
<1>13. Existing = {Main} /\ Main \in Threads /\ {Main} \cap Threads = {Main} /\ Main # None
  BY <1>12, ConstantsAssumption DEF Existing, Threads, Procs
<1>14. Apart(k, {Main}, Existing)
  BY <1>8, <1>9, <1>13, EmptyIsQueue DEF Apart
<1>15. Mortal(k) /\ Timed(k)
  BY <1>8, <1>9, WorkersThreads DEF Mortal, Timed
<1>16. k.dead = {t \in Threads : pc[t] = "dead"}
  BY <1>8, <1>12 DEF Threads
<1>17. k.cur \in Procs /\ Main # Select /\ <<Select>> # <<>>
  BY <1>8, ConstantsAssumption DEF Procs, Threads
<1> QED
  BY <1>6, <1>8, <1>9, <1>11, <1>12, <1>13, <1>14, <1>15, <1>16, <1>17 DEF SchedInv

\* Every step keeps the invariant.
LEMMA NextKeeps == SchedInv /\ [Next]_vars => SchedInv'
<1> SUFFICES ASSUME SchedInv, [Next]_vars PROVE SchedInv'
  OBVIOUS
<1>1. CASE UNCHANGED vars
  BY <1>1 DEF vars, SchedInv, ServerUp, Existing
<1>2. CASE \E t \in Threads : Blocks(t) \/ Return(t) \/ Yield(t) \/ \E u \in Threads : WakeUp(t, u) \/ Create(t, u)
  BY <1>2, SleepUntilKeeps, SleepFdKeeps, SigWaitKeeps, ExitKeeps, ReturnKeeps, YieldKeeps, WakeUpKeeps, CreateKeeps DEF Blocks
<1>3. CASE SelectLoop
  BY <1>3, SelectLoopKeeps
<1>4. CASE \E ready \in SUBSET k.fds : SelectReturns(ready)
  BY <1>4, SelectReturnsKeeps
<1>5. CASE SelectInterrupted
  BY <1>5, SelectInterruptedKeeps
<1>6. CASE \E s \in ToSet(Awaited) : Signal(s)
  BY <1>6, SignalKeeps
<1>7. CASE Tick
  BY <1>7, TickKeeps
<1> QED
  BY <1>1, <1>2, <1>3, <1>4, <1>5, <1>6, <1>7 DEF Next

\* SchedInv holds of every state, for all threads, fds and bounds.
THEOREM Invariance == Spec => []SchedInv
<1>1. Init => SchedInv
  BY InitHolds
<1>2. SchedInv /\ [Next]_vars => SchedInv'
  BY NextKeeps
<1> QED
  BY <1>1, <1>2, PTL DEF Spec

-----------------------------------------------------------------------------

\* A thread is in a queue once, or not at all.
LEMMA TimesIs ==
  ASSUME NEW S, NEW q \in Queue(S), NEW t
  PROVE  Times(q, t) = IF t \in ToSet(q) THEN 1 ELSE 0
<1> DEFINE at == {i \in DOMAIN q : q[i] = t}
<1>1. q \in Seq(S) /\ Len(q) \in Nat /\ DOMAIN q = 1..Len(q)
  BY LenProperties DEF Queue
<1>2. CASE t \in ToSet(q)
  <2>1. PICK i \in 1..Len(q) : q[i] = t
    BY <1>1, <1>2 DEF ToSet
  <2>2. at = {i}
    BY <1>1, <2>1 DEF Queue
  <2>3. Cardinality({i}) = 1
    BY FS_Singleton
  <2> HIDE DEF at
  <2> QED
    BY <1>2, <2>2, <2>3 DEF Times, at
<1>3. CASE t \notin ToSet(q)
  <2>1. at = {}
    BY <1>1, <1>3 DEF ToSet
  <2>2. Cardinality({}) = 0
    BY FS_EmptySet
  <2> QED
    BY <1>3, <2>1, <2>2 DEF Times
<1> QED
  BY <1>2, <1>3

\* Who sleeps, in words of the specification and of the invariant.
LEMMA AsleepIs ==
  ASSUME SchedInv, NEW t \in Threads
  PROVE  Asleep(t) <=> t \in Sleepers(k, {})
<1>1. k.delayq \in Queue(Workers)
  BY DEF SchedInv, Sound
<1>2. Times(k.delayq, t) = IF t \in ToSet(k.delayq) THEN 1 ELSE 0
  BY <1>1, TimesIs
<1> QED
  BY <1>2 DEF Asleep, WaitsForFd, Sleepers, FdWaiters

\* The invariant gives the types,
LEMMA InvImpliesTypeOK == SchedInv => TypeOK
<1> SUFFICES ASSUME SchedInv PROVE TypeOK
  OBVIOUS
<1>1. /\ k \in Data /\ k.cur \in Procs /\ k.sched[1] \in Queue(Threads) /\ k.sched[0] \in {<<>>, <<Select>>}
      /\ k.delayq \in Queue(Workers) /\ pc \in [Procs -> Places]
      /\ \A t \in Threads : k.runtime[t] \in NoTime..Never
  BY DEF SchedInv, Sound
<1>2. k.delayq \in Seq(Threads) /\ k.fds \subseteq Fds /\ k.maxfd \in Fds /\ k.runtime \in [Threads -> Int]
  BY <1>1 DEF Data
<1>3. k.runtime \in [Threads -> NoTime..Never]
  BY <1>1, <1>2
<1>4. k.sched[1] \in Seq(Threads)
  BY <1>1 DEF Queue
<1>5. k.sched[0] \in Seq({Select})
  <2>1. <<>> \in Seq({Select}) /\ <<Select>> \in Seq({Select})
    OBVIOUS
  <2> QED
    BY <1>1, <2>1
<1> QED
  BY <1>1, <1>2, <1>3, <1>4, <1>5 DEF TypeOK, Places

\* and one place to each thread.
LEMMA InvImpliesOnePlace == SchedInv => OnePlace
<1> SUFFICES ASSUME SchedInv, NEW t \in Threads
             PROVE  /\ pc[t] # "new" =>
                         1 = (IF k.cur = t THEN 1 ELSE 0) + Times(k.sched[1], t) + Times(k.deadq, t)
                             + (IF k.waiter = t THEN 1 ELSE 0) + (IF Asleep(t) THEN 1 ELSE 0)
                             + (IF t \in k.freed THEN 1 ELSE 0)
                    /\ Times(k.delayq, t) <= 1
                    /\ Asleep(t) => pc[t] \in {"sleep", "sleepfd"}
  BY DEF OnePlace
<1>1. /\ Apart(k, {k.cur} \cap Threads, Existing) /\ k.sched[1] \in Queue(Threads) /\ k.deadq \in Queue(Threads)
      /\ k.delayq \in Queue(Workers) /\ \A u \in Sleepers(k, {}) : pc[u] \in {"sleep", "sleepfd"}
  BY DEF SchedInv, Sound, Apart
<1>2. /\ Times(k.sched[1], t) = IF t \in ReadySet(k) THEN 1 ELSE 0
      /\ Times(k.deadq, t) = IF t \in ToSet(k.deadq) THEN 1 ELSE 0
      /\ Times(k.delayq, t) = IF t \in ToSet(k.delayq) THEN 1 ELSE 0
  BY <1>1, TimesIs DEF ReadySet
<1>3. Asleep(t) <=> t \in Sleepers(k, {})
  BY AsleepIs
<1>4. t # None /\ (t \in {k.cur} \cap Threads <=> k.cur = t)
  BY WorkersThreads
<1> DEFINE A == k.cur = t
           B == t \in ReadySet(k)
           C == t \in ToSet(k.deadq)
           D == k.waiter = t
           S == t \in Sleepers(k, {})
           F == t \in k.freed
<1>5. /\ B => ~S /\ ~C /\ ~F /\ ~D /\ ~A
      /\ S => ~C /\ ~F /\ ~D /\ ~A
      /\ C => ~F /\ ~D /\ ~A
      /\ F => ~D /\ ~A
      /\ D => ~A
  BY <1>1, <1>4 DEF Apart
<1>6. t \in Existing => A \/ B \/ C \/ D \/ S \/ F
  BY <1>1, <1>4 DEF Apart
<1>7. ASSUME pc[t] # "new"
      PROVE  1 = (IF k.cur = t THEN 1 ELSE 0) + Times(k.sched[1], t) + Times(k.deadq, t)
                 + (IF k.waiter = t THEN 1 ELSE 0) + (IF Asleep(t) THEN 1 ELSE 0)
                 + (IF t \in k.freed THEN 1 ELSE 0)
  <2>1. A \/ B \/ C \/ D \/ S \/ F
    BY <1>6, <1>7 DEF Existing
  <2>2. /\ Times(k.sched[1], t) = IF B THEN 1 ELSE 0
        /\ Times(k.deadq, t) = IF C THEN 1 ELSE 0
        /\ Asleep(t) <=> S
    BY <1>2, <1>3
  <2> HIDE DEF B, C, S
  <2> QED
    BY <1>5, <2>1, <2>2
<1>8. Times(k.delayq, t) <= 1
  BY <1>2
<1>9. Asleep(t) => pc[t] \in {"sleep", "sleepfd"}
  BY <1>1, <1>3
<1> QED
  BY <1>7, <1>8, <1>9

\* No thread is lost, put in two places, freed too early or left asleep with
\* nobody to wake it, and lwpReschedule() always finds a thread to run: for
\* all numbers of threads, fds and signals and any length of time.
THEOREM NobodyIsLost == Spec => []NobodyLost
<1>1. SchedInv => NobodyLost
  <2> SUFFICES ASSUME SchedInv PROVE NobodyLost
    OBVIOUS
  <2>1. NoOops
    BY DEF NoOops, SchedInv, Sound
  <2>2. SelectServes
    BY AsleepIs DEF SelectServes, SchedInv, Idle
  <2> QED
    BY <2>1, <2>2, InvImpliesTypeOK, InvImpliesOnePlace DEF NobodyLost
<1> QED
  BY <1>1, Invariance, PTL

=============================================================================

---------------------------- MODULE EmpGameProofs ----------------------------
(***************************************************************************)
(* Theorems about the models that EmpGame puts side by side: the file      *)
(* tables (EmpFile), the world generator (EmpFairland) and the update      *)
(* (EmpUpdate).  They share no state.                                      *)
(***************************************************************************)
EXTENDS EmpFile, EmpFairland, EmpUpdate, EmpLemmas

-----------------------------------------------------------------------------
(***************************************************************************)
(* For any number of threads, records, cache slots, and any width of the   *)
(* sequence numbers and generations: the cache of a table is true, a write *)
(* that would undo another is noticed unless a counter went round, and a   *)
(* thread that did not give way is never accused.                          *)
(*                                                                         *)
(* The inductive invariant says where the records of a table are (Placed)  *)
(* and how a copy relates to the record it was made from (CopyKnows): its  *)
(* sequence number is not ahead of the record's, its generation not ahead  *)
(* of the server's, and only the running thread's copy can be of the       *)
(* present generation, and then it is of the present record.               *)
(***************************************************************************)

FilePlaced ==
  /\ fids \in 0 .. MaxIds
  /\ open /\ ~private => file \in [Ids -> Records]
  /\ private => mem
  /\ ~open => copy = NoCopies

CachePlaced ==
  open => IF mem
          THEN /\ baseid = 0 /\ cids = fids /\ fids <= csize
               /\ \A id \in Ids : cache[id] \in Records
               /\ ~private => \A id \in Ids : cache[id].n = file[id].n
          ELSE /\ csize = Slots /\ cids <= csize
               /\ baseid + cids <= fids \/ cids = 0
               /\ \A id \in Ids : Cached(id) => cache[Slot(id)] = file[id]

CopyKnows(t) ==
  copy[t] # NoCopy =>
    LET c == copy[t]
        r == Record(c.uid)
    IN  /\ mem => c.uid \in Ids
        /\ c.of.n <= r.n
        /\ c.gen <= generation
        /\ c.gen = generation => t = running /\ c.of = r
        /\ ~mem /\ c.of.n = r.n => c.of = r

Inv == TypeOK /\ FilePlaced /\ CachePlaced /\ \A t \in Threads : CopyKnows(t)
-----------------------------------------------------------------------------
\* Every record of an open table is one, wherever it is.
LEMMA RecordIsOne ==
  ASSUME TypeOK, FilePlaced, CachePlaced, open, NEW id \in Nat
  PROVE  Record(id) \in Records
<1>1. CASE id \notin Ids
  BY <1>1 DEF Record, Absent, Records
<1>2. CASE id \in Ids /\ mem
  BY <1>2 DEF Record, Cached, Slot, CachePlaced, Ids, TypeOK, FilePlaced
<1>3. CASE id \in Ids /\ ~mem
  BY <1>3 DEF Record, Cached, Slot, CachePlaced, Ids, TypeOK, FilePlaced
<1>4. QED
  BY <1>1, <1>2, <1>3

\* In a table that is not in memory, a record is what the file says.
LEMMA RecordIsInFile ==
  ASSUME TypeOK, FilePlaced, CachePlaced, open, ~mem, NEW id \in Nat
  PROVE  Record(id) = IF id \in Ids THEN file[id] ELSE Absent
BY DEF Record, CachePlaced, FilePlaced

\* In a table in memory, a record is what the cache says.
LEMMA RecordIsInCache ==
  ASSUME TypeOK, FilePlaced, CachePlaced, open, mem, NEW id \in Nat
  PROVE  /\ Record(id) = IF id \in Ids THEN cache[id] ELSE Absent
         /\ Cached(id) <=> id \in Ids
BY DEF Record, CachePlaced, FilePlaced, Cached, Slot, Ids, TypeOK

(***************************************************************************)
(* Moving the cache, to fill it or to steal its last slot, leaves its      *)
(* records true.                                                           *)
(***************************************************************************)
CacheMoves == /\ cache' \in [0 .. csize' - 1 -> Records \cup {Junk}]
              /\ csize' \in Nat /\ baseid' \in Nat /\ cids' \in Nat
              /\ csize' = csize
              /\ CachePlaced'
              /\ \A i \in Nat : Record(i)' = Record(i)

LEMMA FillKeepsPlaces ==
  ASSUME TypeOK, FilePlaced, CachePlaced, open, NEW id \in Ids, ~Cached(id),
         FillCache(id), UNCHANGED <<file, opening, fids>>
  PROVE  CacheMoves
<1>1. ~mem
  BY RecordIsInCache DEF Ids, FilePlaced
<1>2. file \in [Ids -> Records] /\ ~private
  BY <1>1 DEF FilePlaced
<1>3. /\ Least(csize, fids - id) \in Nat
      /\ Least(csize, fids - id) <= csize
      /\ id + Least(csize, fids - id) <= fids
  BY DEF Least, TypeOK, FilePlaced, Ids
<1>4. \A s \in 0 .. csize - 1 : s < Least(csize, fids - id) => id + s \in Ids
  BY <1>3 DEF Ids, TypeOK, FilePlaced
<1>5. cache' \in [0 .. csize - 1 -> Records \cup {Junk}]
  BY <1>2, <1>3, <1>4 DEF FillCache, TypeOK
<1>6. /\ baseid' = id /\ cids' = Least(csize, fids - id) /\ csize' = csize
      /\ mem' = mem /\ open' = open /\ fids' = fids /\ file' = file
  BY DEF FillCache, opening
<1>7. \A i \in Ids : Cached(i)' => cache'[Slot(i)'] = file[i]
  <2> SUFFICES ASSUME NEW i \in Ids, id <= i, i < id + Least(csize, fids - id)
               PROVE  cache'[i - id] = file[i]
    BY <1>6 DEF Cached, Slot
  <2>1. i - id \in 0 .. csize - 1 /\ i - id < Least(csize, fids - id) /\ id + (i - id) = i
    BY <1>3 DEF Ids, TypeOK, FilePlaced
  <2> QED
    BY <2>1 DEF FillCache, TypeOK
<1>8. CachePlaced'
  BY <1>1, <1>3, <1>6, <1>7 DEF CachePlaced, Ids, Cached, Slot, TypeOK
<1>9. \A i \in Nat : Record(i)' = Record(i)
  BY <1>1, <1>6, <1>7, RecordIsInFile DEF Record, Ids
<1> QED
  BY <1>3, <1>5, <1>6, <1>8, <1>9 DEF CacheMoves, Ids, TypeOK, FilePlaced

\* Stealing the last slot shortens what is cached, or changes nothing.
LEMMA GetSeqnoShrinks ==
  ASSUME TypeOK, FilePlaced, CachePlaced, open, NEW id \in Nat, GetSeqno(id)
  PROVE  /\ csize' = csize /\ baseid' = baseid /\ cids' \in 0 .. cids
         /\ cache' \in [0 .. csize - 1 -> Records \cup {Junk}]
         /\ \A s \in 0 .. csize - 1 : s < cids' => cache'[s] = cache[s]
         /\ mem => cache' = cache /\ cids' = cids
<1>1. CASE UNCHANGED caching
  BY <1>1 DEF caching, TypeOK
<1>2. CASE id \in Ids /\ ~Cached(id) /\ StealSlot(file[id])
  <2>1. ~mem
    BY <1>2, RecordIsInCache
  <2>2. file \in [Ids -> Records]
    BY <2>1 DEF FilePlaced
  <2>3. csize = Slots /\ cids <= csize /\ csize >= 1
    BY <2>1, SlotsAssumption DEF CachePlaced
  <2>4. Least(cids, csize - 1) \in 0 .. csize - 1 /\ Least(cids, csize - 1) <= cids
    BY <2>3 DEF Least, TypeOK
  <2>5. /\ cids' = Least(cids, csize - 1) /\ csize' = csize /\ baseid' = baseid
        /\ cache' = [cache EXCEPT ![Least(cids, csize - 1)] = file[id]]
    BY <1>2 DEF StealSlot
  <2> QED
    BY <1>2, <2>1, <2>2, <2>4, <2>5 DEF TypeOK
<1> QED
  BY <1>1, <1>2 DEF GetSeqno

LEMMA GetSeqnoKeepsPlaces ==
  ASSUME TypeOK, FilePlaced, CachePlaced, open, NEW id \in Nat,
         GetSeqno(id), UNCHANGED <<file, opening, fids>>
  PROVE  CacheMoves
<1>0. /\ csize' = csize /\ baseid' = baseid /\ cids' \in 0 .. cids
      /\ cache' \in [0 .. csize - 1 -> Records \cup {Junk}]
      /\ \A s \in 0 .. csize - 1 : s < cids' => cache'[s] = cache[s]
      /\ mem => cache' = cache /\ cids' = cids
  BY GetSeqnoShrinks
<1>1. PICK n \in 0 .. cids :
        /\ csize' = csize /\ baseid' = baseid /\ cids' = n
        /\ cache' \in [0 .. csize - 1 -> Records \cup {Junk}]
        /\ \A s \in 0 .. csize - 1 : s < n => cache'[s] = cache[s]
        /\ mem => cache' = cache /\ cids' = cids
  BY <1>0
<1>2. mem' = mem /\ open' = open /\ private' = private /\ fids' = fids /\ file' = file
  BY DEF opening
<1>3. CASE mem
  <2>1. CachePlaced'
    BY <1>1, <1>2, <1>3 DEF CachePlaced, Ids
  <2>2. \A i \in Nat : Record(i)' = Record(i)
    BY <1>1, <1>2, <1>3 DEF Record, Ids, Cached, Slot
  <2> QED
    BY <1>1, <2>1, <2>2 DEF CacheMoves, TypeOK
<1>4. CASE ~mem
  <2>0. /\ csize = Slots /\ cids <= csize
        /\ baseid + cids <= fids \/ cids = 0
    BY <1>4 DEF CachePlaced
  <2>1. ASSUME NEW i \in Ids, baseid <= i, i < baseid + n
        PROVE  cache'[i - baseid] = file[i] /\ Cached(i)
    <3>1. Cached(i) /\ i - baseid \in 0 .. csize - 1 /\ i - baseid < n
      BY <2>0, <2>1 DEF Cached, Ids, TypeOK
    <3> QED
      BY <1>1, <1>4, <3>1 DEF CachePlaced, Slot
  <2>2. CachePlaced'
    BY <1>1, <1>2, <1>4, <2>0, <2>1 DEF CachePlaced, Ids, Cached, Slot, TypeOK
  <2>3. \A i \in Nat : Record(i)' = Record(i)
    BY <1>1, <1>2, <1>4, <2>1, RecordIsInFile DEF Record, Ids, Cached, Slot
  <2> QED
    BY <1>1, <2>2, <2>3 DEF CacheMoves, TypeOK
<1> QED
  BY <1>3, <1>4

-----------------------------------------------------------------------------
\* What a thread's copy knows stays true while its record is left alone.
LEMMA CopyStillKnows ==
  ASSUME TypeOK, NEW t \in Threads, CopyKnows(t), copy'[t] = copy[t],
         UNCHANGED <<opening, fids, threads>>,
         \A i \in Nat : Record(i)' = Record(i)
  PROVE  CopyKnows(t)'
BY DEF CopyKnows, TypeOK, Copies, opening, threads, Ids

\* A buffer just made from the present record knows all about it.
LEMMA NewCopyKnows ==
  ASSUME TypeOK, FilePlaced, CachePlaced, open, UNCHANGED <<opening, fids, threads>>,
         NEW id \in Nat, MayMake(id), NEW g \in Nat, g <= generation,
         copy' = [copy EXCEPT ![running] = [uid |-> id, of |-> Record(id), gen |-> g]],
         \A i \in Nat : Record(i)' = Record(i)
  PROVE  CopyKnows(running)' /\ copy' \in [Threads -> Copies \cup {NoCopy}]
<1>1. Record(id) \in Records
  BY RecordIsOne
<1>2. copy'[running] = [uid |-> id, of |-> Record(id), gen |-> g] /\ running \in Threads
  BY DEF TypeOK
<1> QED
  BY <1>1, <1>2 DEF CopyKnows, TypeOK, Copies, Records, opening, threads, Ids, MayMake

LEMMA TakingKeepsInv ==
  ASSUME Inv, open, CacheMoves, NEW id \in Nat, MayMake(id),
         NEW g \in Nat, g <= generation,
         copy' = [copy EXCEPT ![running] = [uid |-> id, of |-> Record(id), gen |-> g]],
         UNCHANGED <<file, opening, fids, threads, data>>
  PROVE  Inv'
<1> USE DEF Inv
<1>1. \A i \in Nat : Record(i)' = Record(i)
  BY DEF CacheMoves
<1>2. CopyKnows(running)' /\ copy' \in [Threads -> Copies \cup {NoCopy}]
  BY <1>1, NewCopyKnows
<1>3. ASSUME NEW t \in Threads, t # running PROVE CopyKnows(t)'
  <2>1. copy'[t] = copy[t]
    BY <1>3 DEF TypeOK
  <2> QED
    BY <1>1, <2>1, CopyStillKnows
<1>4. TypeOK'
  BY <1>2 DEF TypeOK, CacheMoves, opening, threads
<1>5. FilePlaced'
  BY DEF FilePlaced, opening, Ids
<1>6. running' = running
  BY DEF threads
<1> QED
  BY <1>2, <1>3, <1>4, <1>5, <1>6 DEF CacheMoves

LEMMA ReadKeepsInv ==
  ASSUME Inv, NEW id \in 0 .. MaxIds - 1, Read(id)
  PROVE  Inv'
<1>1. CacheMoves
  BY FillKeepsPlaces, GetSeqnoKeepsPlaces DEF Inv, Read, GetSeqno, Ids
<1>2. MayMake(id) /\ id \in Nat /\ generation \in Nat /\ generation <= generation
  BY DEF Read, MayMake, Inv, TypeOK
<1> QED
  BY <1>1, <1>2, TakingKeepsInv DEF Read, SetCopy

LEMMA BlankCopyKeepsInv ==
  ASSUME Inv, NEW id \in 0 .. MaxIds - 1, BlankCopy(id)
  PROVE  Inv'
<1>1. CacheMoves
  BY GetSeqnoKeepsPlaces DEF Inv, BlankCopy
<1>2. generation \in Nat /\ generation <= generation /\ id \in Nat
  BY BoundsAssumption DEF Inv, TypeOK
<1> QED
  BY <1>1, <1>2, TakingKeepsInv DEF BlankCopy, SetCopy

LEMMA SetUidKeepsInv ==
  ASSUME Inv, NEW id \in 0 .. MaxIds - 1, SetUid(id)
  PROVE  Inv'
<1>1. CacheMoves
  BY GetSeqnoKeepsPlaces DEF Inv, SetUid
<1>2. copy[running] \in Copies /\ copy[running].gen <= generation /\ running \in Threads
  BY DEF Inv, TypeOK, CopyKnows, SetUid
<1>3. PICK c \in Copies : c = copy[running]
  BY <1>2
<1>4. c.gen \in Nat /\ c.gen <= generation /\ id \in Nat
  BY <1>2, <1>3, BoundsAssumption DEF Copies
<1> QED
  BY <1>1, <1>3, <1>4, TakingKeepsInv DEF SetUid, SetCopy

LEMMA PeekKeepsInv ==
  ASSUME Inv, NEW id \in 0 .. MaxIds - 1, Peek(id)
  PROVE  Inv'
<1>1. CacheMoves
  BY FillKeepsPlaces DEF Inv, Peek
<1>2. ASSUME NEW t \in Threads PROVE CopyKnows(t)'
  BY <1>1, CopyStillKnows DEF Peek, CacheMoves, Inv
<1>3. TypeOK'
  BY <1>1 DEF Inv, Peek, TypeOK, CacheMoves, opening, threads
<1>4. FilePlaced'
  BY DEF Inv, Peek, FilePlaced, opening, Ids
<1> QED
  BY <1>1, <1>2, <1>3, <1>4 DEF Inv, CacheMoves

LEMMA YieldKeepsInv ==
  ASSUME Inv, NEW u \in Threads, Yield(u)
  PROVE  Inv'
<1>1. \A i \in Nat : Record(i)' = Record(i)
  BY DEF Yield, Record, Ids, Cached, Slot, caching
<1>2. PICK g \in Nat : g = generation + 1 /\ generation' = g /\ running' = u /\ generation \in Nat
  BY DEF Yield, Inv, TypeOK
<1>3. ASSUME NEW t \in Threads PROVE CopyKnows(t)'
  <2>1. copy' = copy /\ mem' = mem /\ fids' = fids
    BY DEF Yield, opening
  <2>2. copy[t] # NoCopy => copy[t] \in Copies
    BY DEF Inv, TypeOK
  <2> QED
    BY <1>1, <1>2, <2>1, <2>2 DEF CopyKnows, Copies, Ids, Inv
<1>4. TypeOK'
  BY <1>2 DEF Inv, Yield, TypeOK, opening, caching
<1>5. FilePlaced' /\ CachePlaced'
  BY DEF Inv, Yield, FilePlaced, CachePlaced, opening, caching, Ids, Cached, Slot
<1> QED
  BY <1>3, <1>4, <1>5 DEF Inv

LEMMA FlushKeepsInv ==
  ASSUME Inv, Flush
  PROVE  Inv'
<1> USE DEF Inv
<1>0. open /\ UNCHANGED <<opening, caching, fids, threads, copy, data>>
  BY DEF Flush
<1>1. CASE mem /\ ~private
  <2>1. file \in [Ids -> Records] /\ (\A i \in Ids : cache[i] \in Records)
    BY <1>0, <1>1 DEF FilePlaced, CachePlaced
  <2>2. file' = [i \in Ids |-> cache[i]]
    BY <1>1, <2>1 DEF Flush, Flushed
  <2>3. file' \in [Ids -> Records] /\ fids \in 0 .. MaxIds
    BY <2>1, <2>2 DEF FilePlaced
  <2>4. TypeOK'
    BY <1>0, <2>3 DEF TypeOK, Ids, opening, caching, threads
  <2>5. FilePlaced'
    BY <1>0, <2>3 DEF FilePlaced, Ids, opening
  <2>6. CachePlaced'
    BY <1>0, <1>1, <2>2 DEF CachePlaced, Ids, Cached, Slot, opening, caching
  <2>7. \A i \in Nat : Record(i)' = Record(i)
    BY <1>0, <1>1, <2>2, RecordIsInCache DEF Record, Ids, Cached, Slot, opening, caching
  <2>8. ASSUME NEW t \in Threads PROVE CopyKnows(t)'
    BY <1>0, <2>7, CopyStillKnows
  <2> QED
    BY <2>4, <2>5, <2>6, <2>8
<1>2. CASE ~(mem /\ ~private)
  <2>1. file' = file
    BY <1>2 DEF Flush, Flushed
  <2>2. \A i \in Nat : Record(i)' = Record(i)
    BY <1>0, <2>1 DEF Record, Ids, Cached, Slot, caching
  <2>3. ASSUME NEW t \in Threads PROVE CopyKnows(t)'
    BY <1>0, <2>2, CopyStillKnows
  <2>4. TypeOK' /\ FilePlaced' /\ CachePlaced'
    BY <1>0, <2>1 DEF TypeOK, FilePlaced, CachePlaced, opening, caching, threads, Ids, Cached, Slot
  <2> QED
    BY <2>3, <2>4
<1> QED
  BY <1>1, <1>2

-----------------------------------------------------------------------------
\* Without copies there is nothing to know.
LEMMA NoCopiesKnow ==
  ASSUME copy' = NoCopies
  PROVE  \A t \in Threads : CopyKnows(t)'
BY DEF CopyKnows, NoCopies

LEMMA ForgettingKeepsInv ==
  ASSUME Inv, Forget, running' = running, generation' \in Nat, crashed' \in BOOLEAN,
         \E n \in 0 .. MaxIds : file' \in [0 .. n - 1 -> Records]
  PROVE  Inv'
<1>0. Empty \in [0 .. 0 - 1 -> Records \cup {Junk}]
  BY DEF Empty
<1>1. TypeOK'
  BY <1>0 DEF Inv, TypeOK, Forget, NoCopies
<1>2. FilePlaced' /\ CachePlaced'
  BY BoundsAssumption DEF FilePlaced, CachePlaced, Forget
<1> QED
  BY <1>1, <1>2, NoCopiesKnow DEF Inv, Forget

LEMMA CloseKeepsInv ==
  ASSUME Inv, Close
  PROVE  Inv'
<1>1. CASE mem /\ ~private
  <2>1. file \in [Ids -> Records] /\ (\A i \in Ids : cache[i] \in Records) /\ fids \in 0 .. MaxIds
    BY <1>1 DEF Inv, Close, FilePlaced, CachePlaced
  <2>2. file' \in [Ids -> Records]
    BY <1>1, <2>1 DEF Close, Flushed
  <2> QED
    BY <2>1, <2>2, ForgettingKeepsInv DEF Close, threads, Ids, Inv, TypeOK
<1>2. CASE ~(mem /\ ~private)
  BY <1>2, ForgettingKeepsInv DEF Close, Flushed, threads, Inv, TypeOK
<1> QED
  BY <1>1, <1>2

LEMMA CrashKeepsInv ==
  ASSUME Inv, Crash
  PROVE  Inv'
BY ForgettingKeepsInv DEF Crash, Inv, TypeOK

LEMMA OpenKeepsInv ==
  ASSUME Inv, NEW m \in BOOLEAN, NEW p \in BOOLEAN, Open(m, p)
  PROVE  Inv'
<1>1. PICK n \in 0 .. MaxIds :
        /\ DOMAIN file = 0 .. n - 1
        /\ fids' = n
        /\ IF m
           THEN /\ csize' = IF n = 0 THEN 1 ELSE n
                /\ cache' = [s \in 0 .. csize' - 1 |-> IF s < n THEN file[s] ELSE Junk]
                /\ cids' = n
           ELSE /\ csize' = Slots
                /\ cache' = [s \in 0 .. Slots - 1 |-> Junk]
                /\ cids' = 0
  BY DEF Open
<1>2. file \in [0 .. n - 1 -> Records] /\ n \in Nat
  BY <1>1 DEF Inv, TypeOK
<1>3. /\ open' = TRUE /\ mem' = m /\ private' = p /\ crashed' = FALSE /\ baseid' = 0 /\ (p => m)
      /\ UNCHANGED <<file, threads, copy, data>> /\ copy = NoCopies
  BY DEF Open, Inv, FilePlaced
<1>4. FilePlaced'
  BY <1>1, <1>2, <1>3 DEF FilePlaced, Ids
<1>5. CASE m
  <2>1. csize' \in Nat /\ csize' >= n /\ csize' = IF n = 0 THEN 1 ELSE n
    BY <1>1, <1>2, <1>5
  <2>2. cache' \in [0 .. csize' - 1 -> Records \cup {Junk}]
    BY <1>1, <1>2, <1>5, <2>1
  <2>3. \A id \in 0 .. n - 1 : cache'[id] = file[id]
    BY <1>1, <1>2, <1>5, <2>1
  <2>4. TypeOK'
    BY <1>1, <1>2, <1>3, <1>5, <2>1, <2>2 DEF Inv, TypeOK, threads
  <2>5. CachePlaced'
    BY <1>1, <1>2, <1>3, <1>5, <2>1, <2>3 DEF CachePlaced, Ids
  <2> QED
    BY <1>3, <1>4, <2>4, <2>5, NoCopiesKnow DEF Inv
<1>6. CASE ~m
  <2>0. /\ csize' = Slots /\ cids' = 0 /\ fids' = n /\ Slots \in Nat
        /\ cache' \in [0 .. Slots - 1 -> Records \cup {Junk}]
    BY <1>1, <1>6, SlotsAssumption
  <2>1. TypeOK'
    BY <1>2, <1>3, <2>0 DEF Inv, TypeOK, threads
  <2>2. CachePlaced'
    BY <1>1, <1>2, <1>3, <1>6, SlotsAssumption DEF CachePlaced, Ids, Cached
  <2> QED
    BY <1>3, <1>4, <2>1, <2>2, NoCopiesKnow DEF Inv
<1> QED
  BY <1>5, <1>6

LEMMA CreateKeepsInv ==
  ASSUME Inv, NEW n \in 0 .. MaxIds, Create(n)
  PROVE  Inv'
<1>1. /\ open' = TRUE /\ mem' = FALSE /\ private' = FALSE /\ crashed' = FALSE
      /\ file' = [i \in 0 .. n - 1 |-> Blank]
      /\ csize' = Slots /\ baseid' = 0 /\ cids' = 0 /\ fids' = n
      /\ cache' = [s \in 0 .. Slots - 1 |-> IF s = 0 /\ n > 0 THEN Blank ELSE Junk]
      /\ UNCHANGED <<threads, copy, data>> /\ copy = NoCopies
  BY DEF Create, Inv, FilePlaced
<1>2. Blank \in Records /\ n \in Nat /\ Slots \in Nat
  BY SlotsAssumption, BoundsAssumption DEF Blank, Records
<1>3. file' \in [0 .. n - 1 -> Records] /\ cache' \in [0 .. Slots - 1 -> Records \cup {Junk}]
  BY <1>1, <1>2
<1>4. TypeOK'
  BY <1>1, <1>2, <1>3 DEF Inv, TypeOK, threads
<1>5. FilePlaced' /\ CachePlaced'
  BY <1>1, <1>2, <1>3 DEF FilePlaced, CachePlaced, Ids, Cached
<1> QED
  BY <1>1, <1>4, <1>5, NoCopiesKnow DEF Inv

LEMMA TruncateKeepsInv ==
  ASSUME Inv, NEW n \in 0 .. MaxIds - 1, Truncate(n)
  PROVE  Inv'
<1> USE DEF Inv
<1>1. /\ open /\ copy' = NoCopies /\ n < fids /\ fids' = n /\ n \in Nat /\ fids \in 0 .. MaxIds
      /\ UNCHANGED <<opening, baseid, threads, data>>
      /\ mem' = mem /\ private' = private /\ open' = open /\ crashed' = crashed
  BY BoundsAssumption DEF Truncate, FilePlaced, opening
<1>2. \E k \in 0 .. MaxIds : file' \in [0 .. k - 1 -> Records]
  <2>1. CASE private
    BY <2>1 DEF Truncate, TypeOK
  <2>2. CASE ~private
    <3>1. file \in [Ids -> Records] /\ Blank \in Records
      BY <1>1, <2>2 DEF FilePlaced, Blank, Records
    <3>2. file' = [i \in 0 .. n - 1 |-> IF i \in DOMAIN file THEN file[i] ELSE Blank]
      BY <2>2 DEF Truncate, Resized
    <3>3. file' \in [0 .. n - 1 -> Records]
      BY <3>1, <3>2
    <3> QED
      BY <1>1, <3>3, BoundsAssumption
  <2> QED
    BY <2>1, <2>2
<1>3. ~private => /\ file \in [Ids -> Records] /\ file' \in [0 .. n - 1 -> Records]
                  /\ \A id \in 0 .. n - 1 : id \in Ids /\ file'[id] = file[id]
  BY <1>1 DEF Truncate, Resized, FilePlaced, Ids
<1>4. FilePlaced'
  BY <1>1, <1>3, BoundsAssumption DEF FilePlaced, Ids
<1>5. CASE mem
  <2>1. PICK k \in Nat : k = (IF n = 0 THEN 1 ELSE n) /\ csize' = k /\ k >= n
    BY <1>1, <1>5 DEF Truncate
  <2>2. /\ cache' = [i \in 0 .. k - 1 |-> IF i \in DOMAIN cache THEN cache[i] ELSE Junk]
        /\ cids' = n
    BY <1>1, <1>5, <2>1 DEF Truncate, Realloced
  <2>3. cache' \in [0 .. k - 1 -> Records \cup {Junk}]
    BY <2>2 DEF TypeOK
  <2>4. \A id \in 0 .. n - 1 : id \in Ids /\ cache'[id] = cache[id]
    <3>1. fids <= csize /\ csize \in Nat
      BY <1>1, <1>5 DEF CachePlaced, TypeOK
    <3> QED
      BY <1>1, <2>1, <2>2, <3>1 DEF Ids, TypeOK
  <2>5. TypeOK'
    BY <1>1, <1>2, <2>1, <2>2, <2>3 DEF TypeOK, NoCopies, threads
  <2>6. CachePlaced'
    BY <1>1, <1>3, <1>5, <2>1, <2>2, <2>4 DEF CachePlaced, Ids
  <2> QED
    BY <1>1, <1>4, <2>5, <2>6, NoCopiesKnow
<1>6. CASE ~mem
  <2>1. /\ csize' = csize /\ cache' = cache
        /\ cids' = IF baseid >= n THEN 0 ELSE Least(cids, n - baseid)
    BY <1>6 DEF Truncate
  <2>2. PICK k \in 0 .. cids : cids' = k /\ (k = 0 \/ baseid + k <= n)
    <3>1. CASE baseid >= n
      BY <1>1, <2>1, <3>1 DEF TypeOK
    <3>2. CASE baseid < n /\ cids < n - baseid
      BY <1>1, <2>1, <3>2 DEF Least, TypeOK
    <3>3. CASE baseid < n /\ cids >= n - baseid
      <4>1. n - baseid \in 0 .. cids /\ baseid + (n - baseid) <= n
        BY <1>1, <3>3 DEF TypeOK
      <4>2. cids' = n - baseid
        BY <1>1, <2>1, <3>3 DEF Least, TypeOK
      <4> QED
        BY <4>1, <4>2
    <3> QED
      BY <1>1, <3>1, <3>2, <3>3 DEF TypeOK
  <2>3. TypeOK'
    BY <1>1, <1>2, <2>1, <2>2 DEF TypeOK, NoCopies, threads
  <2>4. CachePlaced'
    <3>1. /\ csize = Slots /\ cids <= csize
          /\ \A id \in Ids : Cached(id) => cache[Slot(id)] = file[id]
      BY <1>1, <1>6 DEF CachePlaced
    <3>2. ASSUME NEW i \in 0 .. n - 1, baseid <= i, i < baseid + k
          PROVE  cache[i - baseid] = file'[i]
      <4>1. i \in Ids /\ Cached(i)
        BY <1>1, <2>2, <3>2 DEF Ids, Cached, TypeOK
      <4> QED
        BY <1>3, <1>6, <3>1, <4>1 DEF Slot, FilePlaced
    <3> QED
      BY <1>1, <1>6, <2>1, <2>2, <3>1, <3>2 DEF CachePlaced, Ids, Cached, Slot, TypeOK
  <2> QED
    BY <1>1, <1>4, <2>3, <2>4, NoCopiesKnow
<1> QED
  BY <1>5, <1>6

-----------------------------------------------------------------------------
(***************************************************************************)
(* One record changes: its sequence number does not go back, and moves on  *)
(* unless the table is in memory.  Copies of other records, and copies of  *)
(* threads that are not running, still know.                               *)
(***************************************************************************)
Changed(id, new) ==
  /\ \A i \in Nat : Record(i)' = IF i = id THEN new ELSE Record(i)
  /\ new \in Records /\ new.n >= Record(id).n
  /\ ~mem => new.n > Record(id).n

LEMMA CopyKnowsAfterChange ==
  ASSUME Inv, NEW t \in Threads, copy'[t] = copy[t], open,
         UNCHANGED <<opening, threads>>, fids' \in Nat, fids' >= fids,
         NEW id \in Nat, NEW new, Changed(id, new),
         t = running => copy[t] = NoCopy \/ copy[t].uid # id
  PROVE  CopyKnows(t)'
<1> SUFFICES ASSUME copy[t] # NoCopy
             PROVE  CopyKnows(t)'
  BY DEF CopyKnows
<1>1. PICK c \in Copies : c = copy[t] /\ copy'[t] = c
  BY DEF Inv, TypeOK
<1>2. PICK r \in Records : r = Record(c.uid)
  BY <1>1, RecordIsOne DEF Inv, Copies
<1>3. /\ mem => c.uid \in Ids
      /\ c.of.n <= r.n /\ c.gen <= generation
      /\ c.gen = generation => t = running /\ c.of = r
      /\ ~mem /\ c.of.n = r.n => c.of = r
  BY <1>1, <1>2 DEF Inv, CopyKnows
<1>4. /\ mem' = mem /\ generation' = generation /\ running' = running
      /\ fids \in Nat /\ c.uid \in Nat /\ c.of \in Records
  BY DEF opening, threads, Inv, TypeOK, Copies
<1>5. mem => c.uid \in Ids'
  <2>1. PICK k \in Nat : fids' = k /\ k >= fids
    OBVIOUS
  <2> QED
    BY <1>3, <1>4, <2>1 DEF Ids
<1>6. CASE c.uid # id
  <2>1. Record(c.uid)' = r
    BY <1>2, <1>4, <1>6 DEF Changed
  <2> QED
    BY <1>1, <1>3, <1>4, <1>5, <2>1 DEF CopyKnows
<1>7. CASE c.uid = id
  <2>1. Record(c.uid)' = new /\ new \in Records /\ new.n >= r.n /\ (~mem => new.n > r.n)
    BY <1>2, <1>4, <1>7 DEF Changed
  <2>2. c.gen # generation
    BY <1>1, <1>3, <1>7
  <2>3. c.of.n <= new.n /\ (~mem => c.of.n # new.n)
    BY <1>3, <1>4, <2>1 DEF Records
  <2> QED
    BY <1>1, <1>3, <1>4, <1>5, <2>1, <2>2, <2>3 DEF CopyKnows
<1> QED
  BY <1>6, <1>7

LEMMA UpdateKeepsInv ==
  ASSUME Inv, NEW id \in 0 .. MaxIds - 1, Update(id)
  PROVE  Inv'
<1> USE DEF Inv
<1>1. /\ open /\ mem /\ id \in Ids /\ data \in Nat
      /\ copy[running] = NoCopy \/ copy[running].uid # id
      /\ cache' = [cache EXCEPT ![id] = AlteredVersion(id)] /\ data' = data + 1
      /\ UNCHANGED <<file, opening, csize, baseid, cids, fids, threads, copy>>
  BY DEF Update, MayPoint, TypeOK
<1>2. PICK r \in Records : r = cache[id] /\ r = Record(id)
  BY <1>1, RecordIsInCache DEF CachePlaced, Ids
<1>3. PICK new \in Records : new = AlteredVersion(id) /\ new.n = r.n
  <2>1. AlteredVersion(id) = [n |-> r.n, data |-> data + 1]
    BY <1>2 DEF AlteredVersion
  <2>2. r.n \in Nat /\ data + 1 \in Nat
    BY <1>1 DEF Records
  <2> QED
    BY <2>1, <2>2 DEF Records
<1>4. baseid = 0 /\ cids = fids /\ fids <= csize /\ fids \in Nat /\ csize \in Nat
  BY <1>1 DEF CachePlaced, TypeOK
<1>5. id \in 0 .. csize - 1 /\ cache' = [cache EXCEPT ![id] = new]
  BY <1>1, <1>2, <1>3, <1>4 DEF Ids, TypeOK
<1>6. \A i \in 0 .. csize - 1 : cache'[i] = IF i = id THEN new ELSE cache[i]
  BY <1>5 DEF TypeOK
<1>7. /\ mem' = mem /\ open' = open /\ private' = private /\ fids' = fids
      /\ file' = file /\ baseid' = baseid /\ cids' = cids /\ csize' = csize
  BY <1>1 DEF opening
<1>8. TypeOK'
  BY <1>1, <1>5, <1>7 DEF TypeOK, threads, opening
<1>9. FilePlaced' /\ CachePlaced'
  <2>1. FilePlaced'
    BY <1>1, <1>7 DEF FilePlaced, Ids
  <2>2. ASSUME NEW i \in Ids
        PROVE  cache'[i] \in Records /\ cache'[i].n = cache[i].n
    <3>1. i \in 0 .. csize - 1 /\ cache[i] \in Records
      BY <1>1, <1>4 DEF CachePlaced, Ids
    <3>2. r = cache[id] /\ new.n = r.n
      BY <1>2, <1>3
    <3>3. cache'[i] = IF i = id THEN new ELSE cache[i]
      BY <1>6, <3>1
    <3> QED
      BY <3>1, <3>2, <3>3
  <2>3. CachePlaced'
    BY <1>1, <1>4, <1>7, <2>2 DEF CachePlaced, Ids
  <2> QED
    BY <2>1, <2>3
<1>10. \A i \in Nat : Record(i)' = IF i = id THEN new ELSE Record(i)
  BY <1>1, <1>4, <1>6, <1>7 DEF Record, Ids, Cached, Slot
<1>11. Changed(id, new)
  BY <1>1, <1>2, <1>3, <1>10 DEF Changed, Records
<1>12. ASSUME NEW t \in Threads PROVE CopyKnows(t)'
  BY <1>1, <1>4, <1>11, CopyKnowsAfterChange DEF Ids
<1> QED
  BY <1>8, <1>9, <1>12

LEMMA WriteInPlaceKeepsInv ==
  ASSUME Inv, NEW id \in 0 .. MaxIds - 1, WriteInPlace(id)
  PROVE  Inv'
<1> USE DEF Inv
<1>1. /\ open /\ mem /\ id \in Ids /\ data \in Nat
      /\ copy[running] = NoCopy \/ copy[running].uid # id
      /\ cache' = [cache EXCEPT ![id] = NewVersion(id)] /\ data' = data + 1
      /\ file' = IF private THEN file ELSE Put(file, id, NewVersion(id))
      /\ UNCHANGED <<opening, csize, baseid, cids, fids, threads, copy>>
  BY DEF WriteInPlace, MayPoint, TypeOK
<1>2. Record(id) \in Records
  BY <1>1, RecordIsOne DEF Ids
<1>3. PICK new \in Records : new = NewVersion(id) /\ new.n = Record(id).n + 1
  BY <1>1, <1>2 DEF Records, NewVersion
<1>4. baseid = 0 /\ cids = fids /\ fids <= csize /\ fids \in Nat /\ csize \in Nat
  BY <1>1 DEF CachePlaced, TypeOK
<1>5. id \in 0 .. csize - 1 /\ cache' = [cache EXCEPT ![id] = new]
  BY <1>1, <1>3, <1>4 DEF Ids
<1>6. \A i \in 0 .. csize - 1 : cache'[i] = IF i = id THEN new ELSE cache[i]
  BY <1>5 DEF TypeOK
<1>7. /\ mem' = mem /\ open' = open /\ private' = private /\ fids' = fids
      /\ baseid' = baseid /\ cids' = cids /\ csize' = csize
  BY <1>1 DEF opening
<1>8. ~private => /\ file \in [Ids -> Records] /\ file' \in [Ids -> Records]
                  /\ \A i \in Ids : file'[i] = IF i = id THEN new ELSE file[i]
  BY <1>1, <1>3 DEF FilePlaced, Put
<1>9. TypeOK'
  BY <1>1, <1>5, <1>7, <1>8 DEF TypeOK, FilePlaced, threads, Ids, opening
<1>10. FilePlaced' /\ CachePlaced'
  BY <1>1, <1>3, <1>4, <1>6, <1>7, <1>8 DEF FilePlaced, CachePlaced, Ids
<1>11. \A i \in Nat : Record(i)' = IF i = id THEN new ELSE Record(i)
  BY <1>1, <1>4, <1>6, <1>7 DEF Record, Ids, Cached, Slot
<1>12. Changed(id, new)
  BY <1>1, <1>2, <1>3, <1>11 DEF Changed, Records
<1>13. ASSUME NEW t \in Threads PROVE CopyKnows(t)'
  BY <1>1, <1>4, <1>12, CopyKnowsAfterChange DEF Ids
<1> QED
  BY <1>9, <1>10, <1>13

LEMMA ExtendKeepsInv ==
  ASSUME Inv, NEW n \in 1 .. MaxIds, Extend(n)
  PROVE  Inv'
<1> USE DEF Inv
<1>1. PICK f \in 0 .. MaxIds :
        /\ f = fids + n /\ fids' = f /\ cids' = f /\ f > fids /\ fids \in Nat /\ n \in Nat
        /\ csize' = IF f > csize THEN f ELSE csize
        /\ cache' = [s \in 0 .. csize' - 1 |->
                       IF fids <= s /\ s < f THEN Blank
                       ELSE IF s \in DOMAIN cache THEN cache[s] ELSE Junk]
        /\ file' = IF private THEN file ELSE Resized(file, f)
  <2>1. fids + n \in 0 .. MaxIds /\ fids + n > fids
    BY BoundsAssumption DEF Extend, FilePlaced
  <2> QED
    BY <2>1, BoundsAssumption DEF Extend, FilePlaced
<1>2. /\ open /\ mem /\ mem' = mem /\ private' = private /\ open' = open /\ baseid' = baseid
      /\ UNCHANGED <<opening, threads, copy, data>>
  BY DEF Extend, opening
<1>3. baseid = 0 /\ cids = fids /\ fids <= csize /\ csize \in Nat
  BY <1>2 DEF CachePlaced, TypeOK
<1>4. PICK k \in Nat : csize' = k /\ k >= f /\ k >= csize
  BY <1>1, <1>3
<1>5. Blank \in Records /\ Blank.n = 0
  BY DEF Blank, Records
<1>6. cache' \in [0 .. k - 1 -> Records \cup {Junk}]
  BY <1>1, <1>4, <1>5 DEF TypeOK
<1>7. \A i \in 0 .. f - 1 : cache'[i] = IF i \in Ids THEN cache[i] ELSE Blank
  <2> SUFFICES ASSUME NEW i \in 0 .. f - 1
               PROVE  cache'[i] = IF i \in Ids THEN cache[i] ELSE Blank
    OBVIOUS
  <2>1. i \in 0 .. k - 1 /\ (i \in Ids => i \in 0 .. csize - 1)
    BY <1>1, <1>3, <1>4 DEF Ids
  <2>2. cache'[i] = IF fids <= i /\ i < f THEN Blank
                    ELSE IF i \in DOMAIN cache THEN cache[i] ELSE Junk
    BY <1>1, <1>4, <2>1
  <2> QED
    BY <1>1, <2>1, <2>2 DEF Ids, TypeOK
<1>8. ~private => /\ file \in [Ids -> Records]
                  /\ file' \in [0 .. f - 1 -> Records]
                  /\ \A i \in 0 .. f - 1 : file'[i] = IF i \in Ids THEN file[i] ELSE Blank
  BY <1>1, <1>2, <1>5 DEF FilePlaced, Resized
<1>9. \E m \in 0 .. MaxIds : file' \in [0 .. m - 1 -> Records]
  BY <1>1, <1>8 DEF TypeOK
<1>10. TypeOK'
  BY <1>1, <1>2, <1>4, <1>6, <1>9 DEF TypeOK, threads, opening
<1>11. FilePlaced'
  BY <1>1, <1>2, <1>8 DEF FilePlaced, Ids
<1>12. \A i \in Ids : cache[i] \in Records /\ (~private => cache[i].n = file[i].n)
  BY <1>2 DEF CachePlaced
<1>13. CachePlaced'
  <2>1. \A i \in 0 .. f - 1 : cache'[i] \in Records /\ (~private => cache'[i].n = file'[i].n)
    BY <1>5, <1>7, <1>8, <1>12
  <2> QED
    BY <1>1, <1>2, <1>3, <1>4, <2>1 DEF CachePlaced, Ids
<1>14. ASSUME NEW t \in Threads PROVE CopyKnows(t)'
  <2> SUFFICES ASSUME copy[t] # NoCopy
               PROVE  CopyKnows(t)'
    BY <1>2 DEF CopyKnows
  <2>1. PICK c \in Copies : c = copy[t] /\ copy'[t] = c
    BY <1>2 DEF TypeOK
  <2>2. c.uid \in Ids /\ c.uid \in 0 .. f - 1 /\ c.uid \in Nat
    BY <1>1, <1>2, <2>1 DEF CopyKnows, Ids, Copies
  <2>3. Record(c.uid) = cache[c.uid]
    BY <1>2, <2>2, RecordIsInCache
  <2>4. Record(c.uid)' = cache'[c.uid]
    <3>1. Cached(c.uid)' /\ Slot(c.uid)' = c.uid
      BY <1>1, <1>2, <1>3, <2>2 DEF Ids, Cached, Slot
    <3>2. c.uid \in Ids'
      BY <1>1, <2>2 DEF Ids
    <3> QED
      BY <3>1, <3>2 DEF Record, Cached, Slot
  <2>5. Record(c.uid)' = Record(c.uid)
    BY <1>7, <2>2, <2>3, <2>4
  <2>6. c.uid \in Ids'
    BY <1>1, <2>2 DEF Ids
  <2> QED
    BY <1>2, <2>1, <2>5, <2>6 DEF CopyKnows, threads
<1> QED
  BY <1>10, <1>11, <1>13, <1>14

(***************************************************************************)
(* ef_write(): the cached record or the last slot, the file and perhaps    *)
(* the table's size change; the writer's copy is then of the new version.  *)
(***************************************************************************)
LEMMA WriteChanges ==
  ASSUME Inv, Write, NEW id, id = copy[running].uid
  PROVE  /\ id \in Nat /\ id \in 0 .. MaxIds - 1 /\ MayMake(id) /\ open
         /\ NewVersion(id) \in Records /\ NewVersion(id).n = Record(id).n + 1
         /\ fids' = IF id = fids THEN fids + 1 ELSE fids
         /\ fids' \in 0 .. MaxIds /\ fids' >= fids
         /\ copy[running] \in Copies /\ running \in Threads
         /\ (Cached(id) => id \in Ids) /\ (mem => Cached(id))
<1> USE DEF Inv
<1>1. copy[running] \in Copies /\ running \in Threads /\ open /\ MayMake(id) /\ id < MaxIds
  BY DEF Write, TypeOK
<1>2. id \in Nat
  BY <1>1 DEF Copies
<1>3. Record(id) \in Records
  BY <1>1, <1>2, RecordIsOne
<1>4. Record(id).n \in Nat /\ data + 1 \in Nat
  BY <1>3 DEF Records, TypeOK
<1>5. NewVersion(id) \in Records /\ NewVersion(id).n = Record(id).n + 1
  BY <1>4 DEF NewVersion, Records
<1>6. fids' = IF id = fids THEN fids + 1 ELSE fids
  BY DEF Write
<1>7. fids \in 0 .. MaxIds /\ fids \in Nat
  BY DEF FilePlaced, TypeOK
<1>8. fids' \in 0 .. MaxIds /\ fids' >= fids
  BY <1>1, <1>2, <1>6, <1>7, BoundsAssumption
<1>9. mem => Cached(id) /\ id \in Ids
  BY <1>1, <1>2, RecordIsInCache DEF MayMake
<1>10. ~mem => (Cached(id) => id \in Ids)
  BY <1>1, <1>2, <1>7 DEF CachePlaced, Cached, Ids, TypeOK
<1> QED
  BY <1>1, <1>2, <1>5, <1>6, <1>8, <1>9, <1>10, BoundsAssumption

LEMMA WriteKeepsPlaces ==
  ASSUME Inv, Write, NEW id, id = copy[running].uid
  PROVE  TypeOK' /\ FilePlaced' /\ CachePlaced' /\ Changed(id, NewVersion(id))
<1> USE DEF Inv
<1>1. /\ id \in Nat /\ id \in 0 .. MaxIds - 1 /\ MayMake(id) /\ open
      /\ NewVersion(id) \in Records /\ NewVersion(id).n = Record(id).n + 1
      /\ fids' = IF id = fids THEN fids + 1 ELSE fids
      /\ fids' \in 0 .. MaxIds /\ fids' >= fids
      /\ copy[running] \in Copies /\ running \in Threads
      /\ (Cached(id) => id \in Ids) /\ (mem => Cached(id))
  BY WriteChanges
<1>2. PICK new \in Records : new = NewVersion(id) /\ new.n = Record(id).n + 1
  BY <1>1
<1>3. PICK f \in 0 .. MaxIds : fids' = f /\ f >= fids /\ f = (IF id = fids THEN fids + 1 ELSE fids)
  BY <1>1
<1>4. /\ fids \in Nat /\ (id \in Ids => f = fids)
      /\ 0 .. f - 1 = Ids \cup {id}
  BY <1>1, <1>3 DEF MayMake, Ids, TypeOK
<1>5. /\ mem' = mem /\ private' = private /\ open' = open
      /\ UNCHANGED <<opening, threads>> /\ data' = data + 1
      /\ copy' = [copy EXCEPT ![running] = [uid |-> id, of |-> new, gen |-> copy[running].gen]]
      /\ file' = IF private THEN file ELSE Put(file, id, new)
  BY <1>2 DEF Write, opening, SetCopy
<1>6. ~private => /\ file \in [Ids -> Records] /\ file' \in [0 .. f - 1 -> Records]
                  /\ \A i \in 0 .. f - 1 : file'[i] = IF i = id THEN new ELSE file[i]
  BY <1>1, <1>4, <1>5 DEF FilePlaced, Put
<1>7. FilePlaced'
  BY <1>1, <1>3, <1>5, <1>6 DEF FilePlaced, Ids
<1>8. \E m \in 0 .. MaxIds : file' \in [0 .. m - 1 -> Records]
  BY <1>5, <1>6 DEF TypeOK
<1>9. copy' \in [Threads -> Copies \cup {NoCopy}]
  BY <1>1, <1>5 DEF TypeOK, Copies
<1>10. ASSUME cache' \in [0 .. csize - 1 -> Records \cup {Junk}],
              csize' = csize, baseid' = baseid, cids' \in Nat
       PROVE  TypeOK'
  <2>1. /\ UNCHANGED <<open, mem, private, crashed, generation, running>> /\ data' = data + 1
        /\ fids' \in Nat
    BY <1>1, <1>3, <1>5 DEF threads, opening
  <2> QED
    BY <1>1, <1>8, <1>9, <1>10, <2>1 DEF TypeOK
<1>11. CASE Cached(id)
  <2>1. /\ cache' = [cache EXCEPT ![Slot(id)] = new]
        /\ csize' = csize /\ baseid' = baseid /\ cids' = cids
    BY <1>2, <1>11 DEF Write
  <2>2. cids <= csize /\ csize \in Nat /\ baseid \in Nat /\ cids \in Nat
    BY <1>1 DEF CachePlaced, TypeOK
  <2>3. id - baseid \in 0 .. csize - 1 /\ id \in Ids /\ f = fids
    BY <1>1, <1>4, <1>11, <2>2 DEF Cached
  <2>4. \A s \in 0 .. csize - 1 : cache'[s] = IF s = id - baseid THEN new ELSE cache[s]
    BY <2>1, <2>3 DEF TypeOK, Slot
  <2>5. cache' \in [0 .. csize - 1 -> Records \cup {Junk}]
    BY <2>1, <2>3 DEF TypeOK, Slot
  <2>6. TypeOK'
    BY <1>10, <2>1, <2>2, <2>5
  <2>7. CASE mem
    <3>1. baseid = 0 /\ cids = fids /\ fids <= csize
      BY <1>1, <2>7 DEF CachePlaced
    <3>2. \A i \in Ids : cache'[i] = IF i = id THEN new ELSE cache[i]
      BY <1>1, <1>4, <2>2, <2>4, <3>1 DEF Ids
    <3>3. \A i \in Ids : Record(i) = cache[i]
      BY <1>1, <2>7, <1>4, RecordIsInCache DEF Ids
    <3>4. \A i \in Ids : /\ cache'[i] \in Records
                         /\ ~private => cache'[i].n = file'[i].n
      BY <1>1, <1>4, <1>6, <2>3, <2>7, <3>2 DEF CachePlaced, Ids
    <3>5. CachePlaced'
      BY <1>3, <1>5, <2>1, <2>3, <2>7, <3>1, <3>4 DEF CachePlaced, Ids
    <3>6. \A i \in Nat : Record(i)' = IF i = id THEN new ELSE Record(i)
      BY <1>3, <2>1, <2>3, <3>1, <3>2 DEF Record, Ids, Cached, Slot
    <3>7. Changed(id, new)
      BY <1>1, <1>2, <3>6, RecordIsOne DEF Changed, Records
    <3> QED
      BY <1>2, <1>7, <2>6, <3>5, <3>7
  <2>8. CASE ~mem
    <3>1. /\ csize = Slots /\ ~private
          /\ \A i \in Ids : Cached(i) => cache[i - baseid] = file[i]
          /\ baseid + cids <= fids \/ cids = 0
      BY <1>1, <2>8 DEF CachePlaced, FilePlaced, Slot
    <3>2. ASSUME NEW i \in Ids, Cached(i)
          PROVE  cache'[i - baseid] = file'[i]
      <4>1. i - baseid \in 0 .. csize - 1 /\ i \in 0 .. f - 1
        BY <1>4, <2>2, <2>3, <3>2 DEF Cached, Ids
      <4>2. i - baseid = id - baseid <=> i = id
        BY <1>1, <2>2, <3>2 DEF Ids
      <4> QED
        BY <1>6, <2>4, <3>1, <3>2, <4>1, <4>2
    <3>3. CachePlaced'
      BY <1>3, <1>5, <2>1, <2>2, <2>3, <2>8, <3>1, <3>2 DEF CachePlaced, Ids, Cached, Slot
    <3>4. \A i \in Nat : Record(i)' = IF i \in Ids THEN file'[i] ELSE Absent
      BY <1>3, <2>1, <2>3, <3>2 DEF Record, Ids, Cached, Slot
    <3>5. \A i \in Nat : Record(i) = IF i \in Ids THEN file[i] ELSE Absent
      BY <1>1, <2>8, RecordIsInFile
    <3>6. \A i \in Nat : Record(i)' = IF i = id THEN new ELSE Record(i)
      BY <1>4, <1>6, <2>3, <3>1, <3>4, <3>5
    <3>7. Changed(id, new)
      BY <1>1, <1>2, <3>6, RecordIsOne DEF Changed, Records
    <3> QED
      BY <1>2, <1>7, <2>6, <3>3, <3>7
  <2> QED
    BY <2>7, <2>8
<1>12. CASE ~Cached(id)
  <2>1. ~mem /\ ~private
    BY <1>1, <1>12 DEF FilePlaced
  <2>2. GetSeqno(id)
    BY <1>12 DEF Write
  <2>3. /\ csize' = csize /\ baseid' = baseid /\ cids' \in 0 .. cids
        /\ cache' \in [0 .. csize - 1 -> Records \cup {Junk}]
        /\ \A s \in 0 .. csize - 1 : s < cids' => cache'[s] = cache[s]
    BY <1>1, <2>2, GetSeqnoShrinks
  <2>4. PICK n \in 0 .. cids : cids' = n /\ \A s \in 0 .. csize - 1 : s < n => cache'[s] = cache[s]
    BY <2>3
  <2>5. /\ csize = Slots /\ cids <= csize /\ csize \in Nat /\ baseid \in Nat /\ cids \in Nat
        /\ \A i \in Ids : Cached(i) => cache[i - baseid] = file[i]
        /\ baseid + cids <= fids \/ cids = 0
    BY <1>1, <2>1 DEF CachePlaced, Slot, TypeOK
  <2>6. TypeOK'
    BY <1>10, <2>3, <2>4, <2>5
  <2>7. ASSUME NEW i \in 0 .. f - 1, baseid <= i, i < baseid + n
        PROVE  cache'[i - baseid] = file'[i]
    <3>1. Cached(i) /\ i - baseid \in 0 .. csize - 1 /\ i - baseid < n
      BY <1>3, <2>4, <2>5, <2>7 DEF Cached
    <3>2. i # id /\ i \in Ids
      BY <1>4, <1>12, <3>1
    <3> QED
      BY <1>6, <2>1, <2>4, <2>5, <3>1, <3>2
  <2>8. CachePlaced'
    <3>1. (baseid + n <= f \/ n = 0) /\ n <= csize
      BY <1>3, <1>4, <2>4, <2>5
    <3> QED
      BY <1>3, <1>5, <2>1, <2>3, <2>4, <2>5, <2>7, <3>1 DEF CachePlaced, Ids, Cached, Slot
  <2>9. \A i \in Nat : Record(i)' = IF i \in 0 .. f - 1 THEN file'[i] ELSE Absent
    BY <1>3, <2>3, <2>4, <2>7 DEF Record, Ids, Cached, Slot
  <2>10. \A i \in Nat : Record(i) = IF i \in Ids THEN file[i] ELSE Absent
    BY <1>1, <2>1, RecordIsInFile
  <2>11. \A i \in Nat : Record(i)' = IF i = id THEN new ELSE Record(i)
    BY <1>4, <1>6, <2>1, <2>9, <2>10
  <2>12. Changed(id, new)
    BY <1>1, <1>2, <2>11, RecordIsOne DEF Changed, Records
  <2> QED
    BY <1>2, <1>7, <2>6, <2>8, <2>12
<1> QED
  BY <1>11, <1>12

LEMMA WriteKeepsInv ==
  ASSUME Inv, Write
  PROVE  Inv'
<1>0. PICK id : id = copy[running].uid
  OBVIOUS
<1>1. /\ id \in Nat /\ MayMake(id) /\ open /\ NewVersion(id) \in Records
      /\ fids' \in 0 .. MaxIds /\ fids' >= fids /\ fids \in Nat
      /\ copy[running] \in Copies /\ running \in Threads /\ (mem => id \in Ids)
  BY <1>0, WriteChanges DEF Inv, TypeOK
<1>2. PICK new : new = NewVersion(id)
  OBVIOUS
<1>3. TypeOK' /\ FilePlaced' /\ CachePlaced' /\ Changed(id, new)
  BY <1>0, <1>2, WriteKeepsPlaces
<1>4. /\ UNCHANGED <<opening, threads>> /\ mem' = mem
      /\ copy' = [copy EXCEPT ![running] = [uid |-> id, of |-> new, gen |-> copy[running].gen]]
  BY <1>0, <1>2 DEF Write, opening, SetCopy
<1>5. ASSUME NEW t \in Threads, t # running PROVE CopyKnows(t)'
  <2>1. copy'[t] = copy[t] /\ fids' \in Nat
    BY <1>1, <1>4, <1>5, BoundsAssumption DEF Inv, TypeOK
  <2> QED
    BY <1>1, <1>3, <1>4, <1>5, <2>1, CopyKnowsAfterChange
<1>6. CopyKnows(running)'
  <2>1. PICK c \in Copies : c = copy[running] /\ c.gen <= generation
    BY <1>1 DEF Inv, CopyKnows, Write
  <2>2. copy'[running] = [uid |-> id, of |-> new, gen |-> c.gen]
    BY <1>1, <1>4, <2>1 DEF Inv, TypeOK
  <2>3. Record(id)' = new /\ new \in Records
    BY <1>1, <1>3 DEF Changed
  <2>4. PICK f \in Nat : fids' = f /\ f >= fids
    BY <1>1, BoundsAssumption
  <2>5. mem => id \in Ids'
    BY <1>1, <2>4 DEF Ids
  <2>6. new.n \in Nat
    BY <2>3 DEF Records
  <2>7. generation' = generation /\ running' = running
    BY <1>4 DEF threads
  <2> QED
    BY <1>4, <2>1, <2>2, <2>3, <2>5, <2>6, <2>7 DEF CopyKnows
<1>7. running' = running
  BY <1>4 DEF threads
<1> QED
  BY <1>3, <1>5, <1>6, <1>7 DEF Inv

-----------------------------------------------------------------------------
LEMMA InitInv == Init => Inv
<1> SUFFICES ASSUME Init PROVE Inv
  OBVIOUS
<1>1. Empty \in [0 .. 0 - 1 -> Records \cup {Junk}] /\ Empty \in [0 .. 0 - 1 -> Records]
  BY DEF Empty
<1>2. TypeOK
  <2>1. \E n \in 0 .. MaxIds : file \in [0 .. n - 1 -> Records]
    BY <1>1, BoundsAssumption DEF Init
  <2>2. cache \in [0 .. csize - 1 -> Records \cup {Junk}]
    BY <1>1 DEF Init
  <2>3. copy \in [Threads -> Copies \cup {NoCopy}]
    BY DEF Init, NoCopies
  <2> QED
    BY <2>1, <2>2, <2>3 DEF Init, TypeOK
<1>3. FilePlaced /\ CachePlaced /\ \A t \in Threads : CopyKnows(t)
  BY BoundsAssumption DEF Init, FilePlaced, CachePlaced, CopyKnows, NoCopies
<1> QED
  BY <1>2, <1>3 DEF Inv

LEMMA NextInv == Inv /\ [Next]_vars => Inv'
<1> SUFFICES ASSUME Inv, [Next]_vars PROVE Inv'
  OBVIOUS
<1>1. CASE UNCHANGED vars
  BY <1>1 DEF vars, opening, caching, threads, Inv, TypeOK, FilePlaced, CachePlaced,
              CopyKnows, Record, Ids, Cached, Slot
<1>2. CASE \E m, p \in BOOLEAN : Open(m, p)
  BY <1>2, OpenKeepsInv
<1>3. CASE \E n \in 0 .. MaxIds : Create(n)
  BY <1>3, CreateKeepsInv
<1>4. CASE Flush \/ Close \/ Crash
  BY <1>4, FlushKeepsInv, CloseKeepsInv, CrashKeepsInv
<1>5. CASE \E id \in 0 .. MaxIds - 1 : Read(id) \/ Peek(id) \/ BlankCopy(id) \/ SetUid(id)
  BY <1>5, ReadKeepsInv, PeekKeepsInv, BlankCopyKeepsInv, SetUidKeepsInv
<1>6. CASE Write
  BY <1>6, WriteKeepsInv
<1>7. CASE \E id \in 0 .. MaxIds - 1 : Update(id) \/ WriteInPlace(id)
  BY <1>7, UpdateKeepsInv, WriteInPlaceKeepsInv
<1>8. CASE \E n \in 1 .. MaxIds : Extend(n)
  BY <1>8, ExtendKeepsInv
<1>9. CASE \E n \in 0 .. MaxIds - 1 : Truncate(n)
  BY <1>9, TruncateKeepsInv
<1>10. CASE \E t \in Threads : Yield(t)
  BY <1>10, YieldKeepsInv
<1> QED
  BY <1>1, <1>2, <1>3, <1>4, <1>5, <1>6, <1>7, <1>8, <1>9, <1>10 DEF Next

\* Records, cache and copies are where the code expects them, in every state.
THEOREM Invariance == Spec => []Inv
BY InitInv, NextInv, PTL DEF Spec

\* The table's variables, cache and copies have their types.
THEOREM TypeCorrect == Spec => []TypeOK
BY Invariance, PTL DEF Inv

\* No cache ever holds something else than the file says it holds.
THEOREM CacheIsTrue == Spec => []CacheAgrees
<1>1. Inv => CacheAgrees
  BY DEF Inv, CachePlaced, CacheAgrees
<1> QED
  BY <1>1, Invariance, PTL

\* A thread that did not give way since it read is never accused.
THEOREM NoFalseAlarm == Spec => []FreshIsQuiet
<1>1. Inv => FreshIsQuiet
  BY DEF Inv, TypeOK, CopyKnows, FreshIsQuiet, Oops, SeqnoDiffers, MustBeFresh
<1> QED
  BY <1>1, Invariance, PTL

(***************************************************************************)
(* A copy that would undo another write gets an oops unless one of the two *)
(* counters went round: for a cached record the generation, else the       *)
(* sequence number.  A copy of another version is not of the present       *)
(* generation, and its sequence number is behind unless the table is in    *)
(* memory; the twelve bits then agree only after a full turn.              *)
(***************************************************************************)
THEOREM NoSilentClobber == Spec => []ClobbersAreCaught
<1>1. ASSUME Inv, NEW t \in Threads, copy[t] # NoCopy,
             copy[t].of # Record(copy[t].uid), ~Oops(copy[t])
      PROVE  WentRound(copy[t])
  <2>0. open
    BY <1>1 DEF Inv, FilePlaced, NoCopies
  <2>1. PICK c \in Copies : c = copy[t]
    BY <1>1 DEF Inv, TypeOK
  <2>2. PICK r \in Records : r = Record(c.uid)
    BY <1>1, <2>0, RecordIsOne DEF Inv, Copies
  <2>3. /\ c.of.n <= r.n /\ c.gen <= generation /\ c.gen # generation
        /\ ~mem => c.of.n # r.n
        /\ mem => c.uid \in Ids
    BY <1>1, <2>1, <2>2 DEF Inv, CopyKnows
  <2>4. c.uid \in Nat /\ c.of.n \in Nat /\ r.n \in Nat /\ c.gen \in Nat /\ generation \in Nat
    <3>1. c.uid \in Nat /\ c.of \in Records /\ c.gen \in Nat
      BY DEF Copies
    <3>2. c.of.n \in Nat /\ r.n \in Nat
      BY <3>1 DEF Records
    <3> QED
      BY <1>1, <3>1, <3>2 DEF Inv, TypeOK
  <2>5. CASE Cached(c.uid)
    <3>1. c.gen % GenMod = generation % GenMod
      BY <1>1, <2>1, <2>5 DEF Oops, MustBeFresh, Generation
    <3>2. c.gen < generation
      BY <2>3, <2>4
    <3>3. generation - c.gen >= GenMod
      BY <2>4, <3>1, <3>2, ModGap, ModAssumption
    <3> QED
      BY <2>1, <2>5, <3>3 DEF WentRound
  <2>6. CASE ~Cached(c.uid)
    <3>1. ~mem
      BY <2>0, <2>3, <2>4, <2>6, <1>1, RecordIsInCache DEF Inv
    <3>2. c.of.n % SeqnoMod = r.n % SeqnoMod
      BY <1>1, <2>1, <2>2 DEF Oops, SeqnoDiffers, Seqno
    <3>3. c.of.n < r.n
      BY <2>3, <2>4, <3>1
    <3>4. r.n - c.of.n >= SeqnoMod
      BY <2>4, <3>2, <3>3, ModGap, ModAssumption
    <3> QED
      BY <2>1, <2>2, <2>6, <3>4 DEF WentRound
  <2> QED
    BY <2>1, <2>5, <2>6
<1>2. Inv => ClobbersAreCaught
  BY <1>1 DEF ClobbersAreCaught
<1> QED
  BY <1>2, Invariance, PTL

-----------------------------------------------------------------------------
(***************************************************************************)
(* The tables of EmpFile implement EmpTable: every step of the cache, the  *)
(* file and the counters is a step of a plain table of records, or none.   *)
(* The inductive invariant says what Record(id) is before and after each   *)
(* step; what is left is to show which step of the plain table each step   *)
(* makes.                                                                  *)
(***************************************************************************)

\* What the plain table's variables are, see Table in EmpFile.
Shown == IF open THEN [id \in Ids |-> Record(id)] ELSE file
Mode == IF crashed THEN "crashed"
        ELSE IF ~open THEN "closed"
        ELSE IF private THEN "private" ELSE "shared"
Taken == [t \in Threads |->
            IF copy[t] = NoCopy THEN NoCopy
            ELSE [uid |-> copy[t].uid, of |-> copy[t].of]]

\* A table that a crash closed is closed.
CrashCloses == crashed => ~open

AllInv == Inv /\ CrashCloses

LEMMA CrashClosesInv == CrashCloses /\ [Next]_vars => CrashCloses'
<1> SUFFICES ASSUME CrashCloses, [Next]_vars PROVE CrashCloses'
  OBVIOUS
<1>1. CASE UNCHANGED opening
  BY <1>1 DEF CrashCloses, opening
<1>2. CASE (\E m, p \in BOOLEAN : Open(m, p)) \/ (\E n \in 0 .. MaxIds : Create(n))
  BY <1>2 DEF CrashCloses, Open, Create
<1>3. CASE Close \/ Crash
  BY <1>3 DEF CrashCloses, Close, Crash, Forget
<1> QED
  BY <1>1, <1>2, <1>3 DEF Next, vars, Flush, Read, Peek, BlankCopy, SetUid, Write, Update,
     WriteInPlace, Extend, Truncate, Yield

LEMMA AllInvariant == Spec => []AllInv
<1>1. Init => CrashCloses
  BY DEF Init, CrashCloses
<1> QED
  BY <1>1, InitInv, NextInv, CrashClosesInv, PTL DEF Spec, AllInv

-----------------------------------------------------------------------------
(***************************************************************************)
(* Steps that show no change: a cache that moves, a thread that gives way. *)
(***************************************************************************)
LEMMA NothingShows ==
  ASSUME AllInv, \A i \in Nat : Record(i)' = Record(i),
         UNCHANGED <<file, opening, fids, copy>>
  PROVE  UNCHANGED Table!vars
<1>1. Ids \subseteq Nat /\ Ids' = Ids
  BY DEF AllInv, Inv, TypeOK, Ids
<1>2. Shown' = Shown /\ Mode' = Mode /\ Taken' = Taken
  BY <1>1 DEF Shown, Mode, Taken, opening
<1> QED
  BY <1>2 DEF Table!vars, Shown, Mode, Taken

\* A thread takes a copy of a record, or of the place behind the last one.
LEMMA Takes ==
  ASSUME AllInv, open, \A i \in Nat : Record(i)' = Record(i),
         NEW id \in Nat, NEW g \in Nat,
         copy' = [copy EXCEPT ![running] = [uid |-> id, of |-> Record(id), gen |-> g]],
         UNCHANGED <<file, opening, fids>>
  PROVE  running \in Threads /\ Table!Take(running, id)
<1> USE DEF AllInv, Inv
<1>1. Ids \subseteq Nat /\ Ids' = Ids /\ running \in Threads
  BY DEF TypeOK, Ids
<1>2. Shown' = Shown /\ Mode' = Mode
  BY <1>1 DEF Shown, Mode, opening
<1>3. [uid |-> id, of |-> Record(id), gen |-> g] \in Copies
  BY RecordIsOne DEF Copies
<1>4. Taken' = [Taken EXCEPT ![running] = [uid |-> id, of |-> Record(id)]]
  BY <1>1, <1>3, NoCopyAssumption DEF Taken, TypeOK
<1>5. Record(id) = IF id \in DOMAIN Shown THEN Shown[id] ELSE Absent
  BY DEF Shown, Record
<1> QED
  BY <1>1, <1>2, <1>4, <1>5 DEF Table!Take, Table!Current, Shown, Mode, Taken

-----------------------------------------------------------------------------
(***************************************************************************)
(* One record changes, and its place may be new.                           *)
(***************************************************************************)
LEMMA OneChanges ==
  ASSUME AllInv, open, open' = open, NEW id \in Nat, NEW new, Ids' = Ids \cup {id},
         \A i \in Nat : Record(i)' = IF i = id THEN new ELSE Record(i)
  PROVE  /\ Table!Changes(Shown, id, Shown') /\ Shown'[id] = new
         /\ DOMAIN Shown = Ids /\ DOMAIN Shown' = Ids'
<1>1. Ids \subseteq Nat
  BY DEF AllInv, Inv, TypeOK, Ids
<1>2. Shown = [i \in Ids |-> Record(i)] /\ Shown' = [i \in Ids' |-> Record(i)']
  BY DEF Shown
<1>3. Shown' = [i \in Ids \cup {id} |-> IF i = id THEN new ELSE Record(i)]
  BY <1>1, <1>2
<1>4. DOMAIN Shown' = Ids \cup {id} /\ Shown'[id] = new
  BY <1>3
<1>5. Shown' = [i \in DOMAIN Shown' |-> IF i = id THEN Shown'[id] ELSE Shown[i]]
  BY <1>2, <1>3, <1>4
<1> QED
  BY <1>2, <1>4, <1>5 DEF Table!Changes

\* A change through a pointer: ef_ptr(), written back or not.
LEMMA Points ==
  ASSUME AllInv, NEW id \in 0 .. MaxIds - 1, Update(id) \/ WriteInPlace(id)
  PROVE  Table!Update(id)
<1> USE DEF AllInv, Inv
<1>1. /\ open /\ mem /\ id \in Ids /\ id \in Nat /\ Ids \subseteq Nat
      /\ UNCHANGED <<opening, csize, baseid, cids, fids, copy>>
  BY BoundsAssumption DEF Update, WriteInPlace, MayPoint, TypeOK, Ids
<1>2. baseid = 0 /\ cids = fids /\ fids \in Nat /\ csize \in Nat /\ fids <= csize
  BY <1>1 DEF CachePlaced, TypeOK
<1>3. PICK new : /\ cache' = [cache EXCEPT ![id] = new]
                 /\ \/ file' = file
                    \/ ~private /\ file' = Put(file, id, new)
  BY DEF Update, WriteInPlace
<1>4. open' = open /\ Ids' = Ids /\ Mode' = Mode /\ Taken' = Taken
  BY <1>1 DEF opening, Ids, Mode, Taken
<1>5. \A i \in Nat : Record(i)' = IF i = id THEN new ELSE Record(i)
  BY <1>1, <1>2, <1>3 DEF Record, Ids, Cached, Slot, TypeOK
<1>6. /\ Table!Changes(Shown, id, Shown') /\ Shown'[id] = new
      /\ DOMAIN Shown = Ids
  BY <1>1, <1>4, <1>5, OneChanges
<1>7. ~private => file' = file \/ file' = [file EXCEPT ![id] = new]
  BY <1>1, <1>3 DEF FilePlaced, Put
<1>8. ~private => Mode = "shared"
  BY <1>1 DEF Mode, CrashCloses
<1>9. file' = file \/ (Mode = "shared" /\ file' = [file EXCEPT ![id] = Shown'[id]])
  BY <1>3, <1>6, <1>7, <1>8
<1> QED
  BY <1>1, <1>4, <1>6, <1>9 DEF Table!Update, Table!durable, Table!Changes, Shown, Mode, Taken

\* A copy is written back: ef_write().
LEMMA Writes ==
  ASSUME AllInv, Write
  PROVE  \E t \in Threads : Table!Write(t)
<1> USE DEF AllInv, Inv
<1>0. PICK id : id = copy[running].uid
  OBVIOUS
<1>1. /\ id \in Nat /\ MayMake(id) /\ open
      /\ fids' = IF id = fids THEN fids + 1 ELSE fids
      /\ copy[running] \in Copies /\ running \in Threads
  BY <1>0, WriteChanges
<1>2. PICK new : new = NewVersion(id)
  OBVIOUS
<1>3. Changed(id, new)
  BY <1>0, <1>2, WriteKeepsPlaces
<1>4. /\ copy[running] # NoCopy /\ opening' = opening
      /\ copy' = [copy EXCEPT ![running] = [uid |-> id, of |-> new, gen |-> copy[running].gen]]
      /\ file' = IF private THEN file ELSE Put(file, id, new)
  BY <1>0, <1>2 DEF Write, SetCopy
<1>5. open' = open /\ Mode' = Mode /\ Ids' = Ids \cup {id}
  BY <1>1, <1>4 DEF opening, Mode, Ids, MayMake, TypeOK
<1>6. /\ Table!Changes(Shown, id, Shown') /\ Shown'[id] = new
      /\ DOMAIN Shown' = Ids'
  BY <1>1, <1>3, <1>5, OneChanges DEF Changed
<1>7. [uid |-> id, of |-> new, gen |-> copy[running].gen] \in Copies
  BY <1>1, <1>3 DEF Changed, Copies
<1>8. Taken[running] = [uid |-> id, of |-> copy[running].of]
  BY <1>0, <1>1, <1>4 DEF Taken
<1>9. Taken' = [Taken EXCEPT ![running].of = Shown'[id]]
  <2>1. Taken' = [Taken EXCEPT ![running] = [uid |-> id, of |-> new]]
    BY <1>1, <1>4, <1>7, NoCopyAssumption DEF Taken, TypeOK
  <2>2. [Taken[running] EXCEPT !.of = Shown'[id]] = [uid |-> id, of |-> new]
    BY <1>6, <1>8
  <2> QED
    BY <2>1, <2>2 DEF Taken
<1>10. Taken[running] # NoCopy /\ Taken[running].uid = id
  BY <1>1, <1>8, NoCopyAssumption DEF Copies
<1>11. file' = IF Mode = "shared"
               THEN [i \in DOMAIN file \cup {id} |-> IF i = id THEN Shown'[i] ELSE file[i]]
               ELSE file
  BY <1>1, <1>4, <1>6 DEF Mode, CrashCloses, Put
<1>12. file' = IF Mode = "shared"
               THEN [i \in DOMAIN file \cup {Taken[running].uid} |->
                       IF i = Taken[running].uid THEN Shown'[i] ELSE file[i]]
               ELSE file
  BY <1>10, <1>11
<1>13. /\ Table!Changes(Shown, Taken[running].uid, Shown')
       /\ Taken' = [Taken EXCEPT ![running].of = Shown'[Taken[running].uid]]
  BY <1>6, <1>9, <1>10
<1>14. PICK t \in Threads : t = running
  BY <1>1
<1>15. Table!Write(t)
  BY <1>5, <1>10, <1>12, <1>13, <1>14 DEF Table!Write, Table!durable, Shown, Mode, Taken
<1> QED
  BY <1>15
-----------------------------------------------------------------------------
(***************************************************************************)
(* The table becomes longer or shorter: ef_extend() and ef_truncate().     *)
(***************************************************************************)
LEMMA Resizing ==
  ASSUME AllInv, open, open' = open, Mode' = Mode, Taken' = Taken, NEW n \in Nat,
         Ids' = 0 .. n - 1, Ids' \subseteq Ids \/ Ids \subseteq Ids',
         \A i \in Ids' : Record(i)' = IF i \in Ids THEN Record(i) ELSE Blank,
         file' = IF private THEN file ELSE Resized(file, n)
  PROVE  Table!Resize
<1>1. Shown = [i \in Ids |-> Record(i)] /\ Shown' = [i \in Ids' |-> Record(i)']
  BY DEF Shown
<1>2. Shown' = [i \in DOMAIN Shown' |-> IF i \in DOMAIN Shown THEN Shown[i] ELSE Shown'[i]]
  BY <1>1
<1>3. private <=> Mode # "shared"
  BY DEF Mode, AllInv, CrashCloses
<1>4. ~private => DOMAIN file = Ids
  BY DEF AllInv, Inv, FilePlaced
<1>5. file' = IF Mode = "shared"
              THEN [i \in DOMAIN Shown' |-> IF i \in DOMAIN file THEN file[i] ELSE Shown'[i]]
              ELSE file
  <2>1. CASE private
    BY <1>3, <2>1
  <2>2. CASE ~private
    <3>1. file' = [i \in Ids' |-> IF i \in Ids THEN file[i] ELSE Blank]
      BY <1>4, <2>2 DEF Resized
    <3>2. \A i \in Ids' : i \notin Ids => Shown'[i] = Blank
      BY <1>1
    <3> QED
      BY <1>1, <1>3, <1>4, <2>2, <3>1, <3>2
  <2> QED
    BY <2>1, <2>2
<1> QED
  BY <1>2, <1>5 DEF Table!Resize, Table!Resizes, Table!durable, Shown, Mode, Taken

LEMMA Extends ==
  ASSUME AllInv, NEW n \in 1 .. MaxIds, Extend(n)
  PROVE  Table!Resize
<1> USE DEF AllInv, Inv
<1>1. PICK f \in Nat : f = fids + n /\ fids' = f /\ f > fids /\ fids \in Nat
  BY BoundsAssumption DEF Extend, TypeOK
<1>2. /\ open /\ mem /\ open' = open /\ Mode' = Mode /\ Taken' = Taken
      /\ baseid' = baseid /\ cids' = f
      /\ csize' = IF f > csize THEN f ELSE csize
      /\ cache' = [s \in 0 .. csize' - 1 |->
                     IF fids <= s /\ s < f THEN Blank
                     ELSE IF s \in DOMAIN cache THEN cache[s] ELSE Junk]
      /\ file' = IF private THEN file ELSE Resized(file, f)
  BY <1>1 DEF Extend, opening, Mode, Taken
<1>3. baseid = 0 /\ cids = fids /\ fids <= csize /\ csize \in Nat
  BY <1>2 DEF CachePlaced, TypeOK
<1>4. Ids' = 0 .. f - 1 /\ Ids = 0 .. fids - 1 /\ Ids \subseteq Ids'
  BY <1>1 DEF Ids
<1>5. ASSUME NEW i \in Ids'
      PROVE  Record(i)' = IF i \in Ids THEN Record(i) ELSE Blank
  <2>1. Record(i)' = cache'[i]
    BY <1>1, <1>2, <1>3, <1>4 DEF Record, Cached, Slot
  <2>2. i \in Nat /\ i < f /\ i \in 0 .. csize' - 1
    BY <1>1, <1>2, <1>3, <1>4
  <2>3. cache'[i] = IF fids <= i /\ i < f THEN Blank
                    ELSE IF i \in DOMAIN cache THEN cache[i] ELSE Junk
    BY <1>2, <2>2
  <2>4. i \in Ids => Record(i) = cache[i] /\ i \in DOMAIN cache /\ ~(fids <= i)
    BY <1>1, <1>2, <1>3, <1>4, <2>2, RecordIsInCache DEF TypeOK
  <2>5. i \notin Ids => fids <= i
    BY <1>1, <1>4, <2>2
  <2> QED
    BY <2>1, <2>2, <2>3, <2>4, <2>5
<1> QED
  BY <1>1, <1>2, <1>4, <1>5, Resizing

LEMMA Truncates ==
  ASSUME AllInv, NEW n \in 0 .. MaxIds - 1, Truncate(n)
  PROVE  Table!Resize
<1> USE DEF AllInv, Inv
<1>1. /\ n \in Nat /\ n < fids /\ fids' = n /\ fids \in Nat
      /\ open /\ open' = open /\ Mode' = Mode /\ Taken' = Taken /\ mem' = mem
      /\ private' = private /\ baseid' = baseid
      /\ file' = IF private THEN file ELSE Resized(file, n)
  BY BoundsAssumption DEF Truncate, opening, Mode, Taken, TypeOK
<1>2. Ids' = 0 .. n - 1 /\ Ids = 0 .. fids - 1 /\ Ids' \subseteq Ids
  BY <1>1 DEF Ids
<1>3. ASSUME NEW i \in Ids' PROVE Record(i)' = Record(i)
  <2>1. i \in Nat /\ i < n /\ i \in Ids
    BY <1>1, <1>2
  <2>2. CASE mem
    <3>1. baseid = 0 /\ Record(i) = cache[i] /\ fids <= csize /\ csize \in Nat
      BY <1>1, <2>1, <2>2, RecordIsInCache DEF CachePlaced, TypeOK
    <3>2. Record(i)' = cache'[i]
      BY <1>1, <1>2, <2>1, <2>2, <3>1 DEF Truncate, Record, Cached, Slot
    <3>3. cache'[i] = cache[i]
      BY <1>1, <2>1, <2>2, <3>1 DEF Truncate, Realloced, TypeOK
    <3> QED
      BY <3>1, <3>2, <3>3
  <2>3. CASE ~mem
    <3>1. Record(i) = file[i] /\ ~private /\ DOMAIN file = Ids
      BY <1>1, <2>1, <2>3, RecordIsInFile DEF FilePlaced
    <3>2. file'[i] = file[i]
      BY <1>1, <1>2, <2>1, <3>1 DEF Resized
    <3>3. cache' = cache /\ cids' = IF baseid >= n THEN 0 ELSE Least(cids, n - baseid)
      BY <2>3 DEF Truncate
    <3>4. Cached(i)' => Cached(i)
      BY <1>1, <2>1, <3>3 DEF Cached, Least, TypeOK
    <3>5. Record(i)' = file[i]
      BY <1>1, <2>1, <2>3, <3>1, <3>2, <3>3, <3>4 DEF Record, Slot, CachePlaced
    <3> QED
      BY <3>1, <3>5
  <2> QED
    BY <2>2, <2>3
<1> QED
  BY <1>1, <1>2, <1>3, Resizing
-----------------------------------------------------------------------------
(***************************************************************************)
(* Opening, flushing and closing, where the file and what the cache shows  *)
(* must become the same.                                                   *)
(***************************************************************************)
LEMMA FlushedIsShown ==
  ASSUME AllInv, open
  PROVE  Flushed = IF Mode = "shared" THEN Shown ELSE file
<1> USE DEF AllInv, Inv
<1>1. Ids \subseteq Nat /\ (private <=> Mode # "shared") /\ (private => mem)
  BY DEF TypeOK, Ids, Mode, CrashCloses, FilePlaced
<1>2. CASE private
  BY <1>1, <1>2 DEF Flushed
<1>3. CASE ~private /\ mem
  <2>1. Flushed = [i \in Ids |-> cache[i]]
    BY <1>3 DEF Flushed, FilePlaced
  <2>2. \A i \in Ids : Record(i) = cache[i]
    BY <1>1, <1>3, RecordIsInCache
  <2> QED
    BY <1>1, <1>3, <2>1, <2>2 DEF Shown
<1>4. CASE ~private /\ ~mem
  <2>1. Flushed = file /\ file \in [Ids -> Records]
    BY <1>4 DEF Flushed, FilePlaced
  <2>2. \A i \in Ids : Record(i) = file[i]
    BY <1>1, <1>4, RecordIsInFile
  <2> QED
    BY <1>1, <1>4, <2>1, <2>2 DEF Shown
<1> QED
  BY <1>2, <1>3, <1>4

LEMMA Flushes ==
  ASSUME AllInv, Flush
  PROVE  Table!Flush \/ UNCHANGED Table!vars
<1> USE DEF AllInv, Inv
<1>1. open /\ file' = Flushed /\ UNCHANGED <<opening, caching, fids, copy>>
  BY DEF Flush
<1>2. Ids \subseteq Nat /\ Ids' = Ids /\ open' = open /\ Mode' = Mode /\ Taken' = Taken
  BY <1>1 DEF TypeOK, Ids, opening, Mode, Taken
<1>3. CASE file' = file
  <2>1. \A i \in Nat : Record(i)' = Record(i)
    BY <1>1, <1>2, <1>3 DEF Record, Cached, Slot, caching
  <2> QED
    BY <1>1, <1>3, <2>1, NothingShows
<1>4. CASE file' # file
  <2>1. Mode = "shared" /\ file' = Shown
    BY <1>1, <1>4, FlushedIsShown
  <2>2. mem
    BY <1>1, <1>4 DEF Flushed
  <2>3. \A i \in Ids : Record(i)' = Record(i)
    BY <1>1, <1>2, <2>2 DEF CachePlaced, Record, Cached, Slot, Ids, caching, TypeOK
  <2>4. Shown' = Shown
    BY <1>1, <1>2, <2>3 DEF Shown
  <2> QED
    BY <1>2, <2>1, <2>4 DEF Table!Flush, Table!durable, Shown, Mode, Taken
<1> QED
  BY <1>3, <1>4

LEMMA Closes ==
  ASSUME AllInv, Close
  PROVE  Table!Close
<1>1. /\ open /\ file' = IF Mode = "shared" THEN Shown ELSE file
      /\ open' = FALSE /\ copy' = NoCopies /\ crashed' = crashed
  BY FlushedIsShown DEF Close, Forget
<1>2. Mode \in {"shared", "private"} /\ Mode' = "closed"
  BY <1>1 DEF Mode, AllInv, CrashCloses
<1>3. Shown' = file' /\ Taken' = [t \in Threads |-> NoCopy]
  BY <1>1 DEF Shown, Taken, NoCopies
<1> QED
  BY <1>1, <1>2, <1>3 DEF Table!Close, Table!durable, Table!NoCopies, Shown, Mode, Taken

LEMMA Crashes ==
  ASSUME AllInv, Crash
  PROVE  Table!Crash
<1>1. open /\ file' = file /\ open' = FALSE /\ copy' = NoCopies /\ crashed' = TRUE
  BY DEF Crash, Forget
<1>2. Mode \in {"shared", "private"} /\ Mode' = "crashed"
  BY <1>1 DEF Mode, AllInv, CrashCloses
<1>3. Shown' = file /\ Taken' = [t \in Threads |-> NoCopy]
  BY <1>1 DEF Shown, Taken, NoCopies
<1> QED
  BY <1>1, <1>2, <1>3 DEF Table!Crash, Table!NoCopies, Shown, Mode, Taken

LEMMA Opens ==
  ASSUME AllInv, NEW m \in BOOLEAN, NEW p \in BOOLEAN, Open(m, p)
  PROVE  Table!Open
<1> USE DEF AllInv, Inv
<1>1. PICK n \in 0 .. MaxIds :
        /\ DOMAIN file = 0 .. n - 1 /\ fids' = n
        /\ m => /\ cids' = n /\ csize' = IF n = 0 THEN 1 ELSE n
                /\ cache' = [s \in 0 .. csize' - 1 |-> IF s < n THEN file[s] ELSE Junk]
        /\ ~m => cids' = 0
  BY DEF Open
<1>2. /\ ~open /\ open' = TRUE /\ crashed' = FALSE /\ baseid' = 0
      /\ UNCHANGED <<file, copy>>
  BY DEF Open
<1>3. Mode \in {"closed", "crashed"} /\ Mode' \in {"shared", "private"} /\ Taken' = Taken
  BY <1>2 DEF Mode, Taken
<1>4. n \in Nat /\ Ids' = 0 .. n - 1
  BY <1>1, BoundsAssumption DEF Ids
<1>5. ASSUME NEW i \in 0 .. n - 1 PROVE Record(i)' = file[i]
  <2>1. CASE m
    <3>1. i \in 0 .. csize' - 1 /\ i < n /\ i \in Nat
      BY <1>1, <1>4, <2>1
    <3>2. cache'[i] = file[i]
      BY <1>1, <2>1, <3>1
    <3> QED
      BY <1>1, <1>2, <1>4, <2>1, <3>1, <3>2 DEF Record, Cached, Slot
  <2>2. CASE ~m
    BY <1>1, <1>2, <1>4, <2>2 DEF Record, Cached
  <2> QED
    BY <2>1, <2>2
<1>6. Shown' = Shown
  <2>1. Shown' = [i \in 0 .. n - 1 |-> file[i]]
    BY <1>2, <1>4, <1>5 DEF Shown
  <2>2. file = [i \in 0 .. n - 1 |-> file[i]]
    BY <1>1 DEF TypeOK
  <2> QED
    BY <1>2, <2>1, <2>2 DEF Shown
<1> QED
  BY <1>2, <1>3, <1>6 DEF Table!Open, Shown, Mode, Taken

LEMMA Creates ==
  ASSUME AllInv, NEW n \in 0 .. MaxIds, Create(n)
  PROVE  Table!Create
<1>1. /\ ~open /\ open' = TRUE /\ private' = FALSE /\ crashed' = FALSE
      /\ file' = [i \in 0 .. n - 1 |-> Blank]
      /\ baseid' = 0 /\ cids' = 0 /\ fids' = n /\ copy' = copy
  BY DEF Create
<1>2. Mode \in {"closed", "crashed"} /\ Mode' = "shared" /\ Taken' = Taken
  BY <1>1 DEF Mode, Taken
<1>3. Ids' = 0 .. n - 1 /\ n \in Nat
  BY <1>1, BoundsAssumption DEF Ids
<1>4. \A i \in 0 .. n - 1 : Record(i)' = file'[i]
  BY <1>1, <1>3 DEF Record, Cached
<1>5. Shown' = file'
  BY <1>1, <1>3, <1>4 DEF Shown
<1> QED
  BY <1>2, <1>5 DEF Table!Create, Shown, Mode, Taken
-----------------------------------------------------------------------------
LEMMA ReadsTake ==
  ASSUME AllInv, NEW id \in 0 .. MaxIds - 1, Read(id) \/ BlankCopy(id) \/ SetUid(id)
  PROVE  running \in Threads /\ Table!Take(running, id)
<1>1. CacheMoves /\ open /\ UNCHANGED <<file, opening, fids>>
  <2>1. CASE Read(id)
    BY <2>1, FillKeepsPlaces, GetSeqnoKeepsPlaces DEF AllInv, Inv, Read, GetSeqno, Ids
  <2>2. CASE BlankCopy(id) \/ SetUid(id)
    BY <2>2, GetSeqnoKeepsPlaces, BoundsAssumption DEF AllInv, Inv, BlankCopy, SetUid
  <2> QED
    BY <2>1, <2>2
<1>2. \A i \in Nat : Record(i)' = Record(i)
  BY <1>1 DEF CacheMoves
<1>3. PICK g \in Nat :
        copy' = [copy EXCEPT ![running] = [uid |-> id, of |-> Record(id), gen |-> g]]
  <2>1. CASE Read(id) \/ BlankCopy(id)
    BY <2>1 DEF Read, BlankCopy, SetCopy, AllInv, Inv, TypeOK
  <2>2. CASE SetUid(id)
    <3>1. PICK c \in Copies : c = copy[running]
      BY <2>2 DEF SetUid, AllInv, Inv, TypeOK
    <3> QED
      BY <2>2, <3>1 DEF SetUid, SetCopy, Copies
  <2> QED
    BY <2>1, <2>2
<1>4. id \in Nat
  BY BoundsAssumption
<1> QED
  BY <1>1, <1>2, <1>3, <1>4, Takes

LEMMA PeeksShowNothing ==
  ASSUME AllInv, NEW id \in 0 .. MaxIds - 1, Peek(id)
  PROVE  UNCHANGED Table!vars
<1>1. CacheMoves
  BY FillKeepsPlaces DEF AllInv, Inv, Peek
<1>2. \A i \in Nat : Record(i)' = Record(i)
  BY <1>1 DEF CacheMoves
<1> QED
  BY <1>2, NothingShows DEF Peek

LEMMA YieldsShowNothing ==
  ASSUME AllInv, NEW t \in Threads, Yield(t)
  PROVE  UNCHANGED Table!vars
<1>1. \A i \in Nat : Record(i)' = Record(i)
  BY DEF Yield, Record, Ids, Cached, Slot, caching
<1> QED
  BY <1>1, NothingShows DEF Yield

LEMMA StepRefines == AllInv /\ [Next]_vars => [Table!Next]_(Table!vars)
<1> SUFFICES ASSUME AllInv, [Next]_vars
             PROVE  Table!Next \/ UNCHANGED Table!vars
  OBVIOUS
<1>0. 0 .. MaxIds - 1 \subseteq 0 .. MaxIds
  BY BoundsAssumption
<1>1. CASE UNCHANGED vars
  <2>1. \A i \in Nat : Record(i)' = Record(i)
    BY <1>1 DEF vars, Record, Ids, Cached, Slot, caching
  <2> QED
    BY <1>1, <2>1, NothingShows DEF vars
<1>2. CASE (\E m, p \in BOOLEAN : Open(m, p)) \/ (\E n \in 0 .. MaxIds : Create(n))
  BY <1>2, Opens, Creates DEF Table!Next
<1>3. CASE Flush \/ Close \/ Crash
  BY <1>3, Flushes, Closes, Crashes DEF Table!Next
<1>4. CASE \E id \in 0 .. MaxIds - 1 : Read(id) \/ Peek(id) \/ BlankCopy(id) \/ SetUid(id)
  <2>1. PICK id \in 0 .. MaxIds - 1 : Read(id) \/ Peek(id) \/ BlankCopy(id) \/ SetUid(id)
    BY <1>4
  <2>2. CASE Peek(id)
    BY <2>2, PeeksShowNothing
  <2>3. CASE Read(id) \/ BlankCopy(id) \/ SetUid(id)
    <3>1. running \in Threads /\ Table!Take(running, id)
      BY <2>3, ReadsTake
    <3> QED
      BY <1>0, <3>1 DEF Table!Next
  <2> QED
    BY <2>1, <2>2, <2>3
<1>5. CASE Write
  <2>1. \E t \in Threads : Table!Write(t)
    BY <1>5, Writes
  <2> QED
    BY <2>1 DEF Table!Next
<1>6. CASE \E id \in 0 .. MaxIds - 1 : Update(id) \/ WriteInPlace(id)
  BY <1>0, <1>6, Points DEF Table!Next
<1>7. CASE \E n \in 1 .. MaxIds : Extend(n)
  BY <1>7, Extends DEF Table!Next
<1>8. CASE \E n \in 0 .. MaxIds - 1 : Truncate(n)
  BY <1>8, Truncates DEF Table!Next
<1>9. CASE \E t \in Threads : Yield(t)
  BY <1>9, YieldsShowNothing
<1> QED
  BY <1>1, <1>2, <1>3, <1>4, <1>5, <1>6, <1>7, <1>8, <1>9 DEF Next

(***************************************************************************)
(* For any number of slots, records and threads, and any width of the      *)
(* counters, commands see a plain table: the cache of file.c never shows a *)
(* record other than the last one written, a write changes no other        *)
(* record, and a crash loses nothing but changes made through pointers.    *)
(***************************************************************************)
THEOREM ImplementsTable == Spec => KeepsTable
<1>1. Init => Table!Init
  BY DEF Init, Table!Init, Table!NoCopies, NoCopies
<1> QED
  BY <1>1, StepRefines, AllInvariant, PTL DEF Spec, KeepsTable, Table!Spec

-----------------------------------------------------------------------------
(***************************************************************************)
(* Fairland makes the world that was asked for, for any world and order.   *)
(*                                                                         *)
(* First the map; then arrays of linked sectors; then zones: that a zone   *)
(* as wide as the distance asked for keeps who grows away, and that the    *)
(* folds over sectors, islands and capitals draw it.  Then the invariant,  *)
(* step by step.                                                           *)
(***************************************************************************)

-----------------------------------------------------------------------------
(* The map. *)

\* A coordinate goes around the world, and in an even world keeps its parity.
LEMMA Wraps ==
  ASSUME NEW w \in Nat \ {0}, w % 2 = 0, NEW x \in 0..w - 1, NEW d \in -2..2
  PROVE  /\ (x + d + w) % w \in 0..w - 1
         /\ ((x + d + w) % w) % 2 = (x + d) % 2
         /\ (w > 2 /\ d = 2 => (x + d + w) % w # x)
<1> DEFINE a == x + d + w
<1>1. w >= 2 /\ a \in Nat /\ (a >= w => a - w \in Nat) /\ (a >= 2 * w => a - 2 * w \in Nat)
  BY SMT
<1>2. a < w => a % w = a
  BY <1>1, Remainder
<1>3. a >= w => a % w = (a - w) % w
  <2>1. ASSUME a >= w PROVE ((a - w) + w) % w = (a - w) % w /\ (a - w) + w = a
    <3>1. a - w \in Nat /\ (a - w) + w = a
      BY <1>1, <2>1
    <3>2. \A b \in Nat : (b + w) % w = b % w
      BY Remainder
    <3> QED
      BY <3>1, <3>2
  <2> QED
    BY <2>1
<1>4. a >= w /\ a < 2 * w => (a - w) % w = a - w
  <2>1. ASSUME a >= w, a < 2 * w PROVE (a - w) % w = a - w
    <3>1. a - w \in Nat /\ a - w < w
      BY <1>1, <2>1
    <3> QED
      BY <3>1, Remainder
  <2> QED
    BY <2>1
<1>5. a >= 2 * w => (a - w) % w = a - 2 * w
  <2>1. ASSUME a >= 2 * w PROVE (a - w) % w = a - 2 * w
    <3>1. a - 2 * w \in Nat /\ a - 2 * w < w /\ (a - 2 * w) + w = a - w
      BY <1>1, <2>1
    <3>2. ((a - 2 * w) + w) % w = (a - 2 * w) % w /\ (a - 2 * w) % w = a - 2 * w
      BY <3>1, Remainder
    <3> QED
      BY <3>1, <3>2
  <2> QED
    BY <2>1
<1> DEFINE r == a % w
<1>6. r = IF a < w THEN a ELSE IF a < 2 * w THEN a - w ELSE a - 2 * w
  BY <1>1, <1>2, <1>3, <1>4, <1>5
<1> HIDE DEF r
<1> QED
  BY <1>1, <1>6 DEF r

\* Every sector's neighbors are sectors; who is to the right is someone else.
LEMMA NeighborsAreHexes ==
  ASSUME HexAssumption, NEW s \in Hexes
  PROVE  Around(s) \subseteq Hexes /\ Right(s) \in Around(s) /\ Right(s) \in Hexes
         /\ (WorldX > 2 => Right(s) # s)
<1>1. WorldX \in Nat \ {0} /\ WorldY \in Nat \ {0} /\ WorldX % 2 = 0 /\ WorldY % 2 = 0
  BY DEF HexAssumption
<1>2. s[1] \in 0..WorldX - 1 /\ s[2] \in 0..WorldY - 1 /\ (s[1] + s[2]) % 2 = 0
  BY DEF Hexes
<1>3. ASSUME NEW dx \in -2..2, NEW dy \in -2..2, (dx + dy) % 2 = 0 PROVE Moved(s, dx, dy) \in Hexes
  <2> DEFINE x == (s[1] + dx + WorldX) % WorldX  y == (s[2] + dy + WorldY) % WorldY
  <2>1. x \in 0..WorldX - 1 /\ x % 2 = (s[1] + dx) % 2
    <3>1. \A i \in 0..WorldX - 1, d \in -2..2 : /\ (i + d + WorldX) % WorldX \in 0..WorldX - 1
                                               /\ ((i + d + WorldX) % WorldX) % 2 = (i + d) % 2
      BY <1>1, Wraps
    <3> QED
      BY <1>2, <3>1
  <2>2. y \in 0..WorldY - 1 /\ y % 2 = (s[2] + dy) % 2
    <3>1. \A i \in 0..WorldY - 1, d \in -2..2 : /\ (i + d + WorldY) % WorldY \in 0..WorldY - 1
                                               /\ ((i + d + WorldY) % WorldY) % 2 = (i + d) % 2
      BY <1>1, Wraps
    <3> QED
      BY <1>2, <3>1
  <2>3. Moved(s, dx, dy) = <<x, y>>
    BY DEF Moved
  <2> HIDE DEF x, y
  <2>4. (x + y) % 2 = 0
    BY <1>1, <1>2, <1>3, <2>1, <2>2
  <2> QED
    BY <2>1, <2>2, <2>3, <2>4 DEF Hexes
<1>4. Dirs = 1..6 /\ \A d \in Dirs : DirOff[d][1] \in -2..2 /\ DirOff[d][2] \in -2..2 /\ (DirOff[d][1] + DirOff[d][2]) % 2 = 0
  BY DEF Dirs, DirOff
<1>5. \A d \in Dirs : Neighbor[s][d] = Moved(s, DirOff[d][1], DirOff[d][2])
  BY DEF Neighbor
<1>6. \A d \in Dirs : Neighbor[s][d] \in Hexes
  BY <1>3, <1>4, <1>5
<1>7. Right(s) \in Around(s)
  BY <1>4 DEF Right, Around
<1>8. WorldX > 2 => Right(s) # s
  <2>1. 2 \in Dirs /\ DirOff[2][1] = 2 /\ DirOff[2][2] = 0
    BY <1>4 DEF DirOff
  <2>2. Right(s) = Moved(s, 2, 0)
    BY <1>5, <2>1 DEF Right
  <2>3. Right(s)[1] = (s[1] + 2 + WorldX) % WorldX
    BY <2>2 DEF Moved
  <2>4. \A d \in -2..2 : WorldX > 2 /\ d = 2 => (s[1] + d + WorldX) % WorldX # s[1]
    BY <1>1, <1>2, Wraps
  <2> QED
    BY <2>3, <2>4
<1> QED
  BY <1>6, <1>7, <1>8 DEF Around

\* Distances are numbers, and the same both ways; nothing is far from itself.
LEMMA Distances ==
  ASSUME HexAssumption, NEW s \in Hexes, NEW t \in Hexes
  PROVE  MapDist[s][t] \in Nat /\ MapDist[s][t] = MapDist[t][s] /\ MapDist[s][s] = 0
<1> DEFINE gap(a, b) == IF a < b THEN b - a ELSE a - b
           dist(dx, dy) == IF dx > dy THEN Half(dx - dy) + dy ELSE dy
<1>1. WorldX \in Nat \ {0} /\ WorldY \in Nat \ {0}
  BY DEF HexAssumption
<1>2. ASSUME NEW w \in Nat \ {0}, NEW a \in Nat, NEW b \in Nat
      PROVE  Delta(a, b, w) \in Nat /\ Delta(a, b, w) = Delta(b, a, w) /\ Delta(a, a, w) = 0
  <2>1. gap(a, b) = gap(b, a) /\ gap(a, b) \in Nat /\ gap(a, a) = 0
    OBVIOUS
  <2>2. Delta(a, b, w) = Delta(b, a, w)
    BY <2>1 DEF Delta
  <2>3. gap(a, b) % w \in 0..w - 1 /\ 0 % w = 0
    <3> HIDE DEF gap
    <3>1. \A n \in Nat : n % w \in 0..w - 1 /\ (n < w => n % w = n)
      BY Remainder
    <3>2. 0 \in Nat /\ 0 < w
      OBVIOUS
    <3> QED
      BY <2>1, <3>1, <3>2
  <2>4. Delta(a, b, w) = LET d == gap(a, b) % w IN IF d > Half(w) THEN w - d ELSE d
    BY DEF Delta
  <2>5. Delta(a, a, w) = LET d == 0 % w IN IF d > Half(w) THEN w - d ELSE d
    BY <2>1 DEF Delta
  <2>6. Half(w) \in Nat
    BY DEF Half
  <2> HIDE DEF gap
  <2> QED
    BY <2>2, <2>3, <2>4, <2>5, <2>6
<1>3. s[1] \in Nat /\ s[2] \in Nat /\ t[1] \in Nat /\ t[2] \in Nat
  BY <1>1 DEF Hexes
<1>4. \A dx, dy \in Nat : dist(dx, dy) \in Nat /\ dist(0, 0) = 0
  BY DEF Half
<1>5. \A x, y \in Hexes : MapDist[x][y] = dist(Delta(x[1], y[1], WorldX), Delta(x[2], y[2], WorldY))
  BY DEF MapDist
<1> HIDE DEF dist
<1>6. /\ Delta(s[1], t[1], WorldX) \in Nat /\ Delta(s[1], t[1], WorldX) = Delta(t[1], s[1], WorldX)
      /\ Delta(s[2], t[2], WorldY) \in Nat /\ Delta(s[2], t[2], WorldY) = Delta(t[2], s[2], WorldY)
      /\ Delta(s[1], s[1], WorldX) = 0 /\ Delta(s[2], s[2], WorldY) = 0
  BY <1>1, <1>2, <1>3
<1>7. /\ MapDist[s][t] = dist(Delta(s[1], t[1], WorldX), Delta(s[2], t[2], WorldY))
      /\ MapDist[t][s] = dist(Delta(t[1], s[1], WorldX), Delta(t[2], s[2], WorldY))
      /\ MapDist[s][s] = dist(Delta(s[1], s[1], WorldX), Delta(s[2], s[2], WorldY))
  BY <1>5
<1> QED
  BY <1>4, <1>6, <1>7

-----------------------------------------------------------------------------
(* Islands and the zones around them. *)

LandOf(q) == UNION {ToSet(q[c]) : c \in Islands}

\* Each sector but the first is next to an earlier one.
Linked(q) == \A i \in 2..Len(q) : \E k \in 1..i - 1 : q[i] \in Around(q[k])
Shapely(q) == \A c \in Islands : IsInjective(q[c]) /\ Linked(q[c])

Far(S, T, dist) == \A s \in S, t \in T : MapDist[s][t] > dist

Spaced(q) ==
  /\ \A c, d \in Conts : c # d => Far(ToSet(q[c]), ToSet(q[d]), Di)
  /\ \A c \in Conts, d \in Islands \ Conts : Far(ToSet(q[c]), ToSet(q[d]), Id)
  /\ DistinctIslands => \A c, d \in Islands \ Conts : c # d => Far(ToSet(q[c]), ToSet(q[d]), Id)

\* Water near sectors T of island d is not free for another island.
Covers(zone, d, T, land, width) ==
  \A t \in T, s \in Hexes \ land : MapDist[t][s] <= width => zone[s] \in {d, Many}
Zoned(q, zone, f) == \A d \in Islands : Covers(zone, d, ToSet(q[d]), LandOf(q), f[d])

\* What every command line asks for.
LEMMA OrderIs ==
  ASSUME FairlandAssumption, order \in Orders
  PROVE  /\ WorldX > 2
         /\ Nc \in Nat \ {0} /\ Ni \in Nat \ {0} /\ Is \in Nat \ {0} /\ NumTries \in Nat \ {0} /\ Sc \in Nat \ {0, 1}
         /\ Di \in Nat /\ Id \in Nat /\ DistinctIslands \in BOOLEAN
         /\ Conts \subseteq Islands /\ Islands \subseteq Nat /\ None1 \notin Nat /\ Many \notin Nat /\ None1 # Many
<1>1. /\ Nc \in Nat \ {0} /\ Ni \in Nat \ {0} /\ Is \in Nat \ {0} /\ NumTries \in Nat \ {0} /\ Sc \in Nat \ {0, 1}
      /\ Di \in Nat /\ Id \in Nat /\ DistinctIslands \in BOOLEAN /\ WorldX > 2
  BY DEF FairlandAssumption, Nc, Ni, Is, NumTries, Sc, Di, Id, DistinctIslands
<1> QED
  BY <1>1 DEF Conts, Islands, None1, Many

\* A sector in no zone but c's is far from where another island's zone is.
LEMMA FreeIsFar ==
  ASSUME HexAssumption, FairlandAssumption, order \in Orders,
         NEW zone, NEW c \in Islands, NEW d \in Islands, c # d, NEW T \in SUBSET Hexes, NEW land, NEW width \in Nat,
         Covers(zone, d, T, land, width), NEW s \in Hexes, s \notin land, zone[s] \in {c, None1}
  PROVE  \A t \in T : MapDist[t][s] > width /\ MapDist[s][t] > width
<1> TAKE t \in T
<1>1. MapDist[s][t] \in Int /\ MapDist[s][t] = MapDist[t][s]
  BY Distances
<1>2. ~(MapDist[t][s] <= width)
  <2>1. c \notin {d, Many} /\ None1 \notin {d, Many}
    BY OrderIs
  <2> QED
    BY <2>1 DEF Covers
<1> QED
  BY <1>1, <1>2

\* What a sector of c does to the zones of the others, and to its own.
LEMMA SectorCovers ==
  ASSUME HexAssumption, FairlandAssumption, order \in Orders,
         NEW zone \in [Hexes -> Int], NEW c \in Islands, NEW s \in Hexes, NEW land, NEW width \in Nat,
         s \in land \/ zone[s] \in {c, None1}
  PROVE  /\ AroundSector(zone, c, s, width) \in [Hexes -> Int]
         /\ \A d \in Islands \ {c}, T \in SUBSET Hexes, w \in Nat :
              Covers(zone, d, T, land, w) => Covers(AroundSector(zone, c, s, width), d, T, land, w)
         /\ \A T \in SUBSET Hexes :
              Covers(zone, c, T, land, width) => Covers(AroundSector(zone, c, s, width), c, T \cup {s}, land, width)
<1> DEFINE z == AroundSector(zone, c, s, width)
<1>1. \A x \in Hexes : z[x] = IF x = s THEN c ELSE IF ~(MapDist[s][x] <= width) \/ zone[x] = c THEN zone[x]
                              ELSE IF zone[x] = None1 THEN c ELSE Many
  BY DEF AroundSector, Near
<1>2. z \in [Hexes -> Int]
  BY OrderIs DEF AroundSector, None1, Many
<1> HIDE DEF z
<1>3. ASSUME NEW d \in Islands \ {c}, NEW T \in SUBSET Hexes, NEW w \in Nat, Covers(zone, d, T, land, w)
      PROVE  Covers(z, d, T, land, w)
  <2>1. ASSUME NEW t \in T, NEW x \in Hexes \ land, MapDist[t][x] <= w PROVE z[x] \in {d, Many}
    <3>1. zone[x] \in {d, Many}
      BY <1>3, <2>1 DEF Covers
    <3>2. x # s
      BY <3>1, OrderIs
    <3>3. zone[x] # c /\ zone[x] # None1
      BY <3>1, OrderIs
    <3> QED
      BY <1>1, <3>1, <3>2, <3>3
  <2> QED
    BY <2>1 DEF Covers
<1>4. ASSUME NEW T \in SUBSET Hexes, Covers(zone, c, T, land, width)
      PROVE  Covers(z, c, T \cup {s}, land, width)
  <2>1. ASSUME NEW t \in T \cup {s}, NEW x \in Hexes \ land, MapDist[t][x] <= width PROVE z[x] \in {c, Many}
    <3>1. CASE t = s
      BY <1>1, <2>1, <3>1
    <3>2. CASE t \in T
      <4>1. zone[x] \in {c, Many}
        BY <1>4, <2>1, <3>2 DEF Covers
      <4>2. zone[x] # None1
        BY <4>1, OrderIs
      <4> QED
        BY <1>1, <4>1, <4>2
    <3> QED
      BY <3>1, <3>2
  <2> QED
    BY <2>1 DEF Covers
<1> QED
  BY <1>2, <1>3, <1>4 DEF z

\* An island grows by a sector next to it.
LEMMA AppendLinked ==
  ASSUME NEW q \in Seq(Hexes), NEW s \in Hexes, s \notin ToSet(q), IsInjective(q), Linked(q),
         q = <<>> \/ \E t \in ToSet(q) : s \in Around(t)
  PROVE  /\ Append(q, s) \in Seq(Hexes) /\ Len(Append(q, s)) = Len(q) + 1
         /\ ToSet(Append(q, s)) = ToSet(q) \cup {s}
         /\ IsInjective(Append(q, s)) /\ Linked(Append(q, s))
<1> DEFINE r == Append(q, s)  n == Len(q)
<1>1. n \in Nat /\ DOMAIN q = 1..n /\ \A i \in 1..n : q[i] \in Hexes
  BY LenProperties, ElementOfSeq
<1>2. r \in Seq(Hexes) /\ Len(r) = n + 1 /\ r[n + 1] = s /\ DOMAIN r = 1..n + 1 /\ \A i \in 1..n : r[i] = q[i]
  BY AppendProperties
<1> HIDE DEF r, n
<1>3. \A i \in 1..n + 1 : i = n + 1 \/ i \in 1..n
  BY <1>1
<1>4. ToSet(r) = ToSet(q) \cup {s}
  <2>1. ASSUME NEW x \in ToSet(r) PROVE x \in ToSet(q) \cup {s}
    BY <1>1, <1>2, <1>3 DEF ToSet
  <2>2. ASSUME NEW x \in ToSet(q) PROVE x \in ToSet(r)
    <3>1. PICK i \in 1..n : x = q[i]
      BY <1>1 DEF ToSet
    <3>2. i \in 1..n + 1 /\ r[i] = x
      BY <1>1, <1>2, <3>1
    <3> QED
      BY <1>2, <3>2 DEF ToSet
  <2>3. s \in ToSet(r)
    <3>1. n + 1 \in 1..n + 1
      BY <1>1
    <3> QED
      BY <1>2, <3>1 DEF ToSet
  <2> QED
    BY <2>1, <2>2, <2>3
<1>5. \A i \in 1..n : q[i] \in ToSet(q)
  BY <1>1 DEF ToSet
<1>6. IsInjective(r)
  <2>1. ASSUME NEW a \in 1..n + 1, NEW b \in 1..n + 1, r[a] = r[b] PROVE a = b
    <3>1. CASE a \in 1..n /\ b \in 1..n
      BY <1>1, <1>2, <2>1, <3>1 DEF IsInjective
    <3>2. CASE a = n + 1 \/ b = n + 1
      BY <1>2, <1>3, <1>5, <2>1, <3>2
    <3> QED
      BY <1>3, <3>1, <3>2
  <2> QED
    BY <1>2, <2>1 DEF IsInjective
<1>7. Linked(r)
  <2>1. ASSUME NEW i \in 2..n + 1 PROVE \E k \in 1..i - 1 : r[i] \in Around(r[k])
    <3>1. CASE i \in 2..n
      <4>1. PICK k \in 1..i - 1 : q[i] \in Around(q[k])
        BY <3>1 DEF Linked, n
      <4>2. k \in 1..n /\ i \in 1..n
        BY <1>1, <3>1
      <4> QED
        BY <1>2, <4>1, <4>2
    <3>2. CASE i = n + 1
      <4>1. q # <<>>
        BY <1>1, <2>1, <3>2 DEF n
      <4>2. PICK k \in 1..n : s \in Around(q[k])
        BY <1>1, <4>1 DEF ToSet
      <4>3. k \in 1..i - 1 /\ r[k] = q[k] /\ r[i] = s
        BY <1>1, <1>2, <3>2
      <4> QED
        BY <4>2, <4>3
    <3> QED
      BY <1>1, <3>1, <3>2
  <2> QED
    BY <1>2, <2>1 DEF Linked
<1> QED
  BY <1>2, <1>4, <1>6, <1>7 DEF r, n

\* An island that gives back its last sectors.
LEMMA PrefixLinked ==
  ASSUME NEW q \in Seq(Hexes), IsInjective(q), Linked(q), NEW n \in Nat, n <= Len(q)
  PROVE  /\ SubSeq(q, 1, n) \in Seq(Hexes) /\ Len(SubSeq(q, 1, n)) = n
         /\ ToSet(SubSeq(q, 1, n)) \subseteq ToSet(q)
         /\ IsInjective(SubSeq(q, 1, n)) /\ Linked(SubSeq(q, 1, n))
<1> DEFINE r == SubSeq(q, 1, n)
<1>1. Len(q) \in Nat /\ DOMAIN q = 1..Len(q) /\ \A i \in 1..n : i \in 1..Len(q)
  BY LenProperties
<1>2. r \in Seq(Hexes) /\ Len(r) = n /\ DOMAIN r = 1..n /\ \A i \in 1..n : r[i] = q[i]
  <2>1. \A i \in 1..n : q[i] \in Hexes
    BY <1>1, ElementOfSeq
  <2>2. Len(r) = n /\ \A i \in 1..n : r[i] = q[i]
    BY <1>1
  <2>3. r \in Seq(Hexes)
    BY <1>1
  <2> QED
    BY <2>2, <2>3
<1> HIDE DEF r
<1>3. ToSet(r) \subseteq ToSet(q)
  BY <1>1, <1>2 DEF ToSet
<1>4. IsInjective(r)
  BY <1>1, <1>2 DEF IsInjective
<1>5. Linked(r)
  <2>1. ASSUME NEW i \in 2..n PROVE \E k \in 1..i - 1 : r[i] \in Around(r[k])
    <3>1. i \in 2..Len(q) /\ i \in 1..n
      BY <1>1
    <3>2. PICK k \in 1..i - 1 : q[i] \in Around(q[k])
      BY <3>1 DEF Linked
    <3>3. k \in 1..n
      BY <3>2
    <3> QED
      BY <1>2, <3>1, <3>2, <3>3
  <2> QED
    BY <1>2, <2>1 DEF Linked
<1> QED
  BY <1>2, <1>3, <1>4, <1>5 DEF r

\* Who starts from the first sector gets to all of an island.
LEMMA LinkedIsWhole ==
  ASSUME NEW c, isl[c] \in Seq(Hexes), Linked(isl[c])
  PROVE  Whole(c)
<1> DEFINE q == isl[c]
           all == ToSet(q)
           more(r, n) == r \cup {t \in all : \E u \in r : t \in Around(u)}
           K == SUBSET all
           F == [r \in K |-> [n \in Hexes |-> more(r, n)]]
           Goes(h) == h = [s \in SUBSET DOMAIN q |->
                             IF s = {} THEN {q[1]} ELSE more(h[s \ {Max(s)}], q[Max(s)])]
           iter == CHOOSE h : Goes(h)
<1>1. Len(q) \in Nat /\ DOMAIN q = 1..Len(q) /\ q \in Seq(Hexes)
  BY LenProperties
<1>2. SUFFICES ASSUME all # {} PROVE FoldLeft(more, {q[1]}, q) = all
  BY Zenon DEF Whole
<1>3. 1 \in 1..Len(q) /\ \A i \in 1..Len(q) : q[i] \in all
  <2>1. 1 \in 1..Len(q)
    BY <1>1, <1>2 DEF ToSet
  <2> QED
    BY <1>1, <2>1 DEF ToSet
<1>4. {q[1]} \in K
  BY <1>3
<1>5. \A r \in K, n \in Hexes : more(r, n) \in K
  OBVIOUS
<1>6. F \in [K -> [Hexes -> K]]
  BY <1>5
<1> HIDE DEF q
<1>7. \E h : Goes(h)
  <2>0. Folds(K, Len(q), {q[1]}, F, q)
    <3> HIDE DEF F, K
    <3> QED
      BY <1>1, <1>4, <1>6, FoldExists
  <2>1. PICK h : h \in [SUBSET (1..Len(q)) -> K] /\ Recurs(h, Len(q), {q[1]}, F, q)
    BY <2>0 DEF Folds
  <2> HIDE DEF K
  <2>2. ASSUME NEW s \in SUBSET DOMAIN q, s # {}
        PROVE  h[s \ {Max(s)}] \in K /\ q[Max(s)] \in Hexes
    <3>1. Max(s) \in s
      BY <1>1, <2>2, MaxOfSome
    <3> QED
      BY <1>1, <2>1, <3>1, ElementOfSeq
  <2>3. \A s \in SUBSET DOMAIN q : s # {} => F[h[s \ {Max(s)}]][q[Max(s)]] = more(h[s \ {Max(s)}], q[Max(s)])
    BY <2>2
  <2> HIDE DEF F, more
  <2>4. \A s \in SUBSET DOMAIN q : h[s] = IF s = {} THEN {q[1]} ELSE more(h[s \ {Max(s)}], q[Max(s)])
    BY <1>1, <2>1, <2>3 DEF Recurs
  <2> QED
    BY <1>1, <2>1, <2>4
<1>8. Goes(iter)
  BY <1>7
<1>9. FoldLeft(more, {q[1]}, q) = iter[1..Len(q)]
  BY <1>1 DEF FoldLeft, MapThenFoldSet
<1> HIDE DEF iter, F
<1> DEFINE S == {i \in 0..Len(q) : iter[1..i] \in K /\ q[1] \in iter[1..i] /\ \A k \in 1..i : q[k] \in iter[1..i]}
<1>10. 0 \in S
  <2>1. 1..0 = {} /\ {} \in SUBSET DOMAIN q /\ 0 \in 0..Len(q)
    BY <1>1
  <2> QED
    BY <1>4, <1>8, <2>1
<1>11. ASSUME NEW i \in 0..Len(q), i \in S, i < Len(q) PROVE i + 1 \in S
  <2>0. i + 1 \in 1..Len(q) /\ i + 1 \in 0..Len(q) /\ (i + 1) - 1 = i
    BY <1>1, <1>11
  <2>1. 1..i + 1 \in SUBSET (1..Len(q)) /\ 1..i + 1 # {} /\ Max(1..i + 1) = i + 1 /\ (1..i + 1) \ {Max(1..i + 1)} = 1..i
    <3>1. 1..i + 1 \in SUBSET (1..Len(q)) /\ 1..i + 1 # {} /\ Max(1..i + 1) = i + 1
          /\ (1..i + 1) \ {Max(1..i + 1)} = 1..(i + 1) - 1
      BY <1>1, <2>0, UpTo
    <3> QED
      BY <2>0, <3>1
  <2> HIDE DEF more
  <2>2. iter[1..i + 1] = more(iter[(1..i + 1) \ {Max(1..i + 1)}], q[Max(1..i + 1)])
    BY <1>1, <1>8, <2>1
  <2>3. iter[1..i + 1] = more(iter[1..i], q[i + 1])
    BY <2>1, <2>2
  <2> USE DEF more
  <2>4. iter[1..i] \in K /\ q[1] \in iter[1..i] /\ \A k \in 1..i : q[k] \in iter[1..i]
    BY <1>11
  <2>5. q[i + 1] \in iter[1..i + 1]
    <3>1. CASE i = 0
      BY <2>3, <2>4, <3>1
    <3>2. CASE i # 0
      <4>1. i + 1 \in 2..Len(q)
        BY <1>1, <1>11, <3>2
      <4>2. PICK k \in 1..(i + 1) - 1 : q[i + 1] \in Around(q[k])
        BY <4>1 DEF Linked, q
      <4>3. q[k] \in iter[1..i] /\ q[i + 1] \in all
        BY <1>3, <2>0, <2>4
      <4> HIDE DEF all
      <4> QED
        BY <2>3, <4>2, <4>3
    <3> QED
      BY <3>1, <3>2
  <2>6. iter[1..i + 1] \in K /\ q[1] \in iter[1..i + 1] /\ \A k \in 1..i : q[k] \in iter[1..i + 1]
    BY <2>3, <2>4
  <2>7. \A k \in 1..i + 1 : q[k] \in iter[1..i + 1]
    <3>1. \A x \in 1..i + 1 : x # i + 1 => x \in 1..i
      BY ShorterInterval
    <3> QED
      BY <2>5, <2>6, <3>1
  <2> HIDE DEF K
  <2> QED
    BY <2>0, <2>6, <2>7
<1>12. 0..Len(q) \subseteq S
  <2> HIDE DEF S
  <2> QED
    BY <1>1, <1>10, <1>11, NatsBySteps
<1>13. iter[1..Len(q)] \subseteq all /\ \A k \in 1..Len(q) : q[k] \in iter[1..Len(q)]
  <2>1. Len(q) \in S
    BY <1>1, <1>12
  <2> QED
    BY <2>1
<1>14. iter[1..Len(q)] = all
  BY <1>1, <1>13 DEF ToSet
<1> QED
  BY <1>9, <1>14

-----------------------------------------------------------------------------
(* An island grows into the room that the zones leave. *)

Archipelagos == [Islands -> Seq(Hexes)]
Widths == [Islands -> Nat]

\* The zones are as wide as the distances that c has to keep.
WideEnough(q, f, c) ==
  /\ c \in Conts => \A d \in Islands : IF d \in Conts THEN f[d] >= Di ELSE f[d] >= Id \/ q[d] = <<>>
  /\ c \notin Conts => \A d \in Islands : d \in Conts \/ DistinctIslands => f[d] >= Id

Grown(q, c, s) == [q EXCEPT ![c] = Append(@, s)]

\* An island is on the map and part of the land.
LEMMA LandIs ==
  ASSUME NEW q \in Archipelagos, NEW c \in Islands
  PROVE  ToSet(q[c]) \subseteq Hexes /\ ToSet(q[c]) \subseteq LandOf(q)
<1>1. q[c] \in Seq(Hexes)
  BY DEF Archipelagos
<1> DEFINE e == q[c]
<1> HIDE DEF e
<1>2. e \in Seq(Hexes) => ToSet(e) \subseteq Hexes
  <2>1. ASSUME e \in Seq(Hexes), NEW x \in ToSet(e) PROVE x \in Hexes
    <3>1. PICK i \in DOMAIN e : x = e[i]
      BY <2>1 DEF ToSet
    <3> QED
      BY <2>1, <3>1, LenProperties, ElementOfSeq
  <2> QED
    BY <2>1
<1> QED
  BY <1>1, <1>2 DEF e, LandOf

\* g is q with a sector more for c.
Fits(q, c, s) ==
  /\ s \notin LandOf(q) /\ Shapely(q)
  /\ q[c] = <<>> \/ \E t \in ToSet(q[c]) : s \in Around(t)
Grows1(q, g, c, s) ==
  /\ g \in Archipelagos /\ Shapely(g)
  /\ Len(g[c]) = Len(q[c]) + 1
  /\ ToSet(g[c]) = ToSet(q[c]) \cup {s}
  /\ \A d \in Islands \ {c} : g[d] = q[d]
  /\ LandOf(g) = LandOf(q) \cup {s}

\* Where an island touches nothing it can grow a sector, and stays linked.
LEMMA GrownIs ==
  ASSUME NEW q \in Archipelagos, NEW c \in Islands, NEW s \in Hexes, Fits(q, c, s)
  PROVE  Grows1(q, Grown(q, c, s), c, s)
<1> DEFINE g == Grown(q, c, s)  e == q[c]
<1>1. e \in Seq(Hexes) /\ s \notin ToSet(e) /\ IsInjective(e) /\ Linked(e)
  BY LandIs DEF Archipelagos, Shapely, Fits
<1>2. e = <<>> \/ \E t \in ToSet(e) : s \in Around(t)
  BY DEF Fits
<1> HIDE DEF e
<1>3. /\ Append(e, s) \in Seq(Hexes) /\ Len(Append(e, s)) = Len(e) + 1
      /\ ToSet(Append(e, s)) = ToSet(e) \cup {s}
      /\ IsInjective(Append(e, s)) /\ Linked(Append(e, s))
  BY <1>1, <1>2, AppendLinked
<1>4. g \in Archipelagos /\ g[c] = Append(e, s) /\ \A d \in Islands \ {c} : g[d] = q[d]
  BY <1>3 DEF Archipelagos, Grown, e
<1> HIDE DEF g
<1>5. Shapely(g)
  <2>1. \A d \in Islands : IsInjective(q[d]) /\ Linked(q[d])
    BY DEF Fits, Shapely
  <2> QED
    BY <1>3, <1>4, <2>1 DEF Shapely
<1>6. LandOf(g) = LandOf(q) \cup {s}
  <2>1. \A d \in Islands : ToSet(g[d]) = IF d = c THEN ToSet(q[d]) \cup {s} ELSE ToSet(q[d])
    BY <1>3, <1>4 DEF e
  <2> QED
    BY <2>1 DEF LandOf
<1> QED
  BY <1>3, <1>4, <1>5, <1>6 DEF g, e, Grows1

\* c may grow a sector there.
Free(q, zone, f, c, s) ==
  zone[s] \in {c, None1} /\ Spaced(q) /\ Zoned(q, zone, f) /\ WideEnough(q, f, c)

\* add_sector() keeps distances and zones, which is what zones are for.
LEMMA GrownStaysZoned ==
  ASSUME HexAssumption, FairlandAssumption, order \in Orders,
         NEW q \in Archipelagos, NEW zone \in [Hexes -> Int], NEW f \in Widths, NEW c \in Islands, NEW s \in Hexes,
         Fits(q, c, s), Free(q, zone, f, c, s)
  PROVE  LET g == Grown(q, c, s)  z == AroundSector(zone, c, s, f[c]) IN
         /\ g \in Archipelagos /\ z \in [Hexes -> Int]
         /\ Shapely(g) /\ Spaced(g) /\ Zoned(g, z, f)
         /\ \A x \in Hexes : zone[x] \in {c, None1} => z[x] \in {c, None1}
<1> DEFINE g == Grown(q, c, s)  z == AroundSector(zone, c, s, f[c])  land == LandOf(q)
<1>1. /\ g \in Archipelagos /\ Shapely(g) /\ ToSet(g[c]) = ToSet(q[c]) \cup {s}
      /\ \A d \in Islands \ {c} : g[d] = q[d]
      /\ LandOf(g) = land \cup {s}
  <2> HIDE DEF g
  <2>1. Grows1(q, g, c, s)
    BY GrownIs DEF g
  <2> QED
    BY <2>1 DEF Grows1
<1>0. s \notin land /\ zone[s] \in {c, None1} /\ Spaced(q) /\ Zoned(q, zone, f) /\ WideEnough(q, f, c)
  BY DEF Fits, Free
<1>2. \A d \in Islands : f[d] \in Nat /\ ToSet(q[d]) \subseteq Hexes
  BY LandIs DEF Widths
<1>3. /\ z \in [Hexes -> Int]
      /\ \A d \in Islands \ {c}, T \in SUBSET Hexes, w \in Nat : Covers(zone, d, T, land, w) => Covers(z, d, T, land, w)
      /\ \A T \in SUBSET Hexes : Covers(zone, c, T, land, f[c]) => Covers(z, c, T \cup {s}, land, f[c])
  BY <1>0, <1>2, SectorCovers
<1>a. \A x \in Hexes : zone[x] \in {c, None1} => z[x] \in {c, None1}
  BY DEF AroundSector
<1> HIDE DEF z, g
<1>4. Zoned(g, z, f)
  <2>1. ASSUME NEW d \in Islands PROVE Covers(z, d, ToSet(g[d]), land, f[d])
    <3>1. Covers(zone, d, ToSet(q[d]), land, f[d])
      BY <1>0 DEF Zoned
    <3>2. CASE d = c
      BY <1>1, <1>2, <1>3, <3>1, <3>2
    <3>3. CASE d # c
      BY <1>1, <1>2, <1>3, <3>1, <3>3
    <3> QED
      BY <3>2, <3>3
  <2> QED
    BY <1>1, <2>1 DEF Zoned, Covers
<1>5. ASSUME NEW d \in Islands, d # c, NEW w \in Nat, f[d] >= w \/ q[d] = <<>>
      PROVE  \A t \in ToSet(q[d]) : MapDist[t][s] > w /\ MapDist[s][t] > w
  <2> TAKE t \in ToSet(q[d])
  <2>1. f[d] >= w
    <3>1. q[d] # <<>>
      <4>1. DOMAIN q[d] # {}
        BY DEF ToSet
      <4> QED
        BY <4>1
    <3> QED
      BY <1>5, <3>1
  <2>2. Covers(zone, d, ToSet(q[d]), land, f[d]) /\ ToSet(q[d]) \in SUBSET Hexes /\ f[d] \in Nat
    BY <1>0, <1>2 DEF Zoned
  <2>3. MapDist[t][s] > f[d] /\ MapDist[s][t] > f[d]
    BY <1>0, <1>5, <2>2, FreeIsFar
  <2>4. MapDist[t][s] \in Int /\ MapDist[s][t] \in Int
    BY <1>2, Distances
  <2> QED
    BY <2>1, <2>2, <2>3, <2>4
<1>6. ASSUME NEW d \in Islands, d # c, NEW w \in Nat, f[d] >= w \/ q[d] = <<>>
      PROVE  /\ Far(ToSet(q[c]), ToSet(q[d]), w) => Far(ToSet(g[c]), ToSet(g[d]), w)
             /\ Far(ToSet(q[d]), ToSet(q[c]), w) => Far(ToSet(g[d]), ToSet(g[c]), w)
  <2>1. ToSet(g[c]) = ToSet(q[c]) \cup {s} /\ ToSet(g[d]) = ToSet(q[d])
    BY <1>1, <1>6
  <2>2. \A t \in ToSet(q[d]) : MapDist[t][s] > w /\ MapDist[s][t] > w
    BY <1>5, <1>6
  <2> QED
    BY <2>1, <2>2 DEF Far
<1>7. Di \in Nat /\ Id \in Nat /\ Conts \subseteq Islands
  BY OrderIs
<1>8. ASSUME NEW a \in Islands, NEW b \in Islands, a # b, NEW w \in Nat, Far(ToSet(q[a]), ToSet(q[b]), w),
             a = c => f[b] >= w \/ q[b] = <<>>, b = c => f[a] >= w \/ q[a] = <<>>
      PROVE  Far(ToSet(g[a]), ToSet(g[b]), w)
  <2>1. CASE a = c
    BY <1>6, <1>8, <2>1
  <2>2. CASE b = c
    BY <1>6, <1>8, <2>2
  <2>3. CASE a # c /\ b # c
    BY <1>1, <1>8, <2>3
  <2> QED
    BY <2>1, <2>2, <2>3
<1>9. Spaced(g)
  <2>1. ASSUME NEW a \in Conts, NEW b \in Conts, a # b PROVE Far(ToSet(g[a]), ToSet(g[b]), Di)
    <3>1. a \in Islands /\ b \in Islands /\ Far(ToSet(q[a]), ToSet(q[b]), Di)
      BY <1>0, <1>7, <2>1 DEF Spaced
    <3>2. (a = c => f[b] >= Di) /\ (b = c => f[a] >= Di)
      BY <1>0, <3>1 DEF WideEnough
    <3> QED
      BY <1>7, <1>8, <2>1, <3>1, <3>2
  <2>2. ASSUME NEW a \in Conts, NEW b \in Islands \ Conts PROVE Far(ToSet(g[a]), ToSet(g[b]), Id)
    <3>1. a \in Islands /\ b \in Islands /\ a # b /\ Far(ToSet(q[a]), ToSet(q[b]), Id)
      BY <1>0, <1>7, <2>2 DEF Spaced
    <3>2. (a = c => f[b] >= Id \/ q[b] = <<>>) /\ (b = c => f[a] >= Id)
      BY <1>0, <3>1 DEF WideEnough
    <3> QED
      BY <1>7, <1>8, <2>2, <3>1, <3>2
  <2>3. ASSUME DistinctIslands, NEW a \in Islands \ Conts, NEW b \in Islands \ Conts, a # b
        PROVE  Far(ToSet(g[a]), ToSet(g[b]), Id)
    <3>1. Far(ToSet(q[a]), ToSet(q[b]), Id)
      BY <1>0, <2>3 DEF Spaced
    <3>2. (a = c => f[b] >= Id) /\ (b = c => f[a] >= Id)
      BY <1>0, <2>3 DEF WideEnough
    <3> QED
      BY <1>7, <1>8, <2>3, <3>1, <3>2
  <2> QED
    BY <2>1, <2>2, <2>3 DEF Spaced
<1> QED
  BY <1>1, <1>3, <1>4, <1>9, <1>a DEF g, z

-----------------------------------------------------------------------------
(* Zones drawn anew around the islands there are. *)

Zones == [ok : BOOLEAN, zone : [Hexes -> Int]]

SectorZone(y, c, s) == [ok |-> y.ok /\ XzoneOk(y.zone, c, s), zone |-> AroundSector(y.zone, c, s, Id)]

\* What is not free for an island is near another.
Sound(zone) ==
  \A c \in Islands, x \in Hexes : zone[x] \notin {c, None1} =>
     \E d \in Islands \ {c} : \E t \in ToSet(isl[d]) : MapDist[t][x] <= Id
AllApart == \A c, d \in Islands : c # d => Apart(c, d, Id)
Fine(y) == y.ok /\ Sound(y.zone)

\* Nobody's assertion fails where all is apart.
LEMMA SectorStaysFine ==
  ASSUME HexAssumption, FairlandAssumption, order \in Orders, isl \in Archipelagos, AllApart,
         NEW y \in Zones, NEW c \in Islands, NEW s \in ToSet(isl[c]), Fine(y)
  PROVE  Fine(SectorZone(y, c, s))
<1> DEFINE z == AroundSector(y.zone, c, s, Id)
<1>1. s \in Hexes
  BY LandIs
<1>2. \A x \in Hexes : z[x] = IF x = s THEN c ELSE IF ~(MapDist[s][x] <= Id) \/ y.zone[x] = c THEN y.zone[x]
                              ELSE IF y.zone[x] = None1 THEN c ELSE Many
  BY DEF AroundSector, Near
<1>3. XzoneOk(y.zone, c, s)
  <2>1. SUFFICES ASSUME y.zone[s] \notin {c, None1} PROVE FALSE
    BY DEF XzoneOk
  <2>a. PICK d \in Islands \ {c} : \E t \in ToSet(isl[d]) : MapDist[t][s] <= Id
    BY <1>1, <2>1 DEF Fine, Sound
  <2>2. PICK t \in ToSet(isl[d]) : MapDist[t][s] <= Id
    BY <2>a
  <2>3. MapDist[t][s] > Id
    BY <2>2 DEF AllApart, Apart
  <2>4. MapDist[t][s] \in Int /\ Id \in Int
    <3>1. t \in Hexes
      BY <2>2, LandIs
    <3> QED
      BY <1>1, <3>1, Distances, OrderIs
  <2> QED
    BY <2>2, <2>3, <2>4
<1> HIDE DEF z
<1>4. Sound(z)
  <2>1. ASSUME NEW e \in Islands, NEW x \in Hexes, z[x] \notin {e, None1}
        PROVE  \E d \in Islands \ {e} : \E t \in ToSet(isl[d]) : MapDist[t][x] <= Id
    <3>1. MapDist[s][s] <= Id
      BY <1>1, Distances, OrderIs
    <3>2. CASE c # e /\ MapDist[s][x] <= Id
      BY <3>2
    <3>3. CASE c # e /\ ~(MapDist[s][x] <= Id)
      <4>1. z[x] = y.zone[x]
        BY <1>2, <3>1, <3>3
      <4> QED
        BY <2>1, <4>1 DEF Fine, Sound
    <3>4. CASE c = e
      <4>1. y.zone[x] \notin {c, None1}
        BY <1>2, <2>1, <3>4
      <4> QED
        BY <3>4, <4>1 DEF Fine, Sound
    <3> QED
      BY <3>2, <3>3, <3>4
  <2> QED
    BY <2>1 DEF Sound
<1> QED
  BY <1>3, <1>4 DEF Fine, SectorZone, z

\* What e has that y had, once the first i sectors of c have their zone.
Drawn(c, y, e, i) ==
  /\ e \in Zones
  /\ \A d \in Islands \ {c} : Covers(y.zone, d, ToSet(isl[d]), LandOf(isl), Id) =>
                                Covers(e.zone, d, ToSet(isl[d]), LandOf(isl), Id)
  /\ Covers(e.zone, c, {isl[c][k] : k \in 1..i}, LandOf(isl), Id)
  /\ AllApart /\ Fine(y) => Fine(e)

\* xzone_around_sector() for sector i of island c
LEMMA SectorIsDrawn ==
  ASSUME HexAssumption, FairlandAssumption, order \in Orders, isl \in Archipelagos,
         NEW c \in Islands, NEW y, NEW i \in Nat, i + 1 \in 1..Len(isl[c]), NEW e, Drawn(c, y, e, i)
  PROVE  Drawn(c, y, SectorZone(e, c, isl[c][i + 1]), i + 1)
<1> DEFINE s == isl[c][i + 1]  z == SectorZone(e, c, s)  T == {isl[c][k] : k \in 1..i}
<1>1. isl[c] \in Seq(Hexes) /\ DOMAIN isl[c] = 1..Len(isl[c]) /\ Len(isl[c]) \in Nat
  BY LenProperties DEF Archipelagos
<1>2. s \in ToSet(isl[c]) /\ s \in Hexes /\ s \in LandOf(isl)
  BY <1>1, LandIs DEF ToSet
<1>3. T \in SUBSET Hexes /\ {isl[c][k] : k \in 1..i + 1} = T \cup {s}
  <2>1. \A k \in 1..i : k \in 1..Len(isl[c])
    BY <1>1
  <2>2. \A k \in 1..i + 1 : k # i + 1 => k \in 1..i
    BY ShorterInterval
  <2>3. \A k \in 1..Len(isl[c]) : isl[c][k] \in Hexes
    BY <1>1, ElementOfSeq
  <2>4. i + 1 \in 1..i + 1 /\ \A k \in 1..i : k \in 1..i + 1
    OBVIOUS
  <2> QED
    BY <2>1, <2>2, <2>3, <2>4
<1>4. e.zone \in [Hexes -> Int] /\ e.ok \in BOOLEAN /\ z.zone = AroundSector(e.zone, c, s, Id)
      /\ z.ok = (e.ok /\ XzoneOk(e.zone, c, s)) /\ z = [ok |-> z.ok, zone |-> z.zone]
  BY DEF Drawn, Zones, SectorZone
<1>5. Id \in Nat
  BY OrderIs
<1> HIDE DEF T, s
<1>6. /\ AroundSector(e.zone, c, s, Id) \in [Hexes -> Int]
      /\ \A d \in Islands \ {c}, R \in SUBSET Hexes, w \in Nat :
           Covers(e.zone, d, R, LandOf(isl), w) => Covers(AroundSector(e.zone, c, s, Id), d, R, LandOf(isl), w)
      /\ \A R \in SUBSET Hexes : Covers(e.zone, c, R, LandOf(isl), Id) =>
                                 Covers(AroundSector(e.zone, c, s, Id), c, R \cup {s}, LandOf(isl), Id)
  BY <1>2, <1>4, <1>5, SectorCovers
<1> HIDE DEF z
<1>7. z \in Zones
  BY <1>4, <1>6 DEF Zones
<1>8. ASSUME NEW d \in Islands \ {c}, Covers(y.zone, d, ToSet(isl[d]), LandOf(isl), Id)
      PROVE  Covers(z.zone, d, ToSet(isl[d]), LandOf(isl), Id)
  <2>1. Covers(e.zone, d, ToSet(isl[d]), LandOf(isl), Id) /\ ToSet(isl[d]) \in SUBSET Hexes
    BY <1>8, LandIs DEF Drawn
  <2> QED
    BY <1>4, <1>5, <1>6, <2>1
<1>9. Covers(z.zone, c, T \cup {s}, LandOf(isl), Id)
  BY <1>3, <1>4, <1>6 DEF Drawn, T
<1>10. AllApart /\ Fine(y) => Fine(z)
  BY <1>2, SectorStaysFine DEF Drawn, z
<1> QED
  BY <1>3, <1>7, <1>8, <1>9, <1>10 DEF Drawn, z, s

\* xzone_around_island()
LEMMA IslandIsDrawn ==
  ASSUME HexAssumption, FairlandAssumption, order \in Orders, isl \in Archipelagos, NEW c \in Islands, NEW y \in Zones
  PROVE  Drawn(c, y, AroundIsland(y, c, isl[c], Id), Len(isl[c]))
<1> DEFINE q == isl[c]
           F == [z \in Zones |-> [s \in Hexes |-> SectorZone(z, c, s)]]
           Goes(h) == h = [s \in SUBSET DOMAIN q |->
                             IF s = {} THEN y ELSE SectorZone(h[s \ {Max(s)}], c, q[Max(s)])]
           iter == CHOOSE h : Goes(h)
<1>1. Len(q) \in Nat /\ DOMAIN q = 1..Len(q) /\ q \in Seq(Hexes)
  BY LenProperties DEF Archipelagos
<1>2. \A z \in Zones, s \in Hexes : SectorZone(z, c, s) \in Zones
  <2> TAKE z \in Zones, s \in Hexes
  <2>1. AroundSector(z.zone, c, s, Id) \in [Hexes -> Int]
    BY OrderIs DEF AroundSector, Many, Zones
  <2> QED
    BY <2>1 DEF SectorZone, Zones, XzoneOk
<1>3. F \in [Zones -> [Hexes -> Zones]]
  BY <1>2
<1>4. AroundIsland(y, c, q, Id) = iter[1..Len(q)]
  BY <1>1 DEF AroundIsland, SectorZone, FoldLeft, MapThenFoldSet
<1> HIDE DEF q
<1>5. \E h : Goes(h)
  <2>0. Folds(Zones, Len(q), y, F, q)
    <3> HIDE DEF F
    <3> QED
      BY <1>1, <1>3, FoldExists
  <2>1. PICK h : h \in [SUBSET (1..Len(q)) -> Zones] /\ Recurs(h, Len(q), y, F, q)
    BY <2>0 DEF Folds
  <2>2. ASSUME NEW s \in SUBSET DOMAIN q, s # {}
        PROVE  h[s \ {Max(s)}] \in Zones /\ q[Max(s)] \in Hexes
    <3>1. Max(s) \in s
      BY <1>1, <2>2, MaxOfSome
    <3> QED
      BY <1>1, <2>1, <3>1, ElementOfSeq
  <2>3. \A s \in SUBSET DOMAIN q : s # {} => F[h[s \ {Max(s)}]][q[Max(s)]] = SectorZone(h[s \ {Max(s)}], c, q[Max(s)])
    BY <2>2
  <2> HIDE DEF F
  <2>4. \A s \in SUBSET DOMAIN q : h[s] = IF s = {} THEN y ELSE SectorZone(h[s \ {Max(s)}], c, q[Max(s)])
    BY <1>1, <2>1, <2>3 DEF Recurs
  <2>5. h = [s \in SUBSET DOMAIN q |-> h[s]]
    BY <1>1, <2>1
  <2>6. Goes(h)
    BY <2>4, <2>5, Zenon
  <2> QED
    BY <2>6
<1>6. Goes(iter)
  BY <1>5
<1> HIDE DEF iter, F
<1> DEFINE S == {i \in 0..Len(q) : Drawn(c, y, iter[1..i], i)}
<1>7. 0 \in S
  <2>1. 1..0 = {} /\ {} \in SUBSET DOMAIN q /\ 0 \in 0..Len(q)
    BY <1>1
  <2>2. iter[1..0] = y
    BY <1>6, <2>1
  <2>3. Covers(y.zone, c, {}, LandOf(isl), Id) /\ {isl[c][k] : k \in 1..0} = {}
    BY <2>1 DEF Covers
  <2>4. Drawn(c, y, y, 0)
    BY <2>3 DEF Drawn
  <2> QED
    BY <2>1, <2>2, <2>4
<1>8. ASSUME NEW i \in 0..Len(q), i \in S, i < Len(q) PROVE i + 1 \in S
  <2>0. i + 1 \in 1..Len(q) /\ i + 1 \in 0..Len(q) /\ (i + 1) - 1 = i /\ i \in Nat
    BY <1>1, <1>8
  <2>1. 1..i + 1 \in SUBSET (1..Len(q)) /\ 1..i + 1 # {} /\ Max(1..i + 1) = i + 1 /\ (1..i + 1) \ {Max(1..i + 1)} = 1..i
    <3>1. 1..i + 1 \in SUBSET (1..Len(q)) /\ 1..i + 1 # {} /\ Max(1..i + 1) = i + 1
          /\ (1..i + 1) \ {Max(1..i + 1)} = 1..(i + 1) - 1
      BY <1>1, <2>0, UpTo
    <3> QED
      BY <2>0, <3>1
  <2>2. iter[1..i + 1] = SectorZone(iter[(1..i + 1) \ {Max(1..i + 1)}], c, q[Max(1..i + 1)])
    BY <1>1, <1>6, <2>1
  <2>3. iter[1..i + 1] = SectorZone(iter[1..i], c, isl[c][i + 1])
    BY <2>1, <2>2 DEF q
  <2>4. Drawn(c, y, iter[1..i], i)
    BY <1>8
  <2>5. Drawn(c, y, iter[1..i + 1], i + 1)
    BY <2>0, <2>3, <2>4, SectorIsDrawn DEF q
  <2> QED
    BY <2>0, <2>5
<1>9. 0..Len(q) \subseteq S
  <2> HIDE DEF S
  <2> QED
    BY <1>1, <1>7, <1>8, NatsBySteps
<1>10. Drawn(c, y, iter[1..Len(q)], Len(q))
  BY <1>1, <1>9
<1> QED
  BY <1>4, <1>10 DEF q

\* The zones of the first n islands.
AllDrawn(e, n) ==
  /\ e \in Zones
  /\ \A d \in Islands : d < n => Covers(e.zone, d, ToSet(isl[d]), LandOf(isl), Id)
  /\ AllApart => Fine(e)

\* xzone_init() draws the zones of the first n islands.
LEMMA ZonesAreDrawn ==
  ASSUME HexAssumption, FairlandAssumption, order \in Orders, isl \in Archipelagos, NEW n \in Nat, n <= Nc + Ni
  PROVE  AllDrawn(XzoneInit(n), n)
<1> DEFINE q == [i \in 1..n |-> i - 1]
           y == [ok |-> TRUE, zone |-> NoZones]
           NextIsland(z, c) == AroundIsland(z, c, isl[c], Id)
           F == [z \in Zones |-> [c \in Islands |-> NextIsland(z, c)]]
           Goes(h) == h = [s \in SUBSET DOMAIN q |->
                             IF s = {} THEN y ELSE NextIsland(h[s \ {Max(s)}], q[Max(s)])]
           iter == CHOOSE h : Goes(h)
<1>0. \A i \in 1..n : i - 1 \in Islands
  BY OrderIs DEF Islands
<1>1. q \in Seq(Islands) /\ Len(q) = n /\ DOMAIN q = 1..n
  BY <1>0
<1>2. \A z \in Zones, c \in Islands : NextIsland(z, c) \in Zones
  BY IslandIsDrawn DEF Drawn
<1>3. y \in Zones
  BY DEF Zones, NoZones, None1
<1>4. XzoneInit(n) = iter[1..n]
  BY <1>1 DEF XzoneInit, FoldLeft, MapThenFoldSet
<1>5. \A i \in 1..n : q[i] = i - 1
  OBVIOUS
<1> HIDE DEF q, NextIsland, y
<1>6. F \in [Zones -> [Islands -> Zones]]
  BY <1>2
<1>7. \E h : Goes(h)
  <2>0. Folds(Zones, n, y, F, q)
    <3> HIDE DEF F
    <3> QED
      BY <1>1, <1>3, <1>6, FoldExists
  <2>1. PICK h : h \in [SUBSET (1..n) -> Zones] /\ Recurs(h, n, y, F, q)
    BY <2>0 DEF Folds
  <2>2. ASSUME NEW s \in SUBSET DOMAIN q, s # {}
        PROVE  h[s \ {Max(s)}] \in Zones /\ q[Max(s)] \in Islands
    <3>1. Max(s) \in s
      BY <1>1, <2>2, MaxOfSome
    <3> QED
      BY <1>1, <2>1, <3>1, ElementOfSeq
  <2>3. \A s \in SUBSET DOMAIN q : s # {} => F[h[s \ {Max(s)}]][q[Max(s)]] = NextIsland(h[s \ {Max(s)}], q[Max(s)])
    BY <2>2
  <2> HIDE DEF F
  <2>4. \A s \in SUBSET DOMAIN q : h[s] = IF s = {} THEN y ELSE NextIsland(h[s \ {Max(s)}], q[Max(s)])
    BY <1>1, <2>1, <2>3 DEF Recurs
  <2>5. h = [s \in SUBSET DOMAIN q |-> h[s]]
    BY <1>1, <2>1
  <2>6. Goes(h)
    BY <2>4, <2>5, Zenon
  <2> QED
    BY <2>6
<1>8. Goes(iter)
  BY <1>7
<1> HIDE DEF iter, F
<1> DEFINE S == {i \in 0..n : AllDrawn(iter[1..i], i)}
<1>9. 0 \in S
  <2>1. 1..0 = {} /\ {} \in SUBSET DOMAIN q /\ 0 \in 0..n
    BY <1>1
  <2>2. iter[1..0] = y
    BY <1>8, <2>1
  <2>3. Fine(y)
    BY DEF Fine, Sound, y, NoZones
  <2>4. AllDrawn(y, 0)
    BY <1>3, <2>3, OrderIs DEF AllDrawn
  <2> QED
    BY <2>1, <2>2, <2>4
<1>10. ASSUME NEW i \in 0..n, i \in S, i < n PROVE i + 1 \in S
  <2>0. i + 1 \in 1..n /\ i + 1 \in 0..n /\ (i + 1) - 1 = i /\ i \in Nat /\ i \in Islands
    <3>1. i + 1 \in 1..n /\ i + 1 \in 0..n /\ (i + 1) - 1 = i /\ i \in Nat
      BY <1>10
    <3> QED
      BY <1>0, <3>1
  <2>1. 1..i + 1 \in SUBSET (1..n) /\ 1..i + 1 # {} /\ Max(1..i + 1) = i + 1 /\ (1..i + 1) \ {Max(1..i + 1)} = 1..i
    <3>1. 1..i + 1 \in SUBSET (1..n) /\ 1..i + 1 # {} /\ Max(1..i + 1) = i + 1
          /\ (1..i + 1) \ {Max(1..i + 1)} = 1..(i + 1) - 1
      BY <2>0, UpTo
    <3> QED
      BY <2>0, <3>1
  <2>2. iter[1..i + 1] = NextIsland(iter[(1..i + 1) \ {Max(1..i + 1)}], q[Max(1..i + 1)])
    BY <1>1, <1>8, <2>1
  <2> DEFINE e == iter[1..i]  f == iter[1..i + 1]
  <2>3. f = AroundIsland(e, i, isl[i], Id)
    BY <1>5, <2>0, <2>1, <2>2 DEF NextIsland
  <2>4. AllDrawn(e, i)
    BY <1>10
  <2> HIDE DEF e, f
  <2>5. Drawn(i, e, f, Len(isl[i]))
    BY <2>0, <2>3, <2>4, IslandIsDrawn DEF AllDrawn
  <2>6. {isl[i][k] : k \in 1..Len(isl[i])} = ToSet(isl[i])
    <3>1. isl[i] \in Seq(Hexes)
      BY <2>0 DEF Archipelagos
    <3>2. DOMAIN isl[i] = 1..Len(isl[i])
      BY <3>1, LenProperties
    <3> QED
      BY <3>2 DEF ToSet
  <2>7. ASSUME NEW d \in Islands, d < i + 1 PROVE Covers(f.zone, d, ToSet(isl[d]), LandOf(isl), Id)
    <3>1. CASE d = i
      BY <2>5, <2>6, <3>1 DEF Drawn
    <3>2. CASE d # i
      <4>1. d < i
        BY <2>0, <2>7, <3>2, OrderIs
      <4> QED
        BY <2>4, <2>5, <3>2, <4>1 DEF Drawn, AllDrawn
    <3> QED
      BY <3>1, <3>2
  <2>8. AllDrawn(f, i + 1)
    BY <2>4, <2>5, <2>7 DEF Drawn, AllDrawn
  <2> QED
    BY <2>0, <2>8 DEF f
<1>11. 0..n \subseteq S
  <2> HIDE DEF S
  <2> QED
    BY <1>9, <1>10, NatsBySteps
<1>12. AllDrawn(iter[1..n], n)
  BY <1>11
<1> QED
  BY <1>4, <1>12

-----------------------------------------------------------------------------
(* The capitals. *)

Starts == [isl : Archipelagos, zone : [Hexes -> Int], done : BOOLEAN]
AllDi == [d \in Islands |-> Di]

\* The first i continents have their capitals if there was room for all of them.
Started(w, i) ==
  /\ w \in Starts
  /\ Shapely(w.isl) /\ Spaced(w.isl) /\ Zoned(w.isl, w.zone, AllDi)
  /\ \A c \in Islands : c >= i \/ c \notin Conts => w.isl[c] = <<>>
  /\ w.done => \A c \in Conts : c < i => Len(w.isl[c]) = 2

\* A continent's first two sectors, if both can grow
LEMMA CapitalIsGrown ==
  ASSUME HexAssumption, FairlandAssumption, order \in Orders, cap \in [Conts -> Hexes],
         NEW w, NEW c \in Conts, Started(w, c)
  PROVE  Started(GrowCapital(w, c), c + 1)
<1> DEFINE a == cap[c]  b == Right(a)  q == w.isl  f == AllDi
           land == UNION {ToSet(q[i]) : i \in Conts}
<1>1. /\ c \in Islands /\ c \in Nat /\ Di \in Nat /\ Id \in Nat /\ Conts \subseteq Islands /\ Islands \subseteq Nat
      /\ a \in Hexes /\ b \in Hexes /\ b # a /\ b \in Around(a)
  BY OrderIs, NeighborsAreHexes
<1>2. w \in Starts /\ q \in Archipelagos /\ w.zone \in [Hexes -> Int] /\ w.done \in BOOLEAN
      /\ w = [isl |-> w.isl, zone |-> w.zone, done |-> w.done]
  BY DEF Started, Starts
<1>3. \A d \in Islands : d >= c \/ d \notin Conts => q[d] = <<>>
  BY DEF Started
<1>4. CASE \E s \in {a, b} : ~CanGrowAt(w.zone, land, c, s)
  <2>1. GrowCapital(w, c) = [isl |-> w.isl, zone |-> w.zone, done |-> FALSE]
    BY <1>2, <1>4 DEF GrowCapital, Starts
  <2>2. \A d \in Islands : d >= c + 1 => d >= c
    BY <1>1
  <2> QED
    BY <1>1, <1>2, <2>1, <2>2 DEF Started, Starts
<1>5. CASE ~\E s \in {a, b} : ~CanGrowAt(w.zone, land, c, s)
  <2> DEFINE g == Grown(q, c, a)       z == AroundSector(w.zone, c, a, f[c])
             h == Grown(g, c, b)       y == AroundSector(z, c, b, f[c])
  <2>1. land = LandOf(q)
    <3>1. \A d \in Islands \ Conts : ToSet(q[d]) = {}
      BY <1>3 DEF ToSet
    <3>2. \A s : (\E i \in Islands : s \in ToSet(q[i])) <=> (\E i \in Conts : s \in ToSet(q[i]))
      BY <1>1, <3>1
    <3> QED
      BY <3>2, Zenon DEF LandOf
  <2>2. a \notin LandOf(q) /\ w.zone[a] \in {c, None1} /\ b \notin LandOf(q) /\ w.zone[b] \in {c, None1}
    BY <1>5, <2>1 DEF CanGrowAt, XzoneOk
  <2>3. q[c] = <<>>
    BY <1>1, <1>3
  <2>4. f \in Widths /\ f[c] = Di /\ \A d \in Islands : f[d] = Di
    BY <1>1 DEF AllDi, Widths
  <2>5. WideEnough(q, f, c)
    BY <1>1, <1>3, <2>4 DEF WideEnough
  <2>6. Fits(q, c, a) /\ Free(q, w.zone, f, c, a)
    BY <2>2, <2>3, <2>5 DEF Fits, Free, Started
  <2> HIDE DEF a, b, q, f, land
  <2>7. /\ g \in Archipelagos /\ z \in [Hexes -> Int]
        /\ Shapely(g) /\ Spaced(g) /\ Zoned(g, z, f)
        /\ \A x \in Hexes : w.zone[x] \in {c, None1} => z[x] \in {c, None1}
    BY <1>1, <1>2, <2>4, <2>6, GrownStaysZoned
  <2>8. Grows1(q, g, c, a)
    BY <1>1, <1>2, <2>6, GrownIs
  <2>9. g[c] = Append(<<>>, a)
    BY <1>1, <1>2, <2>3 DEF Grown, Archipelagos
  <2> HIDE DEF g, z
  <2>10. WideEnough(g, f, c)
    <3>1. \A d \in Islands \ Conts : g[d] = <<>> /\ ToSet(g[d]) = {}
      <4>1. \A d \in Islands \ Conts : q[d] = <<>> /\ d # c
        BY <1>1, <1>3 DEF q
      <4>2. \A d \in Islands \ Conts : g[d] = <<>>
        BY <1>1, <2>8, <4>1 DEF Grows1
      <4> QED
        BY <4>2 DEF ToSet
    <3> QED
      <4>1. c \in Conts /\ \A d \in Islands : f[d] = Di /\ f[d] \in Nat
        BY <1>1, <2>4 DEF Widths
      <4> QED
        BY <3>1, <4>1 DEF WideEnough
  <2>11. Fits(g, c, b)
    <3>1. LandOf(g) = LandOf(q) \cup {a} /\ ToSet(g[c]) = ToSet(q[c]) \cup {a}
      BY <2>8 DEF Grows1
    <3> QED
      BY <1>1, <2>2, <2>7, <3>1 DEF Fits
  <2>12. Free(g, z, f, c, b)
    BY <1>1, <2>2, <2>7, <2>10 DEF Free
  <2>13. h \in Archipelagos /\ y \in [Hexes -> Int] /\ Shapely(h) /\ Spaced(h) /\ Zoned(h, y, f)
    BY <1>1, <2>4, <2>7, <2>11, <2>12, GrownStaysZoned
  <2>14. Grows1(g, h, c, b)
    BY <1>1, <2>7, <2>11, GrownIs
  <2>15. h = [q EXCEPT ![c] = <<a, b>>]
    <3>1. g = [q EXCEPT ![c] = <<a>>]
      BY <2>3 DEF g, Grown
    <3>2. Append(<<a>>, b) = <<a, b>>
      BY <1>1, PairIsAppend DEF a, b
    <3>3. g[c] = <<a>>
      BY <1>1, <1>2, <3>1 DEF Archipelagos
    <3>4. h = [g EXCEPT ![c] = <<a, b>>]
      BY <3>2, <3>3 DEF Grown
    <3> QED
      BY <1>1, <1>2, <3>1, <3>4 DEF Archipelagos
  <2>16. GrowCapital(w, c) = [isl |-> h, zone |-> y, done |-> w.done]
    <3>1. GrowCapital(w, c) = [w EXCEPT !.isl = [w.isl EXCEPT ![c] = <<a, b>>], !.zone = y]
      BY <1>1, <1>5, <2>4 DEF GrowCapital, a, b, q, land, z
    <3> HIDE DEF h, y
    <3> QED
      BY <1>2, <2>15, <3>1 DEF q, Starts
  <2> HIDE DEF h, y
  <2>17. \A d \in Islands : d >= c + 1 \/ d \notin Conts => h[d] = <<>>
    BY <1>1, <1>3, <2>8, <2>14 DEF Grows1
  <2>18. w.done => \A d \in Conts : d < c + 1 => Len(h[d]) = 2
    <3>1. Len(h[c]) = 2
      <4>1. h[c] = <<a, b>>
        BY <1>1, <1>2, <2>15 DEF Archipelagos
      <4> QED
        BY <4>1
    <3>2. ASSUME w.done, NEW d \in Conts, d < c + 1, d # c PROVE Len(h[d]) = 2
      <4>1. d < c /\ d \in Islands
        BY <1>1, <3>2
      <4>2. h[d] = q[d] /\ Len(w.isl[d]) = 2
        BY <2>8, <2>14, <3>2, <4>1 DEF Grows1, Started
      <4> QED
        BY <4>2 DEF q
    <3> QED
      BY <3>1, <3>2
  <2> QED
    BY <1>2, <2>13, <2>16, <2>17, <2>18 DEF Started, Starts, f
<1> QED
  BY <1>4, <1>5

\* Whatever was grown, the world keeps its type.
LEMMA CapitalKeepsType ==
  ASSUME HexAssumption, FairlandAssumption, order \in Orders, cap \in [Conts -> Hexes],
         NEW w \in Starts, NEW c \in Conts
  PROVE  GrowCapital(w, c) \in Starts
<1> DEFINE a == cap[c]
           b == Right(a)
           e == <<a, b>>
           z == AroundSector(AroundSector(w.zone, c, a, Di), c, b, Di)
<1>1. c \in Islands /\ c \in Int /\ a \in Hexes /\ b \in Hexes /\ w.isl \in Archipelagos
      /\ w.zone \in [Hexes -> Int] /\ w.done \in BOOLEAN
  BY OrderIs, NeighborsAreHexes DEF Starts
<1>2. e \in Seq(Hexes)
  BY <1>1
<1>3. z \in [Hexes -> Int]
  <2>1. \A y \in [Hexes -> Int], s \in Hexes : AroundSector(y, c, s, Di) \in [Hexes -> Int]
    BY <1>1 DEF AroundSector, Many
  <2> QED
    BY <1>1, <2>1
<1> DEFINE g == [w.isl EXCEPT ![c] = e]
<1>4. g \in Archipelagos
  BY <1>1, <1>2 DEF Archipelagos
<1>5. CASE \E s \in {a, b} : ~CanGrowAt(w.zone, UNION {ToSet(w.isl[i]) : i \in Conts}, c, s)
  <2>1. GrowCapital(w, c) = [isl |-> w.isl, zone |-> w.zone, done |-> FALSE]
    BY <1>5 DEF GrowCapital, Starts
  <2> QED
    BY <1>1, <2>1 DEF Starts
<1>6. CASE ~\E s \in {a, b} : ~CanGrowAt(w.zone, UNION {ToSet(w.isl[i]) : i \in Conts}, c, s)
  <2>1. GrowCapital(w, c) = [w EXCEPT !.isl = g, !.zone = z]
    BY <1>6 DEF GrowCapital
  <2> HIDE DEF g, z
  <2>2. GrowCapital(w, c) = [isl |-> g, zone |-> z, done |-> w.done]
    BY <2>1 DEF Starts
  <2> QED
    BY <1>1, <1>3, <1>4, <2>2 DEF Starts
<1> QED
  BY <1>5, <1>6

\* grow_continents() begins with a capital for every continent, if there is room.
LEMMA CapitalsAreGrown ==
  ASSUME HexAssumption, FairlandAssumption, order \in Orders, cap \in [Conts -> Hexes],
         isl \in Archipelagos, \A c \in Islands : isl[c] = <<>>
  PROVE  Started(FoldLeft(GrowCapital, [isl |-> isl, zone |-> NoZones, done |-> TRUE], [i \in 1..Nc |-> i - 1]), Nc)
<1> DEFINE n == Nc
           q == [i \in 1..n |-> i - 1]
           y == [isl |-> isl, zone |-> NoZones, done |-> TRUE]
           F == [w \in Starts |-> [c \in Conts |-> GrowCapital(w, c)]]
           Goes(h) == h = [s \in SUBSET DOMAIN q |->
                             IF s = {} THEN y ELSE GrowCapital(h[s \ {Max(s)}], q[Max(s)])]
           iter == CHOOSE h : Goes(h)
           end == FoldLeft(GrowCapital, y, q)
<1>0. n \in Nat /\ \A i \in 1..n : i - 1 \in Conts
  <2>1. Nc \in Nat
    BY OrderIs
  <2> HIDE DEF n
  <2>2. n \in Nat /\ Conts = 0..n - 1
    BY <2>1 DEF n, Conts
  <2> QED
    BY <2>2
<1> HIDE DEF n
<1>1. q \in Seq(Conts) /\ Len(q) = n /\ DOMAIN q = 1..n
  BY <1>0
<1>2. \A w \in Starts, c \in Conts : GrowCapital(w, c) \in Starts
  BY CapitalKeepsType
<1>3. y \in Starts
  BY DEF Starts, NoZones, None1
<1>4. end = iter[1..n]
  BY <1>1 DEF FoldLeft, MapThenFoldSet
<1>5. \A i \in 1..n : q[i] = i - 1
  OBVIOUS
<1>6. y.isl = isl /\ y.zone = NoZones /\ y.done = TRUE
  OBVIOUS
<1> HIDE DEF q, y
<1>7. F \in [Starts -> [Conts -> Starts]]
  BY <1>2
<1>8. \E h : Goes(h)
  <2>0. Folds(Starts, n, y, F, q)
    <3> HIDE DEF F
    <3> QED
      BY <1>0, <1>1, <1>3, <1>7, FoldExists
  <2>1. PICK h : h \in [SUBSET (1..n) -> Starts] /\ Recurs(h, n, y, F, q)
    BY <2>0 DEF Folds
  <2>2. ASSUME NEW s \in SUBSET DOMAIN q, s # {}
        PROVE  h[s \ {Max(s)}] \in Starts /\ q[Max(s)] \in Conts
    <3>1. Max(s) \in s
      BY <1>0, <1>1, <2>2, MaxOfSome
    <3> QED
      BY <1>1, <2>1, <3>1, ElementOfSeq
  <2>3. \A s \in SUBSET DOMAIN q : s # {} => F[h[s \ {Max(s)}]][q[Max(s)]] = GrowCapital(h[s \ {Max(s)}], q[Max(s)])
    BY <2>2
  <2> HIDE DEF F
  <2>4. \A s \in SUBSET DOMAIN q : h[s] = IF s = {} THEN y ELSE GrowCapital(h[s \ {Max(s)}], q[Max(s)])
    BY <1>1, <2>1, <2>3 DEF Recurs
  <2>5. h = [s \in SUBSET DOMAIN q |-> h[s]]
    BY <1>1, <2>1
  <2>6. Goes(h)
    BY <2>4, <2>5, Zenon
  <2> QED
    BY <2>6
<1>9. Goes(iter)
  BY <1>8
<1> HIDE DEF iter, F
<1> DEFINE S == {i \in 0..n : Started(iter[1..i], i)}
<1>10. 0 \in S
  <2>1. 1..0 = {} /\ {} \in SUBSET DOMAIN q /\ 0 \in 0..n
    BY <1>0, <1>1
  <2>2. iter[1..0] = y
    BY <1>9, <2>1
  <2>3. \A c \in Islands : ToSet(isl[c]) = {} /\ IsInjective(isl[c]) /\ Linked(isl[c])
    BY DEF ToSet, IsInjective, Linked
  <2>4. \A c \in Conts : ~(c < 0)
    BY DEF Conts
  <2>5. Shapely(isl) /\ Spaced(isl) /\ Zoned(isl, NoZones, AllDi)
    BY <2>3, OrderIs DEF Shapely, Spaced, Far, Zoned, Covers
  <2>6. Started(y, 0)
    BY <1>3, <1>6, <2>4, <2>5 DEF Started
  <2> QED
    BY <2>1, <2>2, <2>6
<1>11. ASSUME NEW i \in 0..n, i \in S, i < n PROVE i + 1 \in S
  <2>0. i + 1 \in 1..n /\ i + 1 \in 0..n /\ (i + 1) - 1 = i /\ i \in Nat
    BY <1>0, <1>11
  <2>1. 1..i + 1 \in SUBSET (1..n) /\ 1..i + 1 # {} /\ Max(1..i + 1) = i + 1 /\ (1..i + 1) \ {Max(1..i + 1)} = 1..i
    <3>1. 1..i + 1 \in SUBSET (1..n) /\ 1..i + 1 # {} /\ Max(1..i + 1) = i + 1
          /\ (1..i + 1) \ {Max(1..i + 1)} = 1..(i + 1) - 1
      BY <1>0, <2>0, UpTo
    <3> QED
      BY <2>0, <3>1
  <2>2. iter[1..i + 1] = GrowCapital(iter[(1..i + 1) \ {Max(1..i + 1)}], q[Max(1..i + 1)])
    BY <1>1, <1>9, <2>1
  <2> DEFINE e == iter[1..i]
             f == iter[1..i + 1]
  <2>3. f = GrowCapital(e, i) /\ i \in Conts
    BY <1>0, <1>5, <2>0, <2>1, <2>2
  <2>4. Started(e, i)
    BY <1>11
  <2> HIDE DEF e, f
  <2>5. Started(f, i + 1)
    BY <2>3, <2>4, CapitalIsGrown
  <2> QED
    BY <2>0, <2>5 DEF f
<1>12. 0..n \subseteq S
  <2> HIDE DEF S
  <2> QED
    BY <1>0, <1>10, <1>11, NatsBySteps
<1>13. Started(iter[1..n], n)
  BY <1>0, <1>12
<1> QED
  BY <1>4, <1>13 DEF n, y, q

\* What is left of an even number in rows of even width is even.
LEMMA EvenRows ==
  ASSUME NEW w \in Nat \ {0}, w % 2 = 0, NEW i \in Nat
  PROVE  /\ (2 * i) % w \in 0..w - 2 /\ ((2 * i) % w) % 2 = 0 /\ (2 * i) \div w \in Nat
<1> DEFINE r == (2 * i) % w
           q == (2 * i) \div w
<1>1. 2 * i \in Nat
  OBVIOUS
<1>2. r \in 0..w - 1
  BY <1>1, Remainder
<1>3. 2 * i = w * q + r /\ q \in Nat
  <2>1. \A b \in Nat : b = w * (b \div w) + (b % w) /\ b \div w \in Nat
    BY SMT
  <2> QED
    BY <1>1, <2>1
<1> HIDE DEF r, q
<1>4. PICK k \in Nat : w = 2 * k
  <2>1. w = 2 * (w \div 2) /\ w \div 2 \in Nat
    BY SMT
  <2> QED
    BY <2>1
<1>5. w * q = 2 * (k * q) /\ k * q \in Nat
  BY <1>3, <1>4, SMT
<1> DEFINE m == k * q
<1>6. 2 * i = 2 * m + r /\ m \in Nat
  BY <1>3, <1>5
<1> HIDE DEF m
<1>7. r = 2 * (i - m)
  BY <1>2, <1>6
<1> QED
  BY <1>2, <1>3, <1>4, <1>6, <1>7 DEF r, q

\* drift() begins with capitals on the map.
LEMMA FirstCapsAreHexes ==
  ASSUME HexAssumption, FairlandAssumption, order \in Orders
  PROVE  FirstCaps \in [Conts -> Hexes]
<1>1. ASSUME NEW i \in Conts
      PROVE  <<((2 * i) % WorldX) + (((2 * i) \div WorldX) % 2), (2 * i) \div WorldX>> \in Hexes
  <2> DEFINE r == (2 * i) % WorldX
             y == (2 * i) \div WorldX
  <2>1. i \in Nat /\ WorldX \in Nat \ {0} /\ WorldY \in Nat \ {0} /\ WorldX % 2 = 0
    BY <1>1, OrderIs DEF HexAssumption
  <2>2. r \in 0..WorldX - 2 /\ r % 2 = 0 /\ y \in Nat
    BY <2>1, EvenRows
  <2>3. y < WorldY
    <3>1. i \in 0..order.nc - 1
      BY DEF Conts, Nc
    <3> QED
      BY <3>1 DEF FairlandAssumption
  <2> HIDE DEF r, y
  <2>4. y % 2 \in 0..1 /\ ((r + (y % 2)) + y) % 2 = 0
    BY <2>1, <2>2
  <2>5. r + (y % 2) \in 0..WorldX - 1 /\ y \in 0..WorldY - 1
    BY <2>1, <2>2, <2>3, <2>4
  <2> DEFINE x == r + (y % 2)
  <2> HIDE DEF x
  <2>6. <<x, y>> \in Hexes
    BY <2>4, <2>5 DEF Hexes, x
  <2> QED
    BY <2>6 DEF x, r, y
<1> QED
  BY <1>1 DEF FirstCaps

-----------------------------------------------------------------------------
(***************************************************************************)
(* The inductive invariant.  Islands are whole, their lengths follow from  *)
(* the phase, p, and the place in its loops: g and i are the variables     *)
(* group and j, n is secs, d is done.  While anything grows, the exclusive *)
(* zones are as wide as WideOf says.                                       *)
(***************************************************************************)
FairPhases == {"drift", "capitals", "continents", "spheres", "zones", "place", "grow", "done", "failed"}

FairTypes(p, cp, q, zone, g, i, n, d, ab) ==
  /\ p \in FairPhases /\ cp \in [Conts -> Hexes] /\ q \in Archipelagos /\ zone \in [Hexes -> Int]
  /\ g \in 0..PerCont /\ i \in Conts /\ n \in Nat /\ d \in BOOLEAN /\ ab \in BOOLEAN
  /\ p \in {"place", "grow"} => g < PerCont

First1(g) == Nc + g * Nc
Nothing(q, C) == \A c \in C : q[c] = <<>>
Even(q, g) == \A a, b \in Conts : Len(q[Nc + g * Nc + a]) = Len(q[Nc + g * Nc + b])
OneMore(c, i) == IF c < i THEN 1 ELSE 0

\* An island's length when those before i have had their turn for sector n + 1
LenIs(d, i, n, a, len) ==
  /\ d => len = n + OneMore(a, i)
  /\ ~d /\ i # 0 => len \in {n, n + OneMore(a, i)}
  /\ ~d /\ i = 0 => len \in {n - 1, n}

Growing(q, g, i, n, d) ==
  /\ n > 0
  /\ \A c \in Islands : c >= First1(g) + Nc => q[c] = <<>>
  /\ \A a \in Conts : LenIs(d, i, n, a, Len(q[First1(g) + a]))

Sizely(p, q, g, i, n, d) ==
  /\ p \in {"drift", "capitals"} => Nothing(q, Islands)
  /\ p = "continents" =>
       /\ Nothing(q, Islands \ Conts) /\ n > 0
       /\ d => \A c \in Conts : Len(q[c]) = n + OneMore(c, i)
  /\ p \in {"spheres", "zones", "place", "grow", "done"} =>
       (\A c \in Conts : Len(q[c]) = Sc) /\ (\A h \in 0..g - 1 : Even(q, h))
  /\ p = "spheres" => g = 0
  /\ p \in {"spheres", "zones"} => \A c \in Islands : c >= First1(g) => q[c] = <<>>
  /\ p = "done" => g = PerCont
  /\ p = "place" => \A c \in Islands : c >= First1(g) => Len(q[c]) = OneMore(c, First1(g) + i)
  /\ p = "grow" => Growing(q, g, i, n, d)

WideOf(p, g) == [d \in Islands |-> IF p = "continents" THEN Di ELSE IF d < First1(g) THEN Id ELSE Width(d)]

FairSane(p, cp, q, zone, g, i, n, d, ab) ==
  /\ FairTypes(p, cp, q, zone, g, i, n, d, ab) /\ Shapely(q) /\ Spaced(q) /\ Sizely(p, q, g, i, n, d)
  /\ p \in {"continents", "place", "grow"} => Zoned(q, zone, WideOf(p, g))

FairInv == order \in Orders /\ FairSane(phase, cap, isl, xzone, group, j, secs, done, aborted)

\* No step changes the order, so what is true of the next world is true next.
LEMMA SameOrder ==
  ASSUME order' = order, order \in Orders,
         FairSane(phase', cap', isl', xzone', group', j', secs', done', aborted')
  PROVE  FairInv'
<1>1. Nc' = Nc /\ Ni' = Ni /\ Sc' = Sc /\ Di' = Di /\ Id' = Id /\ DistinctIslands' = DistinctIslands
  BY DEF Nc, Ni, Sc, Di, Id, DistinctIslands
<1>2. Conts' = Conts /\ Islands' = Islands /\ PerCont' = PerCont
  BY <1>1 DEF Conts, Islands, PerCont
<1>3. FairTypes(phase, cap, isl, xzone, group, j, secs, done, aborted)'
  BY <1>2 DEF FairSane, FairTypes, FairPhases, Archipelagos
<1>4. Shapely(isl)' /\ Spaced(isl)'
  BY <1>1, <1>2 DEF FairSane, Shapely, Spaced
<1>5. Sizely(phase, isl, group, j, secs, done)'
  BY <1>1, <1>2 DEF FairSane, Sizely, Nothing, First1, Even, Growing
<1>6. (phase \in {"continents", "place", "grow"} => Zoned(isl, xzone, WideOf(phase, group)))'
  BY <1>1, <1>2 DEF FairSane, Zoned, WideOf, First1, Width, LandOf
<1> QED
  BY <1>3, <1>4, <1>5, <1>6 DEF FairInv, FairSane

\* n things are n \div m rows of m.
LEMMA Rows ==
  ASSUME NEW m \in Nat \ {0}, NEW n \in Nat, n % m = 0
  PROVE  /\ n \div m \in Nat /\ (n \div m) * m = n
         /\ \A g \in 0..n \div m : /\ g * m \in Nat /\ g * m <= n /\ (g + 1) * m = g * m + m
                                   /\ g < n \div m => g * m + m <= n
                                   /\ \A h \in 0..g - 1 : h * m \in Nat /\ h * m + m <= g * m
<1> DEFINE k == n \div m
<1>1. k \in Nat /\ k * m = n
  <2>1. n = m * (n \div m) + (n % m) /\ n \div m \in Nat
    BY SMT
  <2> QED
    BY <2>1
<1> HIDE DEF k
<1>2. \A g \in Nat : g * m \in Nat /\ (g + 1) * m = g * m + m
  BY SMT
<1>3. ASSUME NEW g \in Nat, NEW h \in Nat, h < g PROVE h * m + m <= g * m
  <2>1. (g - h) * m >= m
    BY <1>3, SMT
  <2>2. (g - h) * m = g * m - h * m
    BY <1>3, SMT
  <2> QED
    BY <1>2, <1>3, <2>1, <2>2
<1>4. \A g \in 0..k : g < k => g * m + m <= n
  BY <1>1, <1>3
<1>5. \A g \in 0..k : g * m <= n
  BY <1>1, <1>2, <1>4
<1>6. \A g \in 0..k : \A h \in 0..g - 1 : h * m \in Nat /\ h * m + m <= g * m
  BY <1>1, <1>2, <1>3
<1> QED
  BY <1>1, <1>2, <1>4, <1>5, <1>6 DEF k

\* The islands of the groups follow the continents, one group after the other.
LEMMA Blocks ==
  ASSUME FairlandAssumption, order \in Orders, NEW g \in 0..PerCont
  PROVE  /\ PerCont \in Nat \ {0} /\ g \in Nat
         /\ First1(g) \in Nc..Nc + Ni /\ First1(0) = Nc /\ First1(g + 1) = First1(g) + Nc
         /\ g = PerCont => First1(g) = Nc + Ni
         /\ g < PerCont => First1(g) + Nc <= Nc + Ni
         /\ \A a \in Conts : g < PerCont => First1(g) + a \in Islands \ Conts
         /\ \A h \in 0..g - 1, a \in Conts :
              Nc + h * Nc + a \in Islands \ Conts /\ Nc + h * Nc + a < First1(g)
<1>1. Nc \in Nat \ {0} /\ Ni \in Nat \ {0} /\ Ni % Nc = 0
  BY OrderIs DEF FairlandAssumption, Nc, Ni
<1>2. /\ PerCont \in Nat /\ PerCont * Nc = Ni
      /\ \A e \in 0..PerCont : /\ e * Nc \in Nat /\ e * Nc <= Ni /\ (e + 1) * Nc = e * Nc + Nc
                               /\ e < PerCont => e * Nc + Nc <= Ni
                               /\ \A h \in 0..e - 1 : h * Nc \in Nat /\ h * Nc + Nc <= e * Nc
  BY <1>1, Rows DEF PerCont
<1>3. Conts = 0..Nc - 1 /\ Islands = 0..Nc + Ni - 1
  BY DEF Conts, Islands
<1>4. /\ g * Nc \in Nat /\ g * Nc <= Ni /\ (g + 1) * Nc = g * Nc + Nc
      /\ g < PerCont => g * Nc + Nc <= Ni
      /\ \A h \in 0..g - 1 : h * Nc \in Nat /\ h * Nc + Nc <= g * Nc
  BY <1>2
<1>5. First1(g) = Nc + g * Nc /\ First1(0) = Nc + 0 * Nc /\ First1(g + 1) = Nc + (g + 1) * Nc
  BY DEF First1
<1>6. PerCont # 0 /\ 0 * Nc = 0
  <2>1. \A m \in Nat : 0 * m = 0
    OBVIOUS
  <2> QED
    BY <1>1, <1>2, <2>1
<1> DEFINE m == Nc
           f == g * Nc
<1> HIDE DEF m, f
<1>7. First1(g) \in Nc..Nc + Ni /\ First1(0) = Nc /\ First1(g + 1) = First1(g) + Nc
  BY <1>1, <1>4, <1>5, <1>6
<1>8. g = PerCont => First1(g) = Nc + Ni
  BY <1>2, <1>5
<1>9. g < PerCont => First1(g) + Nc <= Nc + Ni
  BY <1>1, <1>4, <1>5
<1>10. ASSUME NEW a \in Conts, g < PerCont PROVE First1(g) + a \in Islands \ Conts
  <2>1. a \in Nat /\ a < Nc /\ First1(g) \in Nat /\ First1(g) >= Nc
    BY <1>1, <1>3, <1>7
  <2> QED
    BY <1>1, <1>3, <1>9, <1>10, <2>1
<1>11. ASSUME NEW h \in 0..g - 1, NEW a \in Conts
       PROVE  Nc + h * Nc + a \in Islands \ Conts /\ Nc + h * Nc + a < First1(g)
  <2> DEFINE e == h * Nc
  <2>1. e \in Nat /\ e + Nc <= g * Nc /\ a \in Nat /\ a < Nc
    BY <1>1, <1>3, <1>4
  <2> HIDE DEF e
  <2>2. Nc + e + a \in Islands \ Conts /\ Nc + e + a < First1(g)
    BY <1>1, <1>3, <1>4, <1>5, <2>1
  <2> QED
    BY <2>2 DEF e
<1> QED
  BY <1>1, <1>2, <1>6, <1>7, <1>8, <1>9, <1>10, <1>11

-----------------------------------------------------------------------------
(* Every step keeps it. *)

\* There is a first continent and a first group.
LEMMA Firsts ==
  ASSUME FairlandAssumption, order \in Orders
  PROVE  0 \in Conts /\ 0 \in 0..PerCont
<1>1. Nc \in Nat \ {0} /\ Ni \in Nat \ {0} /\ Ni % Nc = 0
  BY OrderIs DEF FairlandAssumption, Nc, Ni
<1>2. PerCont \in Nat
  BY <1>1, Rows DEF PerCont
<1> QED
  BY <1>1, <1>2 DEF Conts

\* fairland begins with no land.
LEMMA FairStarts ==
  ASSUME HexAssumption, FairlandAssumption, FairInit
  PROVE  FairInv
<1>1. order \in Orders
  BY DEF FairInit
<1>2. cap \in [Conts -> Hexes] /\ 0 \in Conts /\ 0 \in 0..PerCont
  BY <1>1, FirstCapsAreHexes, Firsts DEF FairInit
<1>3. isl \in Archipelagos /\ xzone \in [Hexes -> Int]
  BY DEF FairInit, Archipelagos, NoZones, None1
<1>4. \A c \in Islands : isl[c] = <<>> /\ ToSet(isl[c]) = {} /\ IsInjective(isl[c]) /\ Linked(isl[c])
  BY DEF FairInit, ToSet, IsInjective, Linked
<1>5. Shapely(isl) /\ Spaced(isl)
  BY <1>1, <1>4, OrderIs DEF Shapely, Spaced, Far
<1>6. FairTypes(phase, cap, isl, xzone, group, j, secs, done, aborted)
  BY <1>2, <1>3 DEF FairTypes, FairInit, FairPhases
<1>7. Sizely(phase, isl, group, j, secs, done)
  BY <1>4 DEF Sizely, FairInit, Nothing
<1> QED
  BY <1>1, <1>5, <1>6, <1>7 DEF FairInv, FairSane, FairInit

\* What is begun again is begun as at first.
LEMMA AgainIsSane ==
  ASSUME HexAssumption, FairlandAssumption, FairInv, StartOver, aborted' \in BOOLEAN
  PROVE  FairSane(phase', cap', isl', xzone', group', j', secs', done', aborted')
<1>1. order \in Orders /\ FairSane(phase, cap, isl, xzone, group, j, secs, done, aborted)
  BY DEF FairInv
<1>2. CASE try + 1 < NumTries
  <2>1. /\ phase' = "drift" /\ cap' = FirstCaps /\ secs' = 0 /\ j' = 0 /\ isl' = [c \in Islands |-> <<>>]
        /\ done' = TRUE /\ xzone' = NoZones /\ group' = 0
    BY <1>2 DEF StartOver
  <2>2. cap' \in [Conts -> Hexes] /\ 0 \in Conts /\ 0 \in 0..PerCont
    BY <1>1, <2>1, FirstCapsAreHexes, Firsts
  <2>3. isl' \in Archipelagos /\ xzone' \in [Hexes -> Int]
    BY <2>1 DEF Archipelagos, NoZones, None1
  <2>4. \A c \in Islands : isl'[c] = <<>> /\ ToSet(isl'[c]) = {} /\ IsInjective(isl'[c]) /\ Linked(isl'[c])
    BY <2>1 DEF ToSet, IsInjective, Linked
  <2>5. Shapely(isl') /\ Spaced(isl')
    BY <1>1, <2>4, OrderIs DEF Shapely, Spaced, Far
  <2>6. FairTypes(phase', cap', isl', xzone', group', j', secs', done', aborted')
    BY <2>1, <2>2, <2>3 DEF FairTypes, FairPhases
  <2>7. Sizely(phase', isl', group', j', secs', done')
    BY <2>1, <2>4 DEF Sizely, Nothing
  <2> QED
    BY <2>1, <2>5, <2>6, <2>7 DEF FairSane
<1>3. CASE ~(try + 1 < NumTries)
  <2>1. /\ phase' = "failed" /\ cap' = cap /\ secs' = secs /\ j' = j /\ isl' = isl
        /\ done' = done /\ xzone' = xzone /\ group' = group
    BY <1>3 DEF StartOver
  <2>2. FairTypes(phase', cap', isl', xzone', group', j', secs', done', aborted')
    BY <1>1, <2>1 DEF FairSane, FairTypes, FairPhases
  <2>3. Sizely(phase', isl', group', j', secs', done')
    BY <2>1 DEF Sizely
  <2> QED
    BY <1>1, <2>1, <2>2, <2>3 DEF FairSane
<1> QED
  BY <1>2, <1>3

\* Another continent's or island's turn.
LEMMA TurnKeepsType ==
  ASSUME FairlandAssumption, order \in Orders, NEW i \in Conts
  PROVE  /\ (i + 1) % Nc \in Conts
         /\ i + 1 < Nc => (i + 1) % Nc = i + 1
         /\ i + 1 >= Nc => (i + 1) % Nc = 0 /\ i + 1 = Nc
<1> DEFINE m == Nc
<1>1. m \in Nat \ {0} /\ Conts = 0..m - 1
  BY OrderIs DEF Conts
<1> HIDE DEF m
<1>2. i + 1 \in Nat /\ i + 1 <= m /\ i \in Nat
  BY <1>1
<1>3. (i + 1) % m \in 0..m - 1 /\ (i + 1 < m => (i + 1) % m = i + 1)
  BY <1>1, <1>2, Remainder
<1>4. i + 1 >= m => i + 1 = m /\ (i + 1) % m = 0
  <2>1. (0 + m) % m = 0 % m /\ 0 % m = 0
    BY <1>1, Remainder
  <2>2. 0 + m = m
    BY <1>1
  <2> QED
    BY <1>1, <1>2, <2>1, <2>2
<1> QED
  BY <1>1, <1>3, <1>4 DEF m

\* Capitals drift before anything grows.
LEMMA DriftKeeps ==
  ASSUME HexAssumption, FairlandAssumption, FairInv, DriftEnds \/ DriftCapital
  PROVE  FairInv'
<1>1. order \in Orders /\ order' = order /\ FairSane(phase, cap, isl, xzone, group, j, secs, done, aborted)
  BY DEF FairInv, DriftEnds, DriftCapital
<1>2. /\ isl' = isl /\ xzone' = xzone /\ group' = group /\ done' = done /\ aborted' = aborted
      /\ phase = "drift" /\ phase' \in {"drift", "capitals"}
  BY DEF DriftEnds, DriftCapital
<1>3. cap' \in [Conts -> Hexes] /\ j' \in Conts /\ secs' \in Nat
  <2>1. cap \in [Conts -> Hexes] /\ j \in Conts /\ secs \in Nat
    BY <1>1 DEF FairSane, FairTypes
  <2>2. CASE DriftEnds
    BY <2>1, <2>2 DEF DriftEnds
  <2>3. CASE DriftCapital
    <3>1. j' \in Conts
      BY <1>1, <2>1, <2>3, TurnKeepsType DEF DriftCapital
    <3>2. secs' \in Nat
      BY <2>1, <2>3 DEF DriftCapital
    <3>3. cap' \in [Conts -> Hexes]
      <4>1. cap' = cap \/ \E s \in Around(cap[j]) : cap' = [cap EXCEPT ![j] = s]
        BY <2>3 DEF DriftCapital
      <4>2. \A s \in Around(cap[j]) : s \in Hexes
        BY <1>1, <2>1, NeighborsAreHexes
      <4> QED
        BY <2>1, <4>1, <4>2
    <3> QED
      BY <3>1, <3>2, <3>3
  <2> QED
    BY <2>2, <2>3
<1>4. FairTypes(phase', cap', isl', xzone', group', j', secs', done', aborted')
  BY <1>1, <1>2, <1>3 DEF FairSane, FairTypes, FairPhases
<1>5. Sizely(phase', isl', group', j', secs', done')
  BY <1>1, <1>2 DEF FairSane, Sizely, Nothing
<1>6. FairSane(phase', cap', isl', xzone', group', j', secs', done', aborted')
  BY <1>1, <1>2, <1>4, <1>5 DEF FairSane
<1> QED
  BY <1>1, <1>6, SameOrder

\* grow_continents() begins with two sectors for each, or all is begun again.
LEMMA CapitalsKeep ==
  ASSUME HexAssumption, FairlandAssumption, FairInv, GrowCapitals
  PROVE  FairInv'
<1> DEFINE end == FoldLeft(GrowCapital, [isl |-> isl, zone |-> NoZones, done |-> TRUE], [i \in 1..Nc |-> i - 1])
<1>1. order \in Orders /\ order' = order /\ FairSane(phase, cap, isl, xzone, group, j, secs, done, aborted)
      /\ phase = "capitals" /\ aborted' = aborted
  BY DEF FairInv, GrowCapitals
<1>2. cap \in [Conts -> Hexes] /\ isl \in Archipelagos /\ (\A c \in Islands : isl[c] = <<>>) /\ group \in 0..PerCont
      /\ aborted \in BOOLEAN
  BY <1>1 DEF FairSane, FairTypes, Sizely, Nothing
<1>3. Started(end, Nc)
  BY <1>1, <1>2, CapitalsAreGrown
<1>4. CASE end.done
  <2>1. /\ isl' = end.isl /\ phase' = "continents" /\ secs' = 2 /\ j' = 0 /\ done' = TRUE
        /\ xzone' = end.zone /\ group' = group /\ cap' = cap
    BY <1>4 DEF GrowCapitals
  <2> HIDE DEF end
  <2>2. /\ isl' \in Archipelagos /\ xzone' \in [Hexes -> Int] /\ Shapely(isl') /\ Spaced(isl') /\ Zoned(isl', xzone', AllDi)
        /\ \A c \in Islands \ Conts : isl'[c] = <<>>
        /\ \A c \in Conts : c < Nc => Len(isl'[c]) = 2
    BY <1>3, <1>4, <2>1 DEF Started, Starts
  <2>3. \A c \in Conts : ~(c < 0) /\ c < Nc
    BY <1>1, OrderIs DEF Conts
  <2>4. FairTypes(phase', cap', isl', xzone', group', j', secs', done', aborted')
    BY <1>1, <1>2, <2>1, <2>2, Firsts DEF FairTypes, FairPhases
  <2>5. \A c \in Conts : Len(isl'[c]) = 2 + OneMore(c, 0)
    <3>1. \A c \in Conts : OneMore(c, 0) = 0
      BY <2>3 DEF OneMore
    <3>2. \A c \in Conts : Len(isl'[c]) = 2
      BY <2>2, <2>3
    <3>3. ASSUME NEW c \in Conts PROVE Len(isl'[c]) = 2 + OneMore(c, 0)
      <4>1. OneMore(c, 0) = 0 /\ Len(isl'[c]) = 2
        BY <3>1, <3>2, <3>3
      <4> QED
        BY <4>1
    <3> QED
      BY <3>3
  <2>6. Sizely(phase', isl', group', j', secs', done')
    BY <2>1, <2>2, <2>5 DEF Sizely, Nothing
  <2>7. WideOf("continents", group) = AllDi
    BY DEF WideOf, AllDi
  <2>8. FairSane(phase', cap', isl', xzone', group', j', secs', done', aborted')
    BY <2>1, <2>2, <2>4, <2>6, <2>7 DEF FairSane
  <2> QED
    BY <1>1, <2>8, SameOrder
<1>5. CASE ~end.done
  <2>1. StartOver
    BY <1>5 DEF GrowCapitals
  <2> QED
    BY <1>1, <1>2, <2>1, AgainIsSane, SameOrder
<1> QED
  BY <1>4, <1>5

\* The continents have the size that was asked, or all is begun again.
LEMMA ContinentsKeep ==
  ASSUME HexAssumption, FairlandAssumption, FairInv, ContinentsDone
  PROVE  FairInv'
<1>1. order \in Orders /\ order' = order /\ FairSane(phase, cap, isl, xzone, group, j, secs, done, aborted)
      /\ phase = "continents" /\ aborted' = aborted /\ aborted \in BOOLEAN /\ j = 0
  BY DEF FairInv, ContinentsDone, FairSane, FairTypes
<1>2. CASE done
  <2>1. /\ phase' = "spheres" /\ group' = 0 /\ secs = Sc
        /\ cap' = cap /\ secs' = secs /\ j' = j /\ isl' = isl /\ done' = done /\ xzone' = xzone
    BY <1>2 DEF ContinentsDone
  <2>2. FairTypes(phase', cap', isl', xzone', group', j', secs', done', aborted')
    BY <1>1, <2>1, Firsts DEF FairSane, FairTypes, FairPhases
  <2>3. Nothing(isl, Islands \ Conts) /\ \A c \in Conts : Len(isl[c]) = secs + OneMore(c, j)
    BY <1>1, <1>2 DEF FairSane, Sizely
  <2>4. \A c \in Conts : ~(c < 0)
    BY DEF Conts
  <2>5. \A c \in Conts : Len(isl[c]) = Sc
    <3>1. Sc \in Nat
      BY <1>1, OrderIs
    <3> QED
      BY <1>1, <2>1, <2>3, <2>4, <3>1 DEF OneMore
  <2>6. \A c \in Islands : c >= First1(0) => isl[c] = <<>>
    <3>1. First1(0) = Nc /\ Nc \in Nat
      BY <1>1, Firsts, Blocks, OrderIs
    <3>2. \A c \in Islands : c >= Nc => c \in Islands \ Conts
      BY <1>1, <3>1, OrderIs DEF Conts
    <3> QED
      BY <2>3, <3>1, <3>2 DEF Nothing
  <2>7. Sizely(phase', isl', group', j', secs', done')
    BY <2>1, <2>5, <2>6 DEF Sizely
  <2>8. FairSane(phase', cap', isl', xzone', group', j', secs', done', aborted')
    BY <1>1, <2>1, <2>2, <2>7 DEF FairSane
  <2> QED
    BY <1>1, <2>8, SameOrder
<1>3. CASE ~done
  <2>1. StartOver
    BY <1>3 DEF ContinentsDone
  <2> QED
    BY <1>1, <2>1, AgainIsSane, SameOrder
<1> QED
  BY <1>2, <1>3

\* The spheres of influence change no land.
LEMMA BordersKeep ==
  ASSUME HexAssumption, FairlandAssumption, FairInv, BordersSearched
  PROVE  FairInv'
<1>1. order \in Orders /\ order' = order /\ FairSane(phase, cap, isl, xzone, group, j, secs, done, aborted)
      /\ phase = "spheres" /\ phase' = "zones"
      /\ cap' = cap /\ secs' = secs /\ j' = j /\ isl' = isl /\ done' = done /\ xzone' = xzone
      /\ group' = group /\ aborted' = aborted
  BY DEF FairInv, BordersSearched
<1>2. FairTypes(phase', cap', isl', xzone', group', j', secs', done', aborted')
  BY <1>1 DEF FairSane, FairTypes, FairPhases
<1>3. Sizely(phase', isl', group', j', secs', done')
  BY <1>1 DEF FairSane, Sizely
<1>4. FairSane(phase', cap', isl', xzone', group', j', secs', done', aborted')
  BY <1>1, <1>2, <1>3 DEF FairSane
<1> QED
  BY <1>1, <1>4, SameOrder

\* The zones are drawn again for the next islands.
LEMMA GroupKeeps ==
  ASSUME HexAssumption, FairlandAssumption, FairInv, NextGroup
  PROVE  FairInv'
<1>1. order \in Orders /\ order' = order /\ FairSane(phase, cap, isl, xzone, group, j, secs, done, aborted)
      /\ phase = "zones" /\ cap' = cap /\ secs' = secs /\ isl' = isl /\ done' = done /\ group' = group
  BY DEF FairInv, NextGroup
<1>2. /\ cap \in [Conts -> Hexes] /\ isl \in Archipelagos /\ xzone \in [Hexes -> Int]
      /\ group \in 0..PerCont /\ j \in Conts /\ secs \in Nat /\ done \in BOOLEAN /\ aborted \in BOOLEAN
      /\ Shapely(isl) /\ Spaced(isl)
  BY <1>1 DEF FairSane, FairTypes
<1>3. /\ \A c \in Conts : Len(isl[c]) = Sc
      /\ \A h \in 0..group - 1 : Even(isl, h)
      /\ \A c \in Islands : c >= First1(group) => isl[c] = <<>>
  BY <1>1 DEF FairSane, Sizely
<1>4. CASE group = PerCont
  <2>1. phase' = "done" /\ xzone' = xzone /\ aborted' = aborted /\ j' = j
    BY <1>4 DEF NextGroup
  <2>2. FairTypes(phase', cap', isl', xzone', group', j', secs', done', aborted')
    BY <1>1, <1>2, <2>1 DEF FairTypes, FairPhases
  <2>3. Sizely(phase', isl', group', j', secs', done')
    BY <1>1, <1>3, <1>4, <2>1 DEF Sizely
  <2>4. FairSane(phase', cap', isl', xzone', group', j', secs', done', aborted')
    BY <1>1, <1>2, <2>1, <2>2, <2>3 DEF FairSane
  <2> QED
    BY <1>1, <2>4, SameOrder
<1>5. CASE group # PerCont
  <2> DEFINE z == XzoneInit(FirstOf)
             n == First1(group)
  <2>1. phase' = "place" /\ xzone' = z.zone /\ j' = 0 /\ aborted' = (aborted \/ ~z.ok) /\ FirstOf = n
    BY <1>5 DEF NextGroup, First1, FirstOf
  <2>2. n \in Nat /\ n <= Nc + Ni /\ PerCont \in Nat /\ group < PerCont
    <3>1. n \in Nc..Nc + Ni /\ PerCont \in Nat /\ Nc \in Nat
      BY <1>1, <1>2, Blocks, OrderIs
    <3> QED
      BY <1>2, <1>5, <3>1
  <2> HIDE DEF n
  <2>3. AllDrawn(z, n)
    BY <1>1, <1>2, <2>1, <2>2, ZonesAreDrawn
  <2> HIDE DEF z
  <2>4. FairTypes(phase', cap', isl', xzone', group', j', secs', done', aborted')
    BY <1>1, <1>2, <2>1, <2>2, <2>3, Firsts DEF FairTypes, FairPhases, AllDrawn, Zones
  <2>5. Sizely(phase', isl', group', j', secs', done')
    <3>1. \A c \in Islands : c >= n + 0 => ~(c < n + 0) /\ Len(isl[c]) = 0
      <4>1. ASSUME NEW c \in Islands, c >= n + 0 PROVE ~(c < n + 0) /\ isl[c] = <<>>
        <5>1. c \in Nat /\ c >= n
          BY <1>1, <2>2, <4>1, OrderIs
        <5>2. isl[c] = <<>>
          BY <1>3, <5>1 DEF n
        <5> QED
          BY <2>2, <5>1, <5>2
      <4> QED
        BY <4>1
    <3>2. \A c \in Islands : c >= n => Len(isl[c]) = OneMore(c, n + 0)
      BY <1>1, <2>2, <3>1, OrderIs DEF OneMore
    <3> QED
      BY <1>1, <1>3, <2>1, <3>2 DEF Sizely, n
  <2>6. Zoned(isl, z.zone, WideOf("place", group))
    <3>1. ASSUME NEW d \in Islands PROVE Covers(z.zone, d, ToSet(isl[d]), LandOf(isl), WideOf("place", group)[d])
      <4>1. CASE d < n
        BY <2>3, <4>1 DEF AllDrawn, WideOf, n
      <4>2. CASE ~(d < n)
        <5>1. isl[d] = <<>>
          BY <1>1, <1>3, <2>2, <4>2, OrderIs DEF n
        <5> QED
          BY <5>1 DEF Covers, ToSet
      <4> QED
        BY <4>1, <4>2
    <3> QED
      BY <3>1 DEF Zoned
  <2>7. FairSane(phase', cap', isl', xzone', group', j', secs', done', aborted')
    BY <1>1, <1>2, <2>1, <2>4, <2>5, <2>6 DEF FairSane
  <2> QED
    BY <1>1, <2>7, SameOrder
<1> QED
  BY <1>4, <1>5

\* The island whose turn it is
Grower == IF phase = "continents" THEN j ELSE FirstOf + j

\* Whatever grows, the zones are wide enough for it.
LEMMA ZonesAreWide ==
  ASSUME FairlandAssumption, FairInv, phase \in {"continents", "place", "grow"}
  PROVE  LET W == WideOf(phase, group) IN
         /\ Grower \in Islands /\ (phase # "continents" => Grower \notin Conts)
         /\ W \in Widths /\ W[Grower] = Width(Grower) /\ WideEnough(isl, W, Grower)
<1> DEFINE W == WideOf(phase, group)
<1>1. order \in Orders /\ FairSane(phase, cap, isl, xzone, group, j, secs, done, aborted)
  BY DEF FairInv
<1>2. j \in Conts /\ group \in 0..PerCont /\ (phase # "continents" => group < PerCont)
  BY <1>1 DEF FairSane, FairTypes
<1>3. /\ Di \in Nat /\ Id \in Nat /\ Conts \subseteq Islands /\ Islands \subseteq Nat /\ Nc \in Nat
      /\ DistinctIslands \in BOOLEAN
  BY <1>1, OrderIs
<1>4. \A d \in Conts : d < Nc
  BY <1>3 DEF Conts
<1>5. W \in Widths
  BY <1>3 DEF WideOf, Widths, Width
<1>6. CASE phase = "continents"
  <2>1. Grower = j /\ W[j] = Di /\ Width(j) = Di /\ \A d \in Islands : W[d] = Di
    BY <1>2, <1>3, <1>4, <1>6 DEF Grower, WideOf, Width
  <2>2. \A d \in Islands \ Conts : isl[d] = <<>>
    BY <1>1, <1>6 DEF FairSane, Sizely, Nothing
  <2> HIDE DEF W
  <2>3. WideEnough(isl, W, j)
    BY <1>2, <1>3, <2>1, <2>2 DEF WideEnough
  <2> QED
    BY <1>2, <1>3, <1>5, <1>6, <2>1, <2>3 DEF W
<1>7. CASE phase # "continents"
  <2> DEFINE n == First1(group)
  <2>1. n \in Nat /\ n >= Nc /\ n + j \in Islands \ Conts /\ Grower = n + j
    <3>1. n \in Nc..Nc + Ni /\ n + j \in Islands \ Conts
      BY <1>1, <1>2, <1>7, Blocks
    <3>2. Grower = n + j
      BY <1>7 DEF Grower, FirstOf, First1
    <3> QED
      BY <1>3, <3>1, <3>2
  <2>2. \A d \in Islands : W[d] = IF d < n THEN Id ELSE Width(d)
    BY <1>7 DEF WideOf
  <2> HIDE DEF n, W
  <2>3. ~(n + j < n) /\ j \in Nat
    BY <1>2, <1>3, <2>1
  <2>4. W[Grower] = Width(Grower)
    BY <2>1, <2>2, <2>3
  <2>5. ASSUME NEW d \in Islands, d \in Conts \/ DistinctIslands PROVE W[d] >= Id
    <3>1. CASE d < n
      BY <1>3, <2>2, <3>1
    <3>2. CASE ~(d < n)
      <4>1. d \in Nat /\ ~(d < Nc)
        BY <1>3, <2>1, <3>2
      <4>2. d \notin Conts
        BY <1>4, <4>1
      <4>3. Width(d) = Id
        BY <2>5, <4>1, <4>2 DEF Width
      <4> QED
        BY <1>3, <2>2, <3>2, <4>3
    <3> QED
      BY <3>1, <3>2
  <2>6. WideEnough(isl, W, Grower)
    BY <2>1, <2>5 DEF WideEnough
  <2> QED
    BY <1>5, <2>1, <2>4, <2>6 DEF W
<1> QED
  BY <1>6, <1>7

\* add_sector() where can_grow_at() says yes
LEMMA IslandGrows ==
  ASSUME HexAssumption, FairlandAssumption, FairInv, phase \in {"continents", "place", "grow"},
         NEW s \in Hexes, CanGrowAt(xzone, AllLand, Grower, s), AddSector(Grower, s),
         isl[Grower] = <<>> \/ \E t \in ToSet(isl[Grower]) : s \in Around(t)
  PROVE  /\ isl' \in Archipelagos /\ xzone' \in [Hexes -> Int]
         /\ Shapely(isl') /\ Spaced(isl') /\ Zoned(isl', xzone', WideOf(phase, group))
         /\ Len(isl'[Grower]) = Len(isl[Grower]) + 1
         /\ \A d \in Islands \ {Grower} : isl'[d] = isl[d]
<1> DEFINE c == Grower
           W == WideOf(phase, group)
           g == Grown(isl, c, s)
           z == AroundSector(xzone, c, s, W[c])
<1>1. order \in Orders /\ FairSane(phase, cap, isl, xzone, group, j, secs, done, aborted)
  BY DEF FairInv
<1>2. isl \in Archipelagos /\ xzone \in [Hexes -> Int] /\ Shapely(isl) /\ Spaced(isl) /\ Zoned(isl, xzone, W)
  BY <1>1 DEF FairSane, FairTypes
<1>3. c \in Islands /\ W \in Widths /\ W[c] = Width(c) /\ WideEnough(isl, W, c)
  BY ZonesAreWide
<1>4. isl' = g /\ xzone' = z
  BY <1>3 DEF AddSector, Grown
<1>5. s \notin LandOf(isl) /\ xzone[s] \in {c, None1}
  BY DEF CanGrowAt, XzoneOk, AllLand, LandOf
<1> HIDE DEF W
<1>6. Fits(isl, c, s) /\ Free(isl, xzone, W, c, s)
  BY <1>2, <1>3, <1>5 DEF Fits, Free
<1> HIDE DEF c
<1>7. /\ g \in Archipelagos /\ z \in [Hexes -> Int]
      /\ Shapely(g) /\ Spaced(g) /\ Zoned(g, z, W)
  BY <1>1, <1>2, <1>3, <1>6, GrownStaysZoned
<1>8. Grows1(isl, g, c, s)
  BY <1>2, <1>3, <1>6, GrownIs
<1> HIDE DEF g, z
<1>9. Len(g[c]) = Len(isl[c]) + 1 /\ \A d \in Islands \ {c} : g[d] = isl[d]
  BY <1>8 DEF Grows1
<1> QED
  BY <1>4, <1>7, <1>9 DEF c, W

\* grow_one_sector() grows a sector or has no place for one.
LEMMA OneSector ==
  ASSUME HexAssumption, FairlandAssumption, FairInv, phase \in {"continents", "grow"}, GrowOneSector(Grower)
  PROVE  /\ isl' \in Archipelagos /\ xzone' \in [Hexes -> Int] /\ done' \in BOOLEAN
         /\ Shapely(isl') /\ Spaced(isl') /\ Zoned(isl', xzone', WideOf(phase, group))
         /\ \A d \in Islands \ {Grower} : isl'[d] = isl[d]
         /\ \/ Len(isl'[Grower]) = Len(isl[Grower]) + 1 /\ done' = done
            \/ isl' = isl /\ ~done'
<1>1. FairSane(phase, cap, isl, xzone, group, j, secs, done, aborted)
  BY DEF FairInv
<1>2. done \in BOOLEAN
  BY <1>1 DEF FairSane, FairTypes
<1>3. CASE Places(Grower) = {} /\ done' = FALSE /\ UNCHANGED <<isl, xzone>>
  BY <1>1, <1>3 DEF FairSane, FairTypes
<1>4. CASE \E spike \in Spikes, s \in Hexes :
             Grows(Grower, s, spike) /\ ~Hangs(Grower, spike) /\ AddSector(Grower, s) /\ UNCHANGED done
  <2>1. PICK s \in Hexes : s \in Places(Grower) /\ AddSector(Grower, s) /\ done' = done
    BY <1>4 DEF Grows
  <2>2. CanGrowAt(xzone, AllLand, Grower, s) /\ \E t \in ToSet(isl[Grower]) : s \in Around(t)
    BY <2>1 DEF Places
  <2> QED
    BY <1>2, <2>1, <2>2, IslandGrows
<1> QED
  BY <1>3, <1>4 DEF GrowOneSector

\* A sector more for a continent
LEMMA ContinentKeeps ==
  ASSUME HexAssumption, FairlandAssumption, FairInv, GrowContinent
  PROVE  FairInv'
<1>1. order \in Orders /\ order' = order /\ FairSane(phase, cap, isl, xzone, group, j, secs, done, aborted)
      /\ phase = "continents" /\ phase' = phase /\ cap' = cap /\ group' = group /\ aborted' = aborted
      /\ GrowOneSector(Grower) /\ Grower = j /\ Turn
  BY DEF FairInv, GrowContinent, Grower
<1>2. /\ isl' \in Archipelagos /\ xzone' \in [Hexes -> Int] /\ done' \in BOOLEAN
      /\ Shapely(isl') /\ Spaced(isl') /\ Zoned(isl', xzone', WideOf(phase, group))
      /\ \A d \in Islands \ {j} : isl'[d] = isl[d]
      /\ \/ Len(isl'[j]) = Len(isl[j]) + 1 /\ done' = done
         \/ isl' = isl /\ ~done'
  BY <1>1, OneSector
<1>3. j \in Conts /\ secs \in Nat /\ Nc \in Nat \ {0} /\ Conts = 0..Nc - 1 /\ Conts \subseteq Islands
  BY <1>1, OrderIs DEF FairSane, FairTypes, Conts
<1>4. j' = (j + 1) % Nc /\ j' \in Conts /\ (j + 1 < Nc => j' = j + 1 /\ secs' = secs)
      /\ (j + 1 >= Nc => j' = 0 /\ j + 1 = Nc /\ secs' = secs + 1) /\ secs' \in Nat
  <2>1. j' = (j + 1) % Nc /\ secs' = IF j' = 0 THEN secs + 1 ELSE secs
    BY <1>1 DEF Turn
  <2>2. /\ j' \in Conts /\ (j + 1 < Nc => j' = j + 1) /\ (j + 1 >= Nc => j' = 0 /\ j + 1 = Nc)
    BY <1>1, <1>3, <2>1, TurnKeepsType
  <2>3. 0 <= j /\ (j' = j + 1 => j' # 0)
    BY <1>3
  <2>4. j + 1 < Nc \/ j + 1 >= Nc
    BY <1>3
  <2> QED
    BY <1>3, <2>1, <2>2, <2>3, <2>4
<1>5. /\ Nothing(isl, Islands \ Conts) /\ secs > 0
      /\ done => \A c \in Conts : Len(isl[c]) = secs + OneMore(c, j)
  BY <1>1 DEF FairSane, Sizely
<1>6. FairTypes(phase', cap', isl', xzone', group', j', secs', done', aborted')
  BY <1>1, <1>2, <1>4 DEF FairSane, FairTypes, FairPhases
<1>7. Nothing(isl', Islands \ Conts) /\ secs' > 0
  <2>1. j \notin Islands \ Conts
    BY <1>3
  <2>2. Nothing(isl', Islands \ Conts)
    BY <1>2, <1>5, <2>1 DEF Nothing
  <2>3. secs' = secs \/ secs' = secs + 1
    BY <1>3, <1>4
  <2> QED
    BY <1>3, <1>5, <2>2, <2>3
<1>8. ASSUME done', NEW c \in Conts PROVE Len(isl'[c]) = secs' + OneMore(c, j')
  <2>1. Len(isl'[j]) = Len(isl[j]) + 1 /\ Len(isl[c]) = secs + OneMore(c, j) /\ Len(isl[j]) = secs + OneMore(j, j)
    BY <1>2, <1>3, <1>5, <1>8
  <2>2. c # j => Len(isl'[c]) = Len(isl[c])
    BY <1>2, <1>3
  <2> DEFINE n == Len(isl[c])
             m == Len(isl'[c])
  <2>3. n = secs + OneMore(c, j) /\ m = IF c = j THEN n + 1 ELSE n
    BY <2>1, <2>2
  <2> HIDE DEF n, m
  <2>4. c \in Nat /\ j \in Nat /\ c < Nc
    BY <1>3
  <2>5. m = secs' + OneMore(c, j')
    <3>1. CASE j + 1 < Nc
      <4>1. j' = j + 1 /\ secs' = secs
        BY <1>4, <3>1
      <4>2. OneMore(c, j + 1) = IF c = j THEN 1 ELSE OneMore(c, j)
        BY <2>4 DEF OneMore
      <4>3. c = j => OneMore(c, j) = 0
        BY <2>4 DEF OneMore
      <4> QED
        BY <1>3, <2>3, <4>1, <4>2, <4>3
    <3>2. CASE j + 1 >= Nc
      <4>1. j' = 0 /\ secs' = secs + 1 /\ c <= j
        BY <1>3, <1>4, <2>4, <3>2
      <4>2. OneMore(c, 0) = 0 /\ OneMore(c, j) = IF c = j THEN 0 ELSE 1
        BY <2>4, <4>1 DEF OneMore
      <4> QED
        BY <1>3, <2>3, <4>1, <4>2
    <3> QED
      BY <1>3, <3>1, <3>2
  <2> QED
    BY <2>5 DEF m
<1>9. Sizely(phase', isl', group', j', secs', done')
  BY <1>1, <1>7, <1>8 DEF Sizely
<1>10. FairSane(phase', cap', isl', xzone', group', j', secs', done', aborted')
  BY <1>1, <1>2, <1>6, <1>9 DEF FairSane
<1> QED
  BY <1>1, <1>10, SameOrder

\* An island's first sector, or all is begun again.
LEMMA PlaceKeeps ==
  ASSUME HexAssumption, FairlandAssumption, FairInv, PlaceIsland
  PROVE  FairInv'
<1>1. order \in Orders /\ order' = order /\ FairSane(phase, cap, isl, xzone, group, j, secs, done, aborted)
      /\ phase = "place" /\ aborted' = aborted /\ aborted \in BOOLEAN
  BY DEF FairInv, PlaceIsland, FairSane, FairTypes
<1>2. CASE {s \in Hexes : CanGrowAt(xzone, AllLand, FirstOf + j, s)} = {}
  <2>1. StartOver
    BY <1>2 DEF PlaceIsland
  <2> QED
    BY <1>1, <2>1, AgainIsSane, SameOrder
<1>3. CASE {s \in Hexes : CanGrowAt(xzone, AllLand, FirstOf + j, s)} # {}
  <2> DEFINE n == First1(group)
             c == n + j
  <2>1. Grower = c
    BY <1>1 DEF Grower, FirstOf, First1
  <2>2. /\ \E s \in Hexes : CanGrowAt(xzone, AllLand, Grower, s) /\ AddSector(Grower, s)
        /\ j' = (j + 1) % Nc /\ phase' = (IF j' = 0 THEN "grow" ELSE "place") /\ secs' = 1 /\ done' = TRUE
        /\ cap' = cap /\ group' = group
    BY <1>1, <1>3 DEF PlaceIsland, Grower
  <2>3. /\ j \in Conts /\ group \in 0..PerCont /\ group < PerCont /\ Nc \in Nat \ {0} /\ Conts = 0..Nc - 1
        /\ Conts \subseteq Islands /\ Islands \subseteq Nat
    BY <1>1, OrderIs DEF FairSane, FairTypes, Conts
  <2>4. n \in Nat /\ c \in Islands \ Conts /\ \A a \in Conts : n + a \in Islands \ Conts
    <3>1. n \in Nc..Nc + Ni
      BY <1>1, <2>3, Blocks
    <3>2. \A a \in Conts : n + a \in Islands \ Conts
      BY <1>1, <2>3, Blocks
    <3>3. Nc..Nc + Ni \subseteq Nat
      <4>1. Ni \in Nat /\ Nc \in Nat
        BY <1>1, OrderIs
      <4> QED
        BY <4>1
    <3> HIDE DEF n
    <3> QED
      BY <2>3, <3>1, <3>2, <3>3
  <2>5. /\ \A d \in Conts : Len(isl[d]) = Sc
        /\ \A h \in 0..group - 1 : Even(isl, h)
        /\ \A d \in Islands : d >= n => Len(isl[d]) = OneMore(d, n + j)
    BY <1>1 DEF FairSane, Sizely
  <2>6. j' \in Conts /\ (j + 1 < Nc => j' = j + 1) /\ (j + 1 >= Nc => j' = 0 /\ j + 1 = Nc)
    BY <1>1, <2>2, <2>3, TurnKeepsType
  <2>7. \A h \in 0..group - 1, a \in Conts : Nc + h * Nc + a \in Islands \ Conts /\ Nc + h * Nc + a < n
    BY <1>1, <2>3, Blocks
  <2> HIDE DEF n
  <2>8. isl[c] = <<>>
    <3>1. Len(isl[c]) = 0
      BY <2>3, <2>4, <2>5 DEF OneMore
    <3>2. isl[c] \in Seq(Hexes)
      BY <1>1, <2>4 DEF FairSane, FairTypes, Archipelagos
    <3> QED
      BY <3>1, <3>2, EmptySeq
  <2> HIDE DEF c
  <2>9. /\ isl' \in Archipelagos /\ xzone' \in [Hexes -> Int]
        /\ Shapely(isl') /\ Spaced(isl') /\ Zoned(isl', xzone', WideOf(phase, group))
        /\ Len(isl'[c]) = 1 /\ \A d \in Islands \ {c} : isl'[d] = isl[d]
    <3>1. PICK s \in Hexes : CanGrowAt(xzone, AllLand, Grower, s) /\ AddSector(Grower, s)
      BY <2>2
    <3>2. Len(isl[c]) = 0
      BY <2>8
    <3> QED
      <4>1. /\ isl' \in Archipelagos /\ xzone' \in [Hexes -> Int]
            /\ Shapely(isl') /\ Spaced(isl') /\ Zoned(isl', xzone', WideOf(phase, group))
            /\ Len(isl'[Grower]) = Len(isl[Grower]) + 1 /\ \A d \in Islands \ {Grower} : isl'[d] = isl[d]
        <5>1. isl[Grower] = <<>>
          BY <2>1, <2>8
        <5> QED
          BY <1>1, <3>1, <5>1, IslandGrows
      <4>2. Len(isl'[c]) = 0 + 1
        BY <2>1, <3>2, <4>1
      <4> QED
        <5>1. Len(isl'[c]) = 1
          BY <4>2
        <5> QED
          BY <2>1, <4>1, <5>1, Zenon
  <2>10. FairTypes(phase', cap', isl', xzone', group', j', secs', done', aborted')
    BY <1>1, <2>2, <2>3, <2>6, <2>9 DEF FairSane, FairTypes, FairPhases
  <2>11. (\A d \in Conts : Len(isl'[d]) = Sc) /\ \A h \in 0..group - 1 : Even(isl', h)
    <3>1. \A d \in Conts : isl'[d] = isl[d]
      BY <2>3, <2>4, <2>9
    <3>2. \A h \in 0..group - 1, a \in Conts : isl'[Nc + h * Nc + a] = isl[Nc + h * Nc + a]
      <4>1. ~(c < n)
        BY <2>3, <2>4 DEF c
      <4> QED
        BY <2>7, <2>9, <4>1
    <3>3. ASSUME NEW h \in 0..group - 1 PROVE Even(isl', h)
      BY <2>5, <3>2 DEF Even
    <3> QED
      BY <2>5, <3>1, <3>3
  <2>12. \A d \in Islands : d >= n => Len(isl'[d]) = OneMore(d, c + 1)
    <3>1. ASSUME NEW d \in Islands, d >= n PROVE Len(isl'[d]) = OneMore(d, c + 1)
      <4>1. d \in Nat /\ c \in Nat
        BY <2>3, <2>4
      <4>2. CASE d = c
        <5>1. OneMore(c, c + 1) = 1
          BY <4>1 DEF OneMore
        <5> QED
          BY <2>9, <4>2, <5>1
      <4>3. CASE d # c
        <5>1. Len(isl'[d]) = OneMore(d, c)
          BY <2>5, <2>9, <3>1, <4>3 DEF c
        <5>2. OneMore(d, c) = OneMore(d, c + 1)
          BY <4>1, <4>3 DEF OneMore
        <5> QED
          BY <5>1, <5>2
      <4> QED
        BY <4>2, <4>3
    <3> QED
      BY <3>1
  <2>13. CASE j' = 0
    <3>1. phase' = "grow" /\ c + 1 = n + Nc /\ n + Nc \in Nat
      BY <2>2, <2>3, <2>4, <2>6, <2>13 DEF c
    <3>2. \A d \in Islands : d >= n + Nc => isl'[d] = <<>>
      <4>1. ASSUME NEW d \in Islands, d >= n + Nc PROVE isl'[d] = <<>>
        <5>1. d \in Nat /\ d >= n
          BY <2>3, <2>4, <4>1
        <5>2. Len(isl'[d]) = 0
          BY <2>12, <3>1, <4>1, <5>1 DEF OneMore
        <5>3. isl'[d] \in Seq(Hexes)
          BY <2>9 DEF Archipelagos
        <5> QED
          BY <5>2, <5>3, EmptySeq
      <4> QED
        BY <4>1
    <3>3. ASSUME NEW a \in Conts PROVE Len(isl'[n + a]) = 1 + OneMore(a, 0)
      <4>1. n + a \in Islands /\ a \in Nat /\ n + a >= n /\ n + a < c + 1
        <5>1. n + a \in Islands /\ a \in Nat /\ a < Nc
          <6>1. n + a \in Islands
            BY <2>4
          <6>2. a \in Nat /\ a < Nc
            BY <2>3
          <6> QED
            BY <6>1, <6>2
        <5> QED
          BY <2>3, <2>4, <3>1, <5>1
      <4>2. Len(isl'[n + a]) = OneMore(n + a, c + 1)
        BY <2>12, <4>1
      <4>3. OneMore(n + a, c + 1) = 1 /\ OneMore(a, 0) = 0
        BY <4>1 DEF OneMore
      <4> QED
        BY <4>2, <4>3
    <3>4. Growing(isl', group, 0, 1, TRUE)
      BY <3>2, <3>3 DEF Growing, LenIs, n
    <3>5. Sizely(phase', isl', group', j', secs', done')
      BY <2>2, <2>11, <2>13, <3>1, <3>4 DEF Sizely
    <3>6. FairSane(phase', cap', isl', xzone', group', j', secs', done', aborted')
      <4>1. WideOf("place", group) = WideOf("grow", group)
        BY DEF WideOf
      <4> QED
        BY <1>1, <2>2, <2>9, <2>10, <3>1, <3>5, <4>1 DEF FairSane
    <3> QED
      BY <1>1, <3>6, SameOrder
  <2>14. CASE j' # 0
    <3>1. phase' = "place" /\ j' = j + 1 /\ n + j' = c + 1
      BY <2>2, <2>3, <2>4, <2>6, <2>14 DEF c
    <3>2. \A d \in Islands : d >= n => Len(isl'[d]) = OneMore(d, n + j')
      BY <2>12, <3>1
    <3>3. Sizely(phase', isl', group', j', secs', done')
      BY <2>2, <2>11, <3>1, <3>2 DEF Sizely, n
    <3>4. FairSane(phase', cap', isl', xzone', group', j', secs', done', aborted')
      BY <1>1, <2>2, <2>9, <2>10, <3>1, <3>3 DEF FairSane
    <3> QED
      BY <1>1, <3>4, SameOrder
  <2> QED
    BY <2>13, <2>14
<1> QED
  BY <1>2, <1>3

\* Lengths only depend on the islands of this group and of the groups before.
LEMMA EarlierStay ==
  ASSUME FairlandAssumption, FairInv, phase \in {"place", "grow"}, NEW q,
         \A d \in Islands : d < First1(group) => q[d] = isl[d]
  PROVE  (\A d \in Conts : Len(q[d]) = Sc) /\ \A h \in 0..group - 1 : Even(q, h)
<1>1. order \in Orders /\ FairSane(phase, cap, isl, xzone, group, j, secs, done, aborted)
  BY DEF FairInv
<1>2. /\ \A d \in Conts : Len(isl[d]) = Sc
      /\ \A h \in 0..group - 1 : Even(isl, h)
  BY <1>1 DEF FairSane, Sizely
<1>3. group \in 0..PerCont /\ Conts \subseteq Islands /\ Nc \in Nat
  BY <1>1, OrderIs DEF FairSane, FairTypes
<1>4. First1(group) \in Nc..Nc + Ni /\ Ni \in Nat
  BY <1>1, <1>3, Blocks, OrderIs
<1>5. \A d \in Conts : q[d] = isl[d]
  <2>1. \A d \in Conts : d < First1(group)
    BY <1>3, <1>4 DEF Conts
  <2> QED
    BY <1>3, <2>1
<1>6. \A h \in 0..group - 1, a \in Conts : q[Nc + h * Nc + a] = isl[Nc + h * Nc + a]
  <2>1. \A h \in 0..group - 1, a \in Conts : Nc + h * Nc + a \in Islands /\ Nc + h * Nc + a < First1(group)
    BY <1>1, <1>3, Blocks
  <2> QED
    BY <2>1
<1>7. ASSUME NEW h \in 0..group - 1 PROVE Even(q, h)
  BY <1>2, <1>6 DEF Even
<1> QED
  BY <1>2, <1>5, <1>7

\* An island's length after its turn
TurnIs(m, i, n, i1, n1) ==
  /\ i + 1 < m => i1 = i + 1 /\ n1 = n
  /\ i + 1 >= m => i1 = 0 /\ i + 1 = m /\ n1 = n + 1
LenGrows(d, i, a, len, d1, len1) ==
  \/ a = i /\ len1 = len + 1 /\ (d <=> d1)
  \/ a # i /\ len1 = len /\ (d <=> d1)
  \/ len1 = len /\ ~d1

\* What the lengths were before the turn they are after it.
LEMMA TurnLengths ==
  ASSUME NEW m \in Nat \ {0}, NEW i \in 0..m - 1, NEW n \in Nat, NEW a \in 0..m - 1, NEW len, NEW len1,
         NEW i1, NEW n1, NEW d, NEW d1,
         TurnIs(m, i, n, i1, n1), i # 0 \/ d, LenIs(d, i, n, a, len), LenGrows(d, i, a, len, d1, len1)
  PROVE  LenIs(d1, i1, n1, a, len1)
<1>0. /\ i + 1 < m => i1 = i + 1 /\ n1 = n
      /\ i + 1 >= m => i1 = 0 /\ i + 1 = m /\ n1 = n + 1
      /\ \/ a = i /\ len1 = len + 1 /\ (d <=> d1)
         \/ a # i /\ len1 = len /\ (d <=> d1)
         \/ len1 = len /\ ~d1
  BY DEF TurnIs, LenGrows
<1>1. OneMore(a, i) = IF a < i THEN 1 ELSE 0
  BY DEF OneMore
<1>2. i1 = 0 => OneMore(a, i1) = 0
  BY DEF OneMore
<1>3. OneMore(a, i + 1) = IF a <= i THEN 1 ELSE 0
  BY DEF OneMore
<1>4. len = n \/ len = n + OneMore(a, i)
  BY DEF LenIs
<1>5. d => len = n + OneMore(a, i)
  BY DEF LenIs
<1> DEFINE x == OneMore(a, i)
           y == OneMore(a, i1)
<1>6. x \in 0..1 /\ (x = 1 <=> a < i) /\ y \in 0..1
  BY <1>1, <1>2, <1>3 DEF OneMore
<1>7. CASE i + 1 < m
  <2>1. i1 = i + 1 /\ n1 = n /\ i1 # 0 /\ (y = 1 <=> a <= i)
    BY <1>0, <1>3, <1>7
  <2> HIDE DEF x, y
  <2>2. len1 = n \/ len1 = n + y
    BY <1>0, <1>4, <1>6, <2>1 DEF x
  <2>3. d1 => len1 = n + y
    BY <1>0, <1>5, <1>6, <2>1 DEF x
  <2> QED
    BY <2>1, <2>2, <2>3 DEF LenIs, y
<1>8. CASE i + 1 >= m
  <2>1. i1 = 0 /\ n1 = n + 1 /\ i + 1 = m /\ y = 0 /\ n1 - 1 = n /\ a <= i
    BY <1>0, <1>2, <1>8
  <2> HIDE DEF x, y
  <2>2. len1 = n \/ len1 = n + 1
    BY <1>0, <1>4, <1>6, <2>1 DEF x
  <2>3. d1 => len1 = n1 + y
    BY <1>0, <1>5, <1>6, <2>1 DEF x
  <2> QED
    BY <2>1, <2>2, <2>3 DEF LenIs, y
<1> QED
  BY <1>7, <1>8

\* A sector more for an island
LEMMA IslandKeeps ==
  ASSUME HexAssumption, FairlandAssumption, FairInv, GrowIsland
  PROVE  FairInv'
<1>1. order \in Orders /\ order' = order /\ FairSane(phase, cap, isl, xzone, group, j, secs, done, aborted)
      /\ phase = "grow" /\ phase' = phase /\ cap' = cap /\ group' = group /\ aborted' = aborted
      /\ (j = 0 => done) /\ GrowOneSector(Grower) /\ Turn
  BY DEF FairInv, GrowIsland, Grower
<1> DEFINE n == First1(group)
           c == n + j
<1>2. Grower = c
  BY <1>1 DEF Grower, FirstOf, First1
<1>3. /\ j \in Conts /\ secs \in Nat /\ done \in BOOLEAN /\ group \in 0..PerCont /\ group < PerCont
      /\ Nc \in Nat \ {0} /\ Conts = 0..Nc - 1 /\ Islands \subseteq Nat
  BY <1>1, OrderIs DEF FairSane, FairTypes, Conts
<1>4. n \in Nat /\ \A a \in Conts : n + a \in Islands
  <2>1. n \in Nc..Nc + Ni /\ \A a \in Conts : n + a \in Islands \ Conts
    BY <1>1, <1>3, Blocks
  <2> QED
    BY <1>3, <2>1
<1>5. Growing(isl, group, j, secs, done)
  BY <1>1 DEF FairSane, Sizely
<1>6. /\ secs > 0 /\ \A d \in Islands : d >= n + Nc => isl[d] = <<>>
      /\ \A a \in Conts : LenIs(done, j, secs, a, Len(isl[n + a]))
  BY <1>5 DEF Growing
<1> HIDE DEF n
<1>7. /\ isl' \in Archipelagos /\ xzone' \in [Hexes -> Int] /\ done' \in BOOLEAN
      /\ Shapely(isl') /\ Spaced(isl') /\ Zoned(isl', xzone', WideOf(phase, group))
      /\ \A d \in Islands \ {c} : isl'[d] = isl[d]
      /\ \/ Len(isl'[c]) = Len(isl[c]) + 1 /\ done' = done
         \/ isl' = isl /\ ~done'
  BY <1>1, <1>2, OneSector
<1>8. j' = (j + 1) % Nc /\ j' \in Conts /\ (j + 1 < Nc => j' = j + 1 /\ secs' = secs)
      /\ (j + 1 >= Nc => j' = 0 /\ j + 1 = Nc /\ secs' = secs + 1) /\ secs' \in Nat
  <2>1. j' = (j + 1) % Nc /\ secs' = IF j' = 0 THEN secs + 1 ELSE secs
    BY <1>1 DEF Turn
  <2>2. /\ j' \in Conts /\ (j + 1 < Nc => j' = j + 1) /\ (j + 1 >= Nc => j' = 0 /\ j + 1 = Nc)
    BY <1>1, <1>3, <2>1, TurnKeepsType
  <2> QED
    BY <1>3, <2>1, <2>2
<1>9. FairTypes(phase', cap', isl', xzone', group', j', secs', done', aborted')
  BY <1>1, <1>3, <1>7, <1>8 DEF FairSane, FairTypes, FairPhases
<1>10. ASSUME NEW a \in Conts PROVE LenIs(done', j', secs', a, Len(isl'[n + a]))
  <2>1. a \in 0..Nc - 1 /\ j \in 0..Nc - 1 /\ n + a \in Islands /\ (n + a = c <=> a = j)
    <3>1. a \in 0..Nc - 1 /\ j \in 0..Nc - 1
      BY <1>3
    <3>2. n + a \in Islands
      BY <1>4
    <3> QED
      BY <1>4, <3>1, <3>2
  <2> HIDE DEF c
  <2>2. LenIs(done, j, secs, a, Len(isl[n + a]))
    BY <1>6
  <2> DEFINE len == Len(isl[n + a])
             len1 == Len(isl'[n + a])
  <2>3. \/ a = j /\ len1 = len + 1 /\ (done <=> done')
        \/ a # j /\ len1 = len /\ (done <=> done')
        \/ len1 = len /\ ~done'
    <3>1. CASE isl' = isl /\ ~done'
      BY <3>1
    <3>2. CASE Len(isl'[c]) = Len(isl[c]) + 1 /\ done' = done
      <4>1. CASE a = j
        BY <2>1, <3>2, <4>1
      <4>2. CASE a # j
        <5>1. isl'[n + a] = isl[n + a]
          BY <1>7, <2>1, <4>2
        <5> QED
          BY <3>2, <4>2, <5>1
      <4> QED
        BY <4>1, <4>2
    <3> QED
      BY <1>7, <3>1, <3>2
  <2> HIDE DEF len, len1
  <2>4. LenIs(done, j, secs, a, len)
    BY <2>2 DEF len
  <2>5. LenIs(done', j', secs', a, len1)
    <3>1. TurnIs(Nc, j, secs, j', secs') /\ (j # 0 \/ done)
      BY <1>1, <1>8 DEF TurnIs
    <3>2. LenGrows(done, j, a, len, done', len1)
      BY <2>3 DEF LenGrows
    <3> QED
      BY <1>3, <2>1, <2>4, <3>1, <3>2, TurnLengths
  <2> QED
    BY <2>5 DEF len1
<1>11. \A d \in Islands : d >= n + Nc => isl'[d] = <<>>
  <2>1. ASSUME NEW d \in Islands, d >= n + Nc PROVE isl'[d] = <<>>
    <3>1. d # c
      BY <1>3, <1>4, <2>1
    <3> QED
      BY <1>6, <1>7, <2>1, <3>1
  <2> QED
    BY <2>1
<1>12. secs' > 0
  BY <1>3, <1>6, <1>8
<1>13. Growing(isl', group, j', secs', done')
  BY <1>10, <1>11, <1>12 DEF Growing, n
<1>14. (\A d \in Conts : Len(isl'[d]) = Sc) /\ \A h \in 0..group - 1 : Even(isl', h)
  <2>1. \A d \in Islands : d < n => isl'[d] = isl[d]
    <3>1. ~(c < n)
      BY <1>3, <1>4
    <3> QED
      BY <1>7, <3>1
  <2> QED
    BY <1>1, <2>1, EarlierStay DEF n
<1>15. Sizely(phase', isl', group', j', secs', done')
  BY <1>1, <1>13, <1>14 DEF Sizely
<1>16. FairSane(phase', cap', isl', xzone', group', j', secs', done', aborted')
  BY <1>1, <1>7, <1>9, <1>15 DEF FairSane
<1> QED
  BY <1>1, <1>16, SameOrder

\* What an island has grown too much it gives back.
LEMMA GroupDoneKeeps ==
  ASSUME HexAssumption, FairlandAssumption, FairInv, GroupDone
  PROVE  FairInv'
<1> DEFINE n == First1(group)
           size == IF done THEN secs ELSE secs - 1
<1>1. order \in Orders /\ order' = order /\ FairSane(phase, cap, isl, xzone, group, j, secs, done, aborted)
      /\ phase = "grow" /\ phase' = "zones" /\ cap' = cap /\ group' = group + 1 /\ aborted' = aborted
      /\ xzone' = xzone /\ j' = j /\ secs' = secs /\ done' = done /\ j = 0
      /\ isl' = [c \in Islands |-> IF c \in FirstOf..FirstOf + Nc - 1 THEN SubSeq(isl[c], 1, size) ELSE isl[c]]
  BY DEF FairInv, GroupDone
<1>2. /\ j \in Conts /\ secs \in Nat /\ done \in BOOLEAN /\ group \in 0..PerCont /\ group < PerCont
      /\ Nc \in Nat \ {0} /\ Conts = 0..Nc - 1 /\ Conts \subseteq Islands /\ Islands \subseteq Nat /\ isl \in Archipelagos
      /\ Shapely(isl) /\ Spaced(isl)
  BY <1>1, OrderIs DEF FairSane, FairTypes, Conts
<1>3. n \in Nat /\ n = FirstOf /\ First1(group') = n + Nc /\ group' \in 0..PerCont /\ group \in Nat
      /\ \A a \in Conts : n + a \in Islands
  <2>1. /\ n \in Nc..Nc + Ni /\ First1(group + 1) = n + Nc /\ PerCont \in Nat /\ group \in Nat
        /\ \A a \in Conts : n + a \in Islands \ Conts
    BY <1>1, <1>2, Blocks
  <2>2. n = FirstOf
    BY DEF FirstOf, First1
  <2>3. First1(group') = n + Nc
    BY <1>1, <2>1
  <2>4. n \in Nat /\ group' \in 0..PerCont
    BY <1>1, <1>2, <2>1
  <2>5. \A a \in Conts : n + a \in Islands
    BY <2>1
  <2> QED
    BY <2>1, <2>2, <2>3, <2>4, <2>5
<1>4. Growing(isl, group, j, secs, done)
  BY <1>1 DEF FairSane, Sizely
<1>5. /\ secs > 0 /\ \A d \in Islands : d >= n + Nc => isl[d] = <<>>
      /\ \A a \in Conts : LenIs(done, j, secs, a, Len(isl[n + a]))
  BY <1>4 DEF Growing
<1> HIDE DEF n
<1>6. size \in Nat /\ \A a \in Conts : size <= Len(isl[n + a])
  <2>1. ASSUME NEW a \in Conts PROVE size <= Len(isl[n + a])
    <3>1. LenIs(done, 0, secs, a, Len(isl[n + a])) /\ a \in Nat
      BY <1>1, <1>2, <1>5
    <3>2. OneMore(a, 0) = 0
      BY <3>1 DEF OneMore
    <3> QED
      BY <1>2, <3>1, <3>2 DEF LenIs
  <2> QED
    BY <1>2, <1>5, <2>1
<1> HIDE DEF size
<1> DEFINE q == isl'
<1>7. ASSUME NEW d \in Islands
      PROVE  /\ q[d] \in Seq(Hexes) /\ ToSet(q[d]) \subseteq ToSet(isl[d]) /\ IsInjective(q[d]) /\ Linked(q[d])
             /\ d \in n..n + Nc - 1 => Len(q[d]) = size
             /\ d \notin n..n + Nc - 1 => q[d] = isl[d]
  <2>1. isl[d] \in Seq(Hexes) /\ IsInjective(isl[d]) /\ Linked(isl[d]) /\ d \in Nat
    BY <1>2 DEF Archipelagos, Shapely
  <2>2. CASE d \in n..n + Nc - 1
    <3>1. q[d] = SubSeq(isl[d], 1, size)
      BY <1>1, <1>3, <2>2
    <3>2. size <= Len(isl[d])
      <4>1. d - n \in Conts /\ n + (d - n) = d
        BY <1>2, <1>3, <2>1, <2>2
      <4> QED
        BY <1>6, <4>1
    <3> QED
      BY <1>6, <2>1, <2>2, <3>1, <3>2, PrefixLinked
  <2>3. CASE d \notin n..n + Nc - 1
    <3>1. q[d] = isl[d]
      BY <1>1, <1>3, <2>3
    <3> QED
      BY <2>1, <2>3, <3>1
  <2> QED
    BY <2>2, <2>3
<1>8. q \in Archipelagos
  <2>1. q = [d \in Islands |-> q[d]]
    BY <1>1
  <2> HIDE DEF q
  <2> QED
    BY <1>7, <2>1 DEF Archipelagos
<1> HIDE DEF q
<1>9. Shapely(q) /\ Spaced(q)
  <2>1. Shapely(q)
    BY <1>7 DEF Shapely
  <2>2. \A c, d \in Islands : \A dist : Far(ToSet(isl[c]), ToSet(isl[d]), dist) => Far(ToSet(q[c]), ToSet(q[d]), dist)
    BY <1>7 DEF Far
  <2>3. Spaced(q)
    BY <1>2, <2>2 DEF Spaced
  <2> QED
    BY <2>1, <2>3
<1>10. \A d \in Islands : d >= n + Nc => q[d] = <<>>
  <2>1. ASSUME NEW d \in Islands, d >= n + Nc PROVE q[d] = <<>>
    <3>1. d \notin n..n + Nc - 1
      BY <1>2, <1>3, <2>1
    <3> QED
      BY <1>5, <1>7, <2>1, <3>1
  <2> QED
    BY <2>1
<1>11. (\A d \in Conts : Len(q[d]) = Sc) /\ \A h \in 0..group - 1 : Even(q, h)
  <2>1. \A d \in Islands : d < n => q[d] = isl[d]
    <3>1. ASSUME NEW d \in Islands, d < n PROVE q[d] = isl[d]
      <4>1. d \notin n..n + Nc - 1
        BY <1>2, <1>3, <3>1
      <4> QED
        BY <1>7, <4>1
    <3> QED
      BY <3>1
  <2> QED
    BY <1>1, <2>1, EarlierStay DEF n
<1>12. Even(q, group)
  <2>1. ASSUME NEW a \in Conts PROVE Len(q[n + a]) = size
    <3>1. n + a \in Islands
      BY <1>3
    <3>2. n + a \in n..n + Nc - 1
      BY <1>2, <1>3
    <3> QED
      BY <1>7, <3>1, <3>2
  <2>2. \A a \in Conts : Len(q[Nc + group * Nc + a]) = size
    BY <2>1 DEF n, First1
  <2> QED
    BY <2>2 DEF Even
<1>13. \A h \in 0..group' - 1 : Even(q, h)
  <2>1. \A h \in 0..group' - 1 : h \in 0..group - 1 \/ h = group
    BY <1>1, <1>3
  <2> QED
    BY <1>11, <1>12, <2>1
<1>14. FairTypes(phase', cap', q, xzone', group', j', secs', done', aborted')
  BY <1>1, <1>2, <1>3, <1>8 DEF FairSane, FairTypes, FairPhases
<1>15. Sizely(phase', q, group', j', secs', done')
  BY <1>1, <1>3, <1>10, <1>11, <1>13 DEF Sizely
<1>16. FairSane(phase', cap', q, xzone', group', j', secs', done', aborted')
  BY <1>1, <1>9, <1>14, <1>15 DEF FairSane
<1> QED
  BY <1>1, <1>16, SameOrder DEF q

-----------------------------------------------------------------------------
(* The theorems. *)

\* No step of fairland breaks the invariant.
LEMMA FairNextKeeps ==
  ASSUME HexAssumption, FairlandAssumption, FairInv, [FairNext]_fairVars
  PROVE  FairInv'
<1>1. CASE FairNext
  BY <1>1, DriftKeeps, CapitalsKeep, ContinentKeeps, ContinentsKeep, BordersKeep, GroupKeeps, PlaceKeeps,
     IslandKeeps, GroupDoneKeeps DEF FairNext
<1>2. CASE UNCHANGED fairVars
  <2>1. /\ phase' = phase /\ cap' = cap /\ isl' = isl /\ xzone' = xzone /\ group' = group /\ j' = j
        /\ secs' = secs /\ done' = done /\ aborted' = aborted /\ order' = order
    BY <1>2 DEF fairVars
  <2> QED
    BY <2>1, SameOrder DEF FairInv
<1> QED
  BY <1>1, <1>2

(***************************************************************************)
(* Wherever fairland.c is in its loops, its arrays are sane: every island  *)
(* is an array of sectors of its own, each of which is next to an earlier  *)
(* one, lands keep the distances asked for, lengths follow from the loops' *)
(* counters, and while anything grows every sector of the sea that is too  *)
(* near to an island is in that island's exclusive zone or in many.        *)
(***************************************************************************)
THEOREM FairlandIsSane == FairSpec => []FairInv
<1>1. FairInit => FairInv
  BY FairStarts, HexAssumption, FairlandAssumption
<1>2. FairInv /\ [FairNext]_fairVars => FairInv'
  BY FairNextKeeps, HexAssumption, FairlandAssumption
<1> QED
  BY <1>1, <1>2, PTL DEF FairSpec

\* The world is as the command line asks for, an assertion having failed or not.
LandAsAsked ==
  /\ \A c \in Islands : IsInjective(isl[c]) /\ Whole(c)
  /\ \A c, d \in Conts : c # d => Apart(c, d, Di)
  /\ \A c \in Conts, d \in Islands \ Conts : Apart(c, d, Id)
  /\ DistinctIslands => \A c, d \in Islands \ Conts : c # d => Apart(c, d, Id)
  /\ phase = "done" =>
       /\ \A c \in Conts : Len(isl[c]) = Sc
       /\ \A g \in 0..PerCont - 1 : \A a, b \in Conts : Len(isl[Nc + g * Nc + a]) = Len(isl[Nc + g * Nc + b])

\* It says what is asked of the land.
LEMMA SaneIsAsAsked ==
  ASSUME FairInv
  PROVE  LandAsAsked
<1>1. isl \in Archipelagos /\ Shapely(isl) /\ Spaced(isl) /\ Sizely(phase, isl, group, j, secs, done)
  BY DEF FairInv, FairSane, FairTypes
<1>2. ASSUME NEW c \in Islands PROVE IsInjective(isl[c]) /\ Whole(c)
  <2>1. isl[c] \in Seq(Hexes) /\ Linked(isl[c]) /\ IsInjective(isl[c])
    BY <1>1 DEF Archipelagos, Shapely
  <2> QED
    BY <2>1, LinkedIsWhole
<1>3. /\ \A c, d \in Conts : c # d => Apart(c, d, Di)
      /\ \A c \in Conts, d \in Islands \ Conts : Apart(c, d, Id)
      /\ DistinctIslands => \A c, d \in Islands \ Conts : c # d => Apart(c, d, Id)
  BY <1>1 DEF Spaced, Far, Apart
<1>4. ASSUME phase = "done"
      PROVE  /\ \A c \in Conts : Len(isl[c]) = Sc
             /\ \A g \in 0..PerCont - 1 : \A a, b \in Conts : Len(isl[Nc + g * Nc + a]) = Len(isl[Nc + g * Nc + b])
  BY <1>1, <1>4 DEF Sizely, Even
<1> QED
  BY <1>2, <1>3, <1>4 DEF LandAsAsked

(***************************************************************************)
(* Whatever is asked for, and however often fairland begins again, no land *)
(* overlaps or falls apart, all keep their distances, and in the end every *)
(* continent has its size and islands of the same sizes as the others.     *)
(***************************************************************************)
THEOREM LandIsAsAsked == FairSpec => []LandAsAsked
<1>1. FairInv => LandAsAsked
  BY SaneIsAsAsked
<1> QED
  BY <1>1, FairlandIsSane, PTL

(***************************************************************************)
(* Islands are no nearer to each other than continents may be, and each    *)
(* continent has one unless islands are kept distinct.  Else the assertion *)
(* of xzone_around_sector() fails in good worlds.                          *)
(***************************************************************************)
Modest == \A o \in Orders : o.id <= o.di /\ (o.distinct \/ o.ni = o.nc)

\* So all is apart when the zones are drawn again.
LEMMA DrawnApart ==
  ASSUME HexAssumption, FairlandAssumption, Modest, FairInv, phase = "zones", group # PerCont
  PROVE  AllApart
<1>1. order \in Orders /\ isl \in Archipelagos /\ group \in 0..PerCont /\ Spaced(isl)
      /\ \A c \in Islands : c >= First1(group) => isl[c] = <<>>
  BY DEF FairInv, FairSane, FairTypes, Sizely
<1>2. Id \in Nat /\ Di \in Nat /\ Id <= Di /\ (DistinctIslands \/ Ni = Nc) /\ Nc \in Nat \ {0} /\ Islands \subseteq Nat
      /\ Conts = 0..Nc - 1 /\ Conts \subseteq Islands
  BY <1>1, OrderIs DEF Modest, Id, Di, DistinctIslands, Ni, Nc, Conts
<1>3. \A c \in Islands : ToSet(isl[c]) \subseteq Hexes
  BY <1>1, LandIs
<1>4. \A s, t \in Hexes : MapDist[s][t] = MapDist[t][s] /\ MapDist[s][t] \in Int
  BY Distances
<1>5. ASSUME NEW c \in Conts, NEW d \in Conts, c # d PROVE Apart(c, d, Id)
  <2>1. \A s \in ToSet(isl[c]), t \in ToSet(isl[d]) : MapDist[s][t] > Di /\ MapDist[s][t] \in Int
    BY <1>1, <1>2, <1>3, <1>4, <1>5 DEF Spaced, Far
  <2> QED
    BY <1>2, <2>1 DEF Apart
<1>6. ASSUME NEW c \in Conts, NEW d \in Islands \ Conts PROVE Apart(c, d, Id) /\ Apart(d, c, Id)
  <2>1. \A s \in ToSet(isl[c]), t \in ToSet(isl[d]) : MapDist[s][t] > Id
    BY <1>1, <1>6 DEF Spaced, Far
  <2>2. \A s \in ToSet(isl[c]), t \in ToSet(isl[d]) : MapDist[s][t] = MapDist[t][s]
    BY <1>2, <1>3, <1>4
  <2> QED
    BY <2>1, <2>2 DEF Apart
<1>7. ASSUME NEW c \in Islands \ Conts, NEW d \in Islands \ Conts, c # d PROVE Apart(c, d, Id)
  <2>1. CASE DistinctIslands
    BY <1>1, <1>7, <2>1 DEF Spaced, Far, Apart
  <2>2. CASE ~DistinctIslands
    <3>1. Ni = Nc
      BY <1>2, <2>2
    <3>2. PerCont = 1
      <4>1. \A m \in Nat \ {0} : m \div m = 1
        BY SMT
      <4> QED
        BY <1>2, <3>1, <4>1 DEF PerCont
    <3>3. group = 0 /\ First1(0) = Nc
      BY <1>1, <3>2, Blocks
    <3>4. c >= Nc
      BY <1>2, <1>7
    <3>5. isl[c] = <<>>
      BY <1>1, <1>7, <3>3, <3>4
    <3> QED
      BY <3>5 DEF Apart, ToSet
  <2> QED
    BY <2>1, <2>2
<1> QED
  BY <1>5, <1>6, <1>7 DEF AllApart

\* In modest orders the zones are fine whenever they are drawn.
LEMMA NoAssertionFails ==
  ASSUME HexAssumption, FairlandAssumption, Modest, FairInv, ~aborted, [FairNext]_fairVars
  PROVE  ~aborted'
<1>1. CASE NextGroup
  <2>1. order \in Orders /\ isl \in Archipelagos /\ group \in 0..PerCont
    BY DEF FairInv, FairSane, FairTypes
  <2>2. CASE group = PerCont
    BY <1>1, <2>2 DEF NextGroup
  <2>3. CASE group # PerCont
    <3>1. AllApart
      BY <1>1, <2>3, DrawnApart DEF NextGroup
    <3>2. FirstOf \in Nat /\ FirstOf <= Nc + Ni
      <4>1. First1(group) \in Nc..Nc + Ni /\ Nc \in Nat /\ FirstOf = First1(group)
        BY <2>1, Blocks, OrderIs DEF First1, FirstOf
      <4> QED
        BY <4>1
    <3>3. Fine(XzoneInit(FirstOf))
      BY <2>1, <3>1, <3>2, ZonesAreDrawn DEF AllDrawn
    <3>4. aborted' = (aborted \/ ~XzoneInit(FirstOf).ok)
      BY <1>1, <2>3 DEF NextGroup
    <3> QED
      BY <3>3, <3>4 DEF Fine
  <2> QED
    BY <2>2, <2>3
<1>2. CASE ~NextGroup
  BY <1>2 DEF FairNext, fairVars, DriftEnds, DriftCapital, GrowCapitals, GrowContinent, ContinentsDone,
     BordersSearched, PlaceIsland, GrowIsland, GroupDone
<1> QED
  BY <1>1, <1>2

(***************************************************************************)
(* For modest orders the world is as asked and no assertion fails: the     *)
(* property of the run, for every size of the world and every order.       *)
(***************************************************************************)
THEOREM FairWorld == ASSUME Modest PROVE FairSpec => []WorldAsAsked
<1>1. FairInit => ~aborted
  BY DEF FairInit
<1>2. FairInv /\ ~aborted /\ [FairNext]_fairVars => ~aborted'
  BY NoAssertionFails, HexAssumption, FairlandAssumption
<1>3. FairInv /\ ~aborted => WorldAsAsked
  BY SaneIsAsAsked DEF WorldAsAsked, LandAsAsked
<1> QED
  BY <1>1, <1>2, <1>3, FairlandIsSane, PTL DEF FairSpec

-----------------------------------------------------------------------------
(* Drifting. *)

\* drift_capital() moves a capital to where it is no nearer to any other.
LEMMA CapitalDrifts ==
  ASSUME HexAssumption, FairlandAssumption, order \in Orders, cap \in [Conts -> Hexes],
         NEW c \in Conts, NEW s \in Hexes, AtLeastAsIsolated(c, s)
  PROVE  LeastDistance([cap EXCEPT ![c] = s]) >= LeastDistance(cap)
<1> DEFINE new == [cap EXCEPT ![c] = s]
           Pairs == {p \in Conts \X Conts : p[1] # p[2]}
           all == {WorldX + WorldY} \cup {MapDist[cap[p[1]]][cap[p[2]]] : p \in Pairs}
           all1 == {WorldX + WorldY} \cup {MapDist[new[p[1]]][new[p[2]]] : p \in Pairs}
           near(t) == {WorldX + WorldY} \cup {MapDist[cap[i]][t] : i \in Conts \ {c}}
<1>1. \A x, y \in Hexes : MapDist[x][y] \in Nat /\ MapDist[x][y] = MapDist[y][x]
  BY Distances
<1>2. WorldX + WorldY \in Nat
  BY DEF HexAssumption
<1>3. all \in SUBSET Nat /\ all # {} /\ all1 \in SUBSET Nat /\ all1 # {}
  BY <1>1, <1>2
<1>4. \A t \in Hexes : near(t) \in SUBSET Nat /\ near(t) # {} /\ Iso(c, t) = Min(near(t))
  BY <1>1, <1>2 DEF Iso
<1>5. LeastDistance(cap) = Min(all) /\ LeastDistance(new) = Min(all1)
  BY DEF LeastDistance
<1>6. cap[c] \in Hexes /\ new[c] = s /\ \A d \in Conts : d # c => new[d] = cap[d] /\ cap[d] \in Hexes
  OBVIOUS
<1> HIDE DEF new
<1>7. near(cap[c]) \subseteq all
  <2>1. ASSUME NEW i \in Conts \ {c} PROVE MapDist[cap[i]][cap[c]] \in all
    <3>1. <<i, c>> \in Pairs /\ <<i, c>>[1] = i /\ <<i, c>>[2] = c
      OBVIOUS
    <3> QED
      BY <3>1
  <2> QED
    BY <2>1
<1>8. \A t \in Hexes : Iso(c, t) \in near(t) /\ \A n \in near(t) : Iso(c, t) <= n
  <2>1. ASSUME NEW t \in Hexes PROVE Iso(c, t) \in near(t) /\ \A n \in near(t) : Iso(c, t) <= n
    <3> DEFINE S == near(t)
    <3>1. S \in SUBSET Nat /\ S # {} /\ Iso(c, t) = Min(S)
      BY <1>4
    <3> HIDE DEF S
    <3>2. Min(S) \in S /\ \A n \in S : Min(S) <= n
      BY <3>1, MinOfSome
    <3> QED
      BY <3>1, <3>2 DEF S
  <2> QED
    BY <2>1
<1>9. Min(all) \in all /\ Min(all1) \in all1 /\ \A n \in all : Min(all) <= n
  BY <1>3, MinOfSome
<1>10. Iso(c, cap[c]) \in all
  BY <1>6, <1>7, <1>8
<1>11. \A n \in near(s) : Min(all) <= n
  <2>1. ASSUME NEW n \in near(s) PROVE Min(all) <= n
    <3> HIDE DEF near, all
    <3>1. Iso(c, s) <= n /\ Iso(c, s) >= Iso(c, cap[c]) /\ Min(all) <= Iso(c, cap[c])
      BY <1>8, <1>9, <1>10, <2>1 DEF AtLeastAsIsolated
    <3>2. n \in Nat /\ Iso(c, s) \in Nat /\ Iso(c, cap[c]) \in Nat /\ Min(all) \in Nat
      BY <1>3, <1>4, <1>6, <1>8, <1>9, <2>1
    <3> QED
      BY <3>1, <3>2
  <2> QED
    BY <2>1
<1>12. ASSUME NEW m \in all1 PROVE m \in all \/ m \in near(s)
  <2>1. CASE m = WorldX + WorldY
    BY <2>1
  <2>2. CASE \E p \in Pairs : m = MapDist[new[p[1]]][new[p[2]]]
    <3>1. PICK p \in Pairs : m = MapDist[new[p[1]]][new[p[2]]]
      BY <2>2
    <3>2. p[1] \in Conts /\ p[2] \in Conts /\ p[1] # p[2]
      BY <3>1
    <3>3. CASE p[1] # c /\ p[2] # c
      <4>1. m = MapDist[cap[p[1]]][cap[p[2]]]
        BY <1>6, <3>1, <3>2, <3>3
      <4> QED
        BY <3>1, <4>1
    <3>4. CASE p[1] = c
      <4>1. m = MapDist[s][cap[p[2]]] /\ p[2] \in Conts \ {c}
        BY <1>6, <3>1, <3>2, <3>4
      <4>2. m = MapDist[cap[p[2]]][s]
        BY <1>1, <1>6, <4>1
      <4> QED
        BY <4>1, <4>2
    <3>5. CASE p[2] = c
      <4>1. m = MapDist[cap[p[1]]][s] /\ p[1] \in Conts \ {c}
        BY <1>6, <3>1, <3>2, <3>5
      <4> QED
        BY <4>1
    <3> QED
      BY <3>3, <3>4, <3>5
  <2> QED
    BY <2>1, <2>2
<1> HIDE DEF all, all1, near
<1>13. Min(all1) >= Min(all)
  <2>1. Min(all) <= Min(all1)
    BY <1>9, <1>11, <1>12
  <2>2. Min(all) \in Nat /\ Min(all1) \in Nat
    BY <1>3, <1>9
  <2> QED
    BY <2>1, <2>2
<1> QED
  BY <1>5, <1>13 DEF new

(***************************************************************************)
(* However the capitals drift, one at a time and each by where the others  *)
(* are then, the two that are closest never get closer.                    *)
(***************************************************************************)
THEOREM DriftNeverCrowds == FairSpec => DriftSpreads
<1>1. ASSUME FairInv, [FairNext]_fairVars
      PROVE  [(phase = "drift" /\ phase' = "drift" /\ try' = try) => LeastDistance(cap') >= LeastDistance(cap)]_fairVars
  <2>1. order \in Orders /\ cap \in [Conts -> Hexes] /\ j \in Conts
    BY <1>1 DEF FairInv, FairSane, FairTypes
  <2>2. SUFFICES ASSUME phase = "drift", phase' = "drift", try' = try, fairVars' # fairVars
                 PROVE  LeastDistance(cap') >= LeastDistance(cap)
    OBVIOUS
  <2>3. DriftCapital
    BY <1>1, <2>2 DEF FairNext, DriftEnds, GrowCapitals, GrowContinent, ContinentsDone,
       BordersSearched, NextGroup, PlaceIsland, GrowIsland, GroupDone
  <2>4. CASE cap' = cap
    <3>1. LeastDistance(cap) \in Nat
      <4> DEFINE all == {WorldX + WorldY} \cup
                   {MapDist[cap[p[1]]][cap[p[2]]] : p \in {p \in Conts \X Conts : p[1] # p[2]}}
      <4>1. all \in SUBSET Nat /\ all # {}
        <5>1. \A x, y \in Hexes : MapDist[x][y] \in Nat
          BY Distances, HexAssumption
        <5> QED
          BY <2>1, <5>1, HexAssumption DEF HexAssumption
      <4>2. LeastDistance(cap) = Min(all)
        BY DEF LeastDistance
      <4> HIDE DEF all
      <4> QED
        BY <4>1, <4>2, MinOfSome
    <3> QED
      BY <2>4, <3>1
  <2>5. CASE \E s \in Around(cap[j]) : AtLeastAsIsolated(j, s) /\ cap' = [cap EXCEPT ![j] = s]
    <3>1. PICK s \in Around(cap[j]) : AtLeastAsIsolated(j, s) /\ cap' = [cap EXCEPT ![j] = s]
      BY <2>5
    <3>2. s \in Hexes
      BY <2>1, NeighborsAreHexes, HexAssumption, FairlandAssumption DEF FairlandAssumption
    <3> QED
      BY <2>1, <3>1, <3>2, CapitalDrifts, HexAssumption, FairlandAssumption
  <2> QED
    BY <2>3, <2>4, <2>5 DEF DriftCapital
<1> QED
  BY <1>1, FairlandIsSane, PTL DEF FairSpec, DriftSpreads

-----------------------------------------------------------------------------
(***************************************************************************)
(* For any worlds: as long as the numbers of the sectors and units stay    *)
(* where they belong, deliveries and distribution move goods.              *)
(***************************************************************************)

\* A quotient is at most what its dividend is at most a multiple of.
LEMMA QuotientUpTo ==
  ASSUME NEW den \in Nat \ {0}, NEW x \in Int, NEW m \in Int, x <= m * den
  PROVE  x \div den \in Int /\ x \div den <= m
<1> DEFINE q == x \div den
<1>1. q \in Int /\ den * q <= x
  BY SMT
<1> HIDE DEF q
<1>2. SUFFICES ASSUME ~(q <= m) PROVE FALSE
  BY <1>1 DEF q
<1>3. den * q - den * m > 0 /\ den * m = m * den
  <2>1. q >= m + 1
    BY <1>1, <1>2
  <2>2. den * q >= den * (m + 1)
    <3>1. q - (m + 1) \in Nat
      BY <1>1, <2>1
    <3>2. den * (q - (m + 1)) \in Nat
      BY <3>1
    <3>3. den * (q - (m + 1)) = den * q - den * (m + 1)
      BY <1>1
    <3> QED
      BY <1>1, <3>2, <3>3
  <2>3. den * (m + 1) = den * m + den /\ den * m = m * den
    OBVIOUS
  <2> QED
    BY <1>1, <2>2, <2>3
<1> QED
  BY <1>1, <1>3

\* How much of something can be moved with what there is to pay for it.
LEMMA Affordable ==
  ASSUME NEW have \in Nat, NEW cost \in Int, NEW purse \in Nat, purse < cost * have
  PROVE  /\ purse \div cost \in Nat /\ purse \div cost < have /\ cost \in Nat
         /\ cost * (purse \div cost) <= purse
<1>1. cost > 0
  <2>1. SUFFICES ASSUME ~(cost > 0) PROVE FALSE
    OBVIOUS
  <2>2. -cost \in Nat
    BY <2>1
  <2>3. (-cost) * have \in Nat
    BY <2>2
  <2>4. (-cost) * have = -(cost * have)
    OBVIOUS
  <2> QED
    BY <2>3, <2>4
<1> DEFINE q == purse \div cost
<1>2. q \in Nat /\ cost * q <= purse
  BY <1>1, SMT
<1> HIDE DEF q
<1>3. q < have
  <2>1. SUFFICES ASSUME ~(q < have) PROVE FALSE
    OBVIOUS
  <2>2. q - have \in Nat
    BY <1>2, <2>1
  <2>3. cost * (q - have) \in Nat
    BY <1>1, <2>2
  <2>4. cost * (q - have) = cost * q - cost * have
    BY <1>2
  <2> QED
    BY <1>2, <2>3, <2>4
<1> QED
  BY <1>1, <1>2, <1>3 DEF q

\* Less of it costs no more.
LEMMA LessCostsLess ==
  ASSUME NEW cost \in Int, NEW can \in Nat, NEW amt \in Nat, amt <= can, NEW purse \in Nat, cost * can <= purse
  PROVE  cost * amt \in Int /\ cost * amt <= purse
<1>1. CASE cost <= 0
  <2>1. (-cost) * amt \in Nat /\ (-cost) * amt = -(cost * amt)
    BY <1>1
  <2> QED
    BY <2>1
<1>2. CASE cost > 0
  <2>1. cost * (can - amt) \in Nat /\ cost * (can - amt) = cost * can - cost * amt
    BY <1>2
  <2> QED
    BY <2>1
<1> QED
  BY <1>1, <1>2

\* The number of an item, by sector.
Column(ss, i) == [n \in 1..Size |-> ss[n].item[i]]

\* What there is of an item is the sum of its column.
LEMMA TotalIsSum ==
  ASSUME NEW ss, NEW i
  PROVE  Total(ss, i) = SumFunction(Column(ss, i))
<1> DEFINE f == Column(ss, i)
           S == 1..Size
           Goes(g) == g = [s \in SUBSET S |-> IF s = {} THEN 0 ELSE ss[Some(s)].item[i] + g[s \ {Some(s)}]]
           Adds(g) == g = [s \in SUBSET S |-> IF s = {} THEN 0 ELSE f[Some(s)] + g[s \ {Some(s)}]]
<1>1. Total(ss, i) = (CHOOSE g : Goes(g))[S]
  BY DEF Total, MapThenSumSet, MapThenFoldSet, Some
<1>2. SumFunction(f) = (CHOOSE g : Adds(g))[S]
  <2>1. DOMAIN f = S
    BY DEF Column
  <2> HIDE DEF f
  <2> QED
    BY <2>1 DEF SumFunction, SumFunctionOnSet, FoldFunctionOnSet, MapThenFoldSet, Some
<1>3. \A s \in SUBSET S : s # {} => f[Some(s)] = ss[Some(s)].item[i]
  <2> TAKE s \in SUBSET S
  <2> HAVE s # {}
  <2>1. Some(s) \in S
    BY DEF Some
  <2> QED
    BY <2>1 DEF Column
<1> HIDE DEF S, f
<1>4. \A g : Goes(g) <=> Adds(g)
  <2> TAKE g
  <2>1. [s \in SUBSET S |-> IF s = {} THEN 0 ELSE ss[Some(s)].item[i] + g[s \ {Some(s)}]]
        = [s \in SUBSET S |-> IF s = {} THEN 0 ELSE f[Some(s)] + g[s \ {Some(s)}]]
    BY <1>3
  <2> QED
    BY <2>1
<1>5. (CHOOSE g : Goes(g)) = (CHOOSE g : Adds(g))
  <2> HIDE DEF Goes, Adds
  <2> QED
    BY <1>4
<1> QED
  BY <1>1, <1>2, <1>5 DEF f

\* There are sectors, and not too many.
LEMMA SizeIs == Size \in Nat \ {0} /\ IsFiniteSet(1..Size)
<1>1. Size \in Nat \ {0}
  BY SizeAssumption DEF SizeAssumption
<1> QED
  BY <1>1, FS_Interval

\* Where goods go from one sector to another, there are as many as before.
LEMMA SameTotal ==
  ASSUME NEW ss, NEW tt, NEW a \in 1..Size, NEW b \in 1..Size, NEW amt \in Int, NEW i,
         \A n \in 1..Size : ss[n].item[i] \in Int,
         \A n \in 1..Size : tt[n].item[i] = ss[n].item[i] - (IF n = a THEN amt ELSE 0) + (IF n = b THEN amt ELSE 0)
  PROVE  Total(tt, i) = Total(ss, i)
<1> DEFINE f == Column(ss, i)
           g == [f EXCEPT ![a] = @ - amt]
           h == Column(tt, i)
<1>1. IsFiniteSet(1..Size) /\ f \in [1..Size -> Int] /\ g \in [1..Size -> Int] /\ h \in [1..Size -> Int]
  <2>1. IsFiniteSet(1..Size)
    BY SizeIs
  <2>2. f \in [1..Size -> Int]
    BY DEF Column
  <2>3. h \in [1..Size -> Int]
    <3>1. \A n \in 1..Size : tt[n].item[i] \in Int
      OBVIOUS
    <3> QED
      BY <3>1 DEF Column
  <2> HIDE DEF f
  <2> QED
    BY <2>1, <2>2, <2>3
<1>2. g[a] = f[a] - amt /\ \A n \in 1..Size \ {a} : g[n] = f[n]
  BY <1>1
<1>3. h[b] = g[b] + amt /\ \A n \in 1..Size \ {b} : h[n] = g[n]
  BY <1>1 DEF Column
<1> HIDE DEF f, g, h
<1>4. /\ SumFunction(f) \in Int /\ SumFunction(g) \in Int
      /\ SumFunction(g) = SumFunction(f) - (IF a \in DOMAIN f THEN f[a] ELSE 0)
                                         + (IF a \in DOMAIN g THEN g[a] ELSE 0)
  <2>1. DOMAIN f = 1..Size /\ DOMAIN g = 1..Size /\ (\A n \in 1..Size : f[n] \in Int /\ g[n] \in Int)
    BY <1>1
  <2>2. DOMAIN f \ {a} = DOMAIN g \ {a} /\ \A n \in DOMAIN f \ {a} : f[n] = g[n]
    BY <1>2, <2>1
  <2>3. /\ IsFiniteSet(DOMAIN f) /\ IsFiniteSet(DOMAIN g)
        /\ \A n \in DOMAIN f : f[n] \in Int
        /\ \A n \in DOMAIN g : g[n] \in Int
    BY <1>1, <2>1
  <2> QED
    BY <2>2, <2>3, SumDiffersAt
<1>5. /\ SumFunction(h) \in Int
      /\ SumFunction(h) = SumFunction(g) - (IF b \in DOMAIN g THEN g[b] ELSE 0)
                                         + (IF b \in DOMAIN h THEN h[b] ELSE 0)
  <2>1. DOMAIN h = 1..Size /\ DOMAIN g = 1..Size /\ (\A n \in 1..Size : h[n] \in Int /\ g[n] \in Int)
    BY <1>1
  <2>2. DOMAIN g \ {b} = DOMAIN h \ {b} /\ \A n \in DOMAIN g \ {b} : g[n] = h[n]
    BY <1>3, <2>1
  <2>3. /\ IsFiniteSet(DOMAIN g) /\ IsFiniteSet(DOMAIN h)
        /\ \A n \in DOMAIN g : g[n] \in Int
        /\ \A n \in DOMAIN h : h[n] \in Int
    BY <1>1, <2>1
  <2> QED
    BY <2>2, <2>3, SumDiffersAt
<1>6. SumFunction(h) = SumFunction(f)
  <2>1. a \in DOMAIN f /\ a \in DOMAIN g /\ b \in DOMAIN g /\ b \in DOMAIN h
    BY <1>1
  <2>2. f[a] \in Int /\ g[a] \in Int /\ g[b] \in Int /\ h[b] \in Int
    BY <1>1
  <2> QED
    BY <1>2, <1>3, <1>4, <1>5, <2>1, <2>2
<1> QED
  BY <1>6, TotalIsSum DEF f, h

-----------------------------------------------------------------------------
\* Numbers are where they belong, as far as goods and mobility go.
Counted(ss) == \A n \in 1..Size : /\ ss[n].item \in [Items -> 0..ITEM_MAX]
                                  /\ ss[n].mob \in Int /\ ss[n].eff \in Int

\* What sectors may come to be while goods are moved, and what they may not:
\* if people must stay, then no sector loses its last.
Contents == (UNION {{sect[n][f] : f \in Marks} : n \in 1..Size})
           \cup [Items -> 0..ITEM_MAX] \cup Int \cup {"exposed", FALSE}
Stocked(s, t) ==
    /\ s.item \in [Items -> 0..ITEM_MAX] /\ s.mob \in Int
    /\ s.eff = t.eff /\ s.del = t.del /\ s.dist = t.dist /\ s.distTo = t.distTo
    /\ s.mob < t.mob => s.mob >= 0
Shipped(stay) ==
    {ss \in [1..Size -> [Marks -> Contents]] :
        /\ \A n \in 1..Size : Stocked(ss[n], sect[n])
        /\ \A i \in Items : Total(ss, i) = Total(sect, i)
        /\ stay => \A n \in 1..Size : Held(sect[n]) => Held(ss[n])}

\* The items are those of the list.
LEMMA ItemsAre ==
  /\ Items = {"civ", "mil", "iron", "dust", "bar", "food", "oil", "lcm", "uw"}
  /\ ItemOrder \in Seq(Items) /\ Len(ItemOrder) = 9 /\ DOMAIN ItemOrder = 1..9
<1>1. /\ DOMAIN ItemOrder = 1..9 /\ ItemOrder[1] = "civ" /\ ItemOrder[2] = "mil" /\ ItemOrder[3] = "iron"
      /\ ItemOrder[4] = "dust" /\ ItemOrder[5] = "bar" /\ ItemOrder[6] = "food" /\ ItemOrder[7] = "oil"
      /\ ItemOrder[8] = "lcm" /\ ItemOrder[9] = "uw"
  BY DEF ItemOrder
<1>2. 1..9 = {1, 2, 3, 4, 5, 6, 7, 8, 9}
  OBVIOUS
<1>3. Items = {"civ", "mil", "iron", "dust", "bar", "food", "oil", "lcm", "uw"}
  BY <1>1, <1>2 DEF Items, ToSet
<1>4. ItemOrder \in Seq(Items) /\ Len(ItemOrder) = 9
  BY <1>3 DEF ItemOrder
<1> QED
  BY <1>1, <1>3, <1>4

\* A sector has room for some goods of each kind.
LEMMA MostIs == ITEM_MAX \in Nat
BY DEF ITEM_MAX

\* What a sector may contain.
LEMMA ContentsHold ==
  /\ [Items -> 0..ITEM_MAX] \subseteq Contents /\ Int \subseteq Contents
  /\ {"exposed", FALSE} \subseteq Contents
  /\ \A n \in 1..Size : \A f \in Marks : sect[n][f] \in Contents
<1> DEFINE U == UNION {{sect[n][f] : f \in Marks} : n \in 1..Size}
<1>1. \A n \in 1..Size : \A f \in Marks : sect[n][f] \in U
  <2> TAKE n \in 1..Size
  <2>1. {sect[n][f] : f \in Marks} \in {{sect[m][f] : f \in Marks} : m \in 1..Size}
    OBVIOUS
  <2>2. \A f \in Marks : sect[n][f] \in {sect[n][g] : g \in Marks}
    OBVIOUS
  <2> QED
    BY <2>1, <2>2
<1> HIDE DEF U
<1>2. Contents = U \cup [Items -> 0..ITEM_MAX] \cup Int \cup {"exposed", FALSE}
  BY DEF Contents, U
<1> QED
  BY <1>1, <1>2, Zenon

\* Goods that there are go where there is room for them.
LEMMA GoodsGo ==
  ASSUME NEW stay \in BOOLEAN, NEW ss \in Shipped(stay),
         NEW a \in 1..Size, NEW b \in 1..Size, NEW i \in Items,
         NEW amt \in Nat, amt <= ss[a].item[i], a # b => ss[b].item[i] + amt <= ITEM_MAX,
         NEW mob \in Nat, NEW pst \in Contents,
         stay => a # b /\ (ss[a].item[i] - amt > 0 \/ i \notin {"civ", "mil"} \/ (i = "mil" /\ ss[a].item.civ > 0))
  PROVE  Ship(ss, a, b, i, amt, mob, pst) \in Shipped(stay)
<1> DEFINE tt == Ship(ss, a, b, i, amt, mob, pst)
           it(n) == [k \in Items |-> ss[n].item[k] - (IF n = a /\ k = i THEN amt ELSE 0)
                                                  + (IF n = b /\ k = i THEN amt ELSE 0)]
<1>1. /\ ss \in [1..Size -> [Marks -> Contents]]
      /\ \A n \in 1..Size : Stocked(ss[n], sect[n]) /\ ss[n] \in [Marks -> Contents]
      /\ \A k \in Items : Total(ss, k) = Total(sect, k)
      /\ stay => \A n \in 1..Size : Held(sect[n]) => Held(ss[n])
  BY DEF Shipped
<1>2. {"item", "mob", "pst", "eff", "del", "dist", "distTo"} \subseteq Marks
  BY DEF Marks
<1>3. \A n \in 1..Size : ss[n].item \in [Items -> 0..ITEM_MAX]
  BY <1>1 DEF Stocked
<1>4. \A n \in 1..Size : it(n) \in [Items -> 0..ITEM_MAX]
  <2> TAKE n \in 1..Size
  <2>1. ASSUME NEW k \in Items PROVE it(n)[k] \in 0..ITEM_MAX
    <3>1. ss[n].item[k] \in 0..ITEM_MAX
      BY <1>3
    <3>2. CASE k # i \/ (n # a /\ n # b)
      BY <3>1, <3>2, MostIs
    <3>3. CASE k = i /\ n = a /\ n = b
      BY <3>1, <3>3, MostIs
    <3>4. CASE k = i /\ n = a /\ n # b
      BY <3>1, <3>4, MostIs
    <3>5. CASE k = i /\ n # a /\ n = b
      BY <3>1, <3>5, MostIs
    <3> QED
      BY <3>2, <3>3, <3>4, <3>5
  <2> QED
    BY <2>1
<1> DEFINE xa == [ss[a].item EXCEPT ![i] = @ - amt]
           ra == [ss[a] EXCEPT !.item = xa, !.mob = mob]
           v  == [ss EXCEPT ![a].item[i] = @ - amt, ![a].mob = mob]
           xb == [v[b].item EXCEPT ![i] = @ + amt]
           rb == [v[b] EXCEPT !.item = xb, !.pst = pst]
<1>5. tt = [v EXCEPT ![b].item[i] = @ + amt, ![b].pst = pst]
  BY DEF Ship
<1>6. /\ v \in [1..Size -> [Marks -> Contents]]
      /\ \A n \in 1..Size : v[n] = IF n = a THEN ra ELSE ss[n]
  <2>1. xa \in [Items -> 0..ITEM_MAX]
    <3>1. ss[a].item[i] \in 0..ITEM_MAX
      BY <1>3
    <3>2. ss[a].item[i] - amt \in 0..ITEM_MAX
      BY <3>1, MostIs
    <3> QED
      BY <1>3, <3>2
  <2>2. xa \in Contents /\ mob \in Contents
    <3> HIDE DEF xa
    <3> QED
      BY <2>1, ContentsHold
  <2>3. ss[a] \in [Marks -> Contents]
    BY <1>1
  <2>4. ra \in [Marks -> Contents]
    <3> HIDE DEF xa
    <3> QED
      BY <2>2, <2>3
  <2>5. v = [ss EXCEPT ![a] = ra]
    OBVIOUS
  <2> HIDE DEF ra, v
  <2> QED
    BY <1>1, <2>4, <2>5
<1>7. /\ ra.item = xa /\ ra.mob = mob
      /\ ra.eff = ss[a].eff /\ ra.del = ss[a].del /\ ra.dist = ss[a].dist /\ ra.distTo = ss[a].distTo
  <2>1. ss[a] \in [Marks -> Contents]
    BY <1>1
  <2> HIDE DEF xa
  <2> QED
    BY <1>2, <2>1
<1> HIDE DEF v, ra
<1>8. v[b].item \in [Items -> 0..ITEM_MAX] /\ v[b].item[i] + amt \in 0..ITEM_MAX
  <2>1. CASE a = b
    <3>1. v[b].item = [ss[a].item EXCEPT ![i] = @ - amt]
      BY <1>6, <1>7, <2>1
    <3>2. ss[a].item[i] \in 0..ITEM_MAX /\ ss[a].item \in [Items -> 0..ITEM_MAX]
      BY <1>3
    <3>3. v[b].item[i] = ss[a].item[i] - amt /\ v[b].item[i] \in 0..ITEM_MAX
      BY <3>1, <3>2, MostIs
    <3>4. v[b].item \in [Items -> 0..ITEM_MAX]
      BY <3>1, <3>2, <3>3
    <3> QED
      BY <3>2, <3>3, <3>4, MostIs
  <2>2. CASE a # b
    <3>1. v[b].item = ss[b].item
      BY <1>6, <2>2
    <3>2. ss[b].item[i] \in 0..ITEM_MAX /\ ss[b].item \in [Items -> 0..ITEM_MAX]
      BY <1>3
    <3> QED
      BY <2>2, <3>1, <3>2, MostIs
  <2> QED
    BY <2>1, <2>2
<1>9. /\ tt \in [1..Size -> [Marks -> Contents]]
      /\ \A n \in 1..Size : tt[n] = IF n = b THEN rb ELSE v[n]
  <2>1. xb \in [Items -> 0..ITEM_MAX]
    BY <1>8
  <2>2. xb \in Contents
    BY <2>1, ContentsHold
  <2>3. v[b] \in [Marks -> Contents]
    BY <1>6
  <2>4. rb \in [Marks -> Contents]
    <3> HIDE DEF xb
    <3> QED
      BY <2>2, <2>3
  <2>5. tt = [v EXCEPT ![b] = rb]
    BY <1>5
  <2> HIDE DEF rb, tt
  <2> QED
    BY <1>6, <2>4, <2>5
<1>10. /\ rb.item = xb /\ rb.mob = v[b].mob
       /\ rb.eff = v[b].eff /\ rb.del = v[b].del /\ rb.dist = v[b].dist /\ rb.distTo = v[b].distTo
  <2>1. v[b] \in [Marks -> Contents]
    BY <1>6
  <2> HIDE DEF xb
  <2> QED
    BY <1>2, <2>1
<1> HIDE DEF tt, rb
<1>11. \A n \in 1..Size :
        /\ tt[n].item = it(n) /\ tt[n].mob = (IF n = a THEN mob ELSE ss[n].mob)
        /\ tt[n].eff = ss[n].eff /\ tt[n].del = ss[n].del /\ tt[n].dist = ss[n].dist /\ tt[n].distTo = ss[n].distTo
  <2> TAKE n \in 1..Size
  <2> HIDE DEF xa, xb
  <2>1. /\ v[n].item = (IF n = a THEN xa ELSE ss[n].item) /\ v[n].mob = (IF n = a THEN mob ELSE ss[n].mob)
        /\ v[n].eff = ss[n].eff /\ v[n].del = ss[n].del /\ v[n].dist = ss[n].dist /\ v[n].distTo = ss[n].distTo
    BY <1>6, <1>7
  <2>2. /\ tt[n].item = (IF n = b THEN xb ELSE v[n].item) /\ tt[n].mob = v[n].mob
        /\ tt[n].eff = v[n].eff /\ tt[n].del = v[n].del /\ tt[n].dist = v[n].dist /\ tt[n].distTo = v[n].distTo
    BY <1>9, <1>10
  <2>3. tt[n].item = it(n)
    <3>1. ss[n].item \in [Items -> 0..ITEM_MAX] /\ \A k \in Items : ss[n].item[k] \in Int
      <4>1. ss[n].item \in [Items -> 0..ITEM_MAX]
        BY <1>3
      <4> QED
        BY <4>1, MostIs
    <3>2. v[n].item = [k \in Items |-> ss[n].item[k] - (IF n = a /\ k = i THEN amt ELSE 0)]
      <4>1. CASE n = a
        <5>1. v[n].item = [ss[n].item EXCEPT ![i] = @ - amt]
          BY <2>1, <4>1 DEF xa
        <5> QED
          BY <3>1, <4>1, <5>1
      <4>2. CASE n # a
        BY <2>1, <3>1, <4>2
      <4> QED
        BY <4>1, <4>2
    <3>3. \A k \in Items : v[n].item[k] \in Int
      BY <3>1, <3>2
    <3>4. CASE n = b
      <4>1. tt[n].item = [v[n].item EXCEPT ![i] = @ + amt]
        BY <2>2, <3>4 DEF xb
      <4>2. tt[n].item = [k \in Items |-> v[n].item[k] + (IF k = i THEN amt ELSE 0)]
        BY <3>2, <3>3, <4>1
      <4> QED
        BY <3>1, <3>2, <3>4, <4>2
    <3>5. CASE n # b
      <4>1. tt[n].item = [k \in Items |-> ss[n].item[k] - (IF n = a /\ k = i THEN amt ELSE 0)]
        BY <2>2, <3>2, <3>5
      <4> QED
        BY <3>1, <3>5, <4>1
    <3> QED
      BY <3>4, <3>5
  <2> HIDE DEF it
  <2> QED
    BY <2>1, <2>2, <2>3
<1>12. \A n \in 1..Size : Stocked(tt[n], sect[n])
  <2> TAKE n \in 1..Size
  <2> HIDE DEF it
  <2>1. it(n) \in [Items -> 0..ITEM_MAX] /\ Stocked(ss[n], sect[n])
    BY <1>1, <1>4
  <2>2. tt[n].item \in [Items -> 0..ITEM_MAX]
    BY <1>11, <2>1
  <2>3. tt[n].mob \in Int /\ (tt[n].mob < sect[n].mob => tt[n].mob >= 0)
    <3>1. tt[n].mob = mob \/ tt[n].mob = ss[n].mob
      BY <1>11
    <3> QED
      BY <2>1, <3>1 DEF Stocked
  <2>4. /\ tt[n].eff = sect[n].eff /\ tt[n].del = sect[n].del /\ tt[n].dist = sect[n].dist
        /\ tt[n].distTo = sect[n].distTo
    BY <1>11, <2>1 DEF Stocked
  <2> QED
    BY <2>2, <2>3, <2>4 DEF Stocked
<1>13. ASSUME NEW k \in Items PROVE Total(tt, k) = Total(sect, k)
  <2> DEFINE x == IF k = i THEN amt ELSE 0
  <2>1. \A n \in 1..Size : ss[n].item[k] \in Int
    BY <1>3, MostIs
  <2>2. \A n \in 1..Size : tt[n].item[k] = ss[n].item[k] - (IF n = a THEN x ELSE 0) + (IF n = b THEN x ELSE 0)
    <3> TAKE n \in 1..Size
    <3>1. tt[n].item = it(n)
      BY <1>11
    <3> QED
      BY <3>1
  <2>3. x \in Int
    OBVIOUS
  <2> HIDE DEF x
  <2>4. Total(tt, k) = Total(ss, k)
    <3> HIDE DEF it
    <3> QED
      BY <2>1, <2>2, <2>3, SameTotal
  <2> QED
    BY <1>1, <2>4
<1>14. ASSUME stay, NEW n \in 1..Size, Held(sect[n]) PROVE Held(tt[n])
  <2>1. {"civ", "mil"} \subseteq Items
    BY ItemsAre
  <2>2. /\ ss[n].item.civ \in 0..ITEM_MAX /\ ss[n].item.mil \in 0..ITEM_MAX
        /\ ss[n].item.civ + ss[n].item.mil > 0
    BY <1>1, <1>3, <1>14, <2>1 DEF Held
  <2>3. /\ tt[n].item.civ = ss[n].item.civ - (IF n = a /\ i = "civ" THEN amt ELSE 0)
                                            + (IF n = b /\ i = "civ" THEN amt ELSE 0)
        /\ tt[n].item.mil = ss[n].item.mil - (IF n = a /\ i = "mil" THEN amt ELSE 0)
                                            + (IF n = b /\ i = "mil" THEN amt ELSE 0)
    <3>1. tt[n].item = it(n)
      BY <1>11, <1>14
    <3>2. it(n)["civ"] = ss[n].item["civ"] - (IF n = a /\ "civ" = i THEN amt ELSE 0)
                                           + (IF n = b /\ "civ" = i THEN amt ELSE 0)
      BY <2>1
    <3>3. it(n)["mil"] = ss[n].item["mil"] - (IF n = a /\ "mil" = i THEN amt ELSE 0)
                                           + (IF n = b /\ "mil" = i THEN amt ELSE 0)
      BY <2>1
    <3> HIDE DEF it
    <3> QED
      BY <3>1, <3>2, <3>3
  <2>4. a # b /\ (ss[a].item[i] - amt > 0 \/ i \notin {"civ", "mil"} \/ (i = "mil" /\ ss[a].item.civ > 0))
    BY <1>14
  <2>5. tt[n].item.civ + tt[n].item.mil > 0
    <3>1. CASE n # a
      BY <2>2, <2>3, <3>1, MostIs
    <3>2. CASE n = a /\ i \notin {"civ", "mil"}
      BY <2>2, <2>3, <3>2, MostIs
    <3>3. CASE n = a /\ i = "civ"
      BY <2>2, <2>3, <2>4, <3>3, MostIs
    <3>4. CASE n = a /\ i = "mil"
      BY <2>2, <2>3, <2>4, <3>4, MostIs
    <3> QED
      BY <3>1, <3>2, <3>3, <3>4
  <2> QED
    BY <2>5 DEF Held
<1> QED
  BY <1>9, <1>12, <1>13, <1>14 DEF Shipped, tt

-----------------------------------------------------------------------------
\* What it costs to enter a sector and to pack goods is a number.
LEMMA CostIsInt ==
  ASSUME NEW s, s.eff \in Int
  PROVE  MoveCost(s) \in Int
BY DEF MoveCost

\* Goods are packed by one, two, four, five or ten.
LEMMA PackIs ==
  ASSUME NEW i, NEW s
  PROVE  Pack(i, s) \in {1, 2, 4, 5, 10}
<1>1. CASE s.eff < 60
  BY <1>1 DEF Pack
<1>2. CASE ~(s.eff < 60) /\ i = "civ"
  BY <1>2 DEF Pack
<1>3. CASE ~(s.eff < 60) /\ i # "civ" /\ s.type = "harbor" /\ i # "mil"
  BY <1>3 DEF Pack
<1>4. CASE ~(s.eff < 60) /\ i # "civ" /\ ~(s.type = "harbor" /\ i # "mil") /\ s.type = "bank" /\ i = "bar"
  BY <1>4 DEF Pack
<1>5. CASE ~(s.eff < 60) /\ i # "civ" /\ ~(s.type = "harbor" /\ i # "mil") /\ ~(s.type = "bank" /\ i = "bar")
  BY <1>5 DEF Pack
<1> QED
  BY <1>1, <1>2, <1>3, <1>4, <1>5

\* Goods weigh something, or nothing.
LEMMA PoundsAre ==
  ASSUME NEW i \in Items
  PROVE  Pounds[i] \in Nat
BY DEF Pounds

\* The dearer of two packings.
LEMMA PacksAre ==
  ASSUME NEW i, NEW s, NEW t
  PROVE  Max({Pack(i, s), Pack(i, t)}) \in {1, 2, 4, 5, 10}
<1> DEFINE p == Pack(i, s)  q == Pack(i, t)
<1>1. p \in {1, 2, 4, 5, 10} /\ q \in {1, 2, 4, 5, 10}
  BY PackIs
<1> HIDE DEF p, q
<1>2. \E x \in {p, q} : \A y \in {p, q} : x >= y
  <2>1. CASE p >= q
    BY <1>1, <2>1
  <2>2. CASE ~(p >= q)
    BY <1>1, <2>2
  <2> QED
    BY <2>1, <2>2
<1>3. Max({p, q}) \in {p, q}
  BY <1>2 DEF Max
<1> QED
  BY <1>1, <1>3 DEF p, q

\* So is what it costs to go from a sector to its center.
LEMMA PathIsInt ==
  ASSUME NEW n \in 1..Size, sect[n].distTo \in 1..Size, \A m \in 1..Size : sect[m].eff \in Int
  PROVE  PathCost(n) \in Int /\ (PathCost(n) >= 0 => sect[n].distTo # n)
<1> DEFINE d == sect[n].distTo
           way == IF d < n THEN (d + 1)..n ELSE n..(d - 1)
           f == [m \in way |-> MoveCost(sect[m])]
           Goes(g) == g = [s \in SUBSET way |-> IF s = {} THEN 0
                                                ELSE MoveCost(sect[Some(s)]) + g[s \ {Some(s)}]]
           Adds(g) == g = [s \in SUBSET way |-> IF s = {} THEN 0 ELSE f[Some(s)] + g[s \ {Some(s)}]]
<1>1. IsFiniteSet(way) /\ way \subseteq 1..Size
  <2>1. d \in Int /\ n \in Int /\ d + 1 \in Int /\ d - 1 \in Int
    BY SizeIs
  <2>2. IsFiniteSet((d + 1)..n) /\ IsFiniteSet(n..(d - 1))
    <3> HIDE DEF d
    <3> QED
      BY <2>1, FS_Interval
  <2>3. way \subseteq 1..Size
    <3>1. d \in 1..Size
      OBVIOUS
    <3> HIDE DEF d
    <3> QED
      BY <3>1, SizeIs
  <2> QED
    BY <2>2, <2>3
<1> HIDE DEF way
<1>2. \A x \in way : f[x] \in Int
  <2> TAKE x \in way
  <2>1. sect[x].eff \in Int
    BY <1>1
  <2>2. MoveCost(sect[x]) \in Int
    BY <2>1, CostIsInt
  <2> QED
    BY <2>2
<1>3. MapThenSumSet(LAMBDA m : MoveCost(sect[m]), way) = (CHOOSE g : Goes(g))[way]
  BY DEF MapThenSumSet, MapThenFoldSet, Some
<1>4. SumFunctionOnSet(f, way) = (CHOOSE g : Adds(g))[way]
  <2> HIDE DEF f
  <2> QED
    BY DEF SumFunctionOnSet, FoldFunctionOnSet, MapThenFoldSet, Some
<1>5. \A s \in SUBSET way : s # {} => f[Some(s)] = MoveCost(sect[Some(s)])
  <2> TAKE s \in SUBSET way
  <2> HAVE s # {}
  <2>1. Some(s) \in way
    BY DEF Some
  <2> QED
    BY <2>1
<1> HIDE DEF f
<1>6. \A g : Goes(g) <=> Adds(g)
  <2> TAKE g
  <2>1. [s \in SUBSET way |-> IF s = {} THEN 0 ELSE MoveCost(sect[Some(s)]) + g[s \ {Some(s)}]]
        = [s \in SUBSET way |-> IF s = {} THEN 0 ELSE f[Some(s)] + g[s \ {Some(s)}]]
    BY <1>5
  <2> QED
    BY <2>1
<1>7. (CHOOSE g : Goes(g)) = (CHOOSE g : Adds(g))
  <2> HIDE DEF Goes, Adds
  <2> QED
    BY <1>6
<1>8. MapThenSumSet(LAMBDA m : MoveCost(sect[m]), way) \in Int
  <2>1. SumFunctionOnSet(f, way) \in Int
    BY <1>1, <1>2, SumLessOne
  <2> HIDE DEF Goes, Adds
  <2> QED
    BY <1>3, <1>4, <1>7, <2>1
<1>9. PathCost(n) = IF d = n \/ {m \in way : sect[m].own # sect[d].own \/ MoveCost(sect[m]) < 0} # {} THEN -1
                    ELSE MapThenSumSet(LAMBDA m : MoveCost(sect[m]), way)
  BY DEF PathCost, way
<1> DEFINE sum == MapThenSumSet(LAMBDA m : MoveCost(sect[m]), way)
           barred == {m \in way : sect[m].own # sect[d].own \/ MoveCost(sect[m]) < 0} # {}
<1> HIDE DEF sum, barred
<1>10. PathCost(n) = IF d = n \/ barred THEN -1 ELSE sum
  BY <1>9 DEF sum, barred
<1>11. sum \in Int
  BY <1>8 DEF sum
<1> QED
  BY <1>10, <1>11

-----------------------------------------------------------------------------
\* Where goods are about to be moved: the sectors are in order.
Ready == Sectors(sect) /\ Counted(sect)

\* What is so while they are.
LEMMA OnTheMove ==
  ASSUME Ready, NEW stay \in BOOLEAN, NEW ss \in Shipped(stay), NEW n \in 1..Size
  PROVE  /\ ss[n].item \in [Items -> 0..ITEM_MAX] /\ ss[n].mob \in Int /\ ss[n].eff \in Int
         /\ \A i \in Items : ss[n].item[i] \in Nat /\ ITEM_MAX - ss[n].item[i] \in Nat
         /\ ss[n].del = sect[n].del /\ ss[n].dist = sect[n].dist /\ ss[n].distTo = sect[n].distTo
         /\ \A i \in DOMAIN ss[n].del : ss[n].del[i].to \in 1..Size /\ ss[n].del[i].thresh \in Nat
         /\ \A i \in DOMAIN ss[n].dist : ss[n].dist[i] \in 1..ITEM_MAX
         /\ ss[n].distTo \in 1..Size /\ ss[n].pst \in Contents
<1>1. Stocked(ss[n], sect[n]) /\ ss[n] \in [Marks -> Contents]
  BY DEF Shipped
<1>2. Ordered(sect[n]) /\ sect[n].eff \in Int
  BY DEF Ready, Sectors, Counted
<1>3. ss[n].item \in [Items -> 0..ITEM_MAX] /\ ss[n].mob \in Int /\ ss[n].eff \in Int
  BY <1>1, <1>2 DEF Stocked
<1>4. \A i \in Items : ss[n].item[i] \in Nat /\ ITEM_MAX - ss[n].item[i] \in Nat
  BY <1>3, MostIs
<1>5. ss[n].del = sect[n].del /\ ss[n].dist = sect[n].dist /\ ss[n].distTo = sect[n].distTo
  BY <1>1 DEF Stocked
<1>6. ss[n].pst \in Contents
  BY <1>1 DEF Marks
<1> QED
  BY <1>2, <1>3, <1>4, <1>5, <1>6 DEF Ordered

\* A sector has a stage of the plague, whether or not goods bring it there.
LEMMA CatchIs ==
  ASSUME NEW s, s.pst \in Contents, NEW from
  PROVE  Catch(s, from) \in Contents
<1>1. "exposed" \in Contents
  BY ContentsHold
<1> QED
  BY <1>1 DEF Catch

\* A delivery moves goods.
LEMMA DeliveryMoves ==
  ASSUME Ready, NEW ss \in Shipped(FALSE), NEW n \in 1..Size, NEW i \in Items, NEW plague,
         i \in DOMAIN sect[n].del, ss[n].mob > 0
  PROVE  Deliver(ss, n, i, plague) \in Shipped(FALSE)
<1> DEFINE from == ss[n]
           b == from.del[i].to
           to == ss[b]
           spare == from.item[i] - from.del[i].thresh
           stay == i = "civ" \/ (i = "mil" /\ to.item.civ = 0)
           cost == MoveCost(to) * Pounds[i]
           den  == 4000 * Pack(i, from)
           want == IF stay THEN spare - 1 ELSE spare
           purse == (from.mob \div 2) * den
           short == purse < cost * want
           can  == IF short THEN purse \div cost ELSE want
           amt  == Cap(can, ITEM_MAX - to.item[i])
           mob  == Floor0(from.mob - (cost * amt) \div den)
           barred == \/ spare <= 0 \/ ~MilitaryControl(n) \/ to.own # from.own
                     \/ i = "civ" /\ (from.own # from.oldown \/ to.own # to.oldown)
                     \/ short /\ can <= 0
<1>1. Deliver(ss, n, i, plague) = IF barred THEN ss ELSE Ship(ss, n, b, i, amt, mob, Catch(to, plague))
  BY DEF Deliver
<1>2. CASE barred
  <2> HIDE DEF barred, amt, mob, to, b
  <2> QED
    BY <1>1, <1>2
<1>3. CASE ~barred
  <2>1. b \in 1..Size /\ from.del[i].thresh \in Nat /\ from.mob \in Int /\ from.eff \in Int
        /\ from.item[i] \in Nat
    BY OnTheMove
  <2>2. to.eff \in Int /\ to.item[i] \in Nat /\ ITEM_MAX - to.item[i] \in Nat /\ to.pst \in Contents
    <3> HIDE DEF b
    <3> QED
      BY <2>1, OnTheMove
  <2>3. spare > 0 /\ ~(short /\ can <= 0)
    <3>1. ~(spare <= 0) /\ ~(short /\ can <= 0)
      <4> HIDE DEF spare, short, can, to, from
      <4> QED
        BY <1>3
    <3>2. spare \in Int
      BY <2>1
    <3> HIDE DEF spare, short, can
    <3> QED
      BY <3>1, <3>2
  <2>4. cost \in Int /\ den \in Nat \ {0}
    <3>1. MoveCost(to) \in Int /\ Pounds[i] \in Nat
      BY <2>2, CostIsInt, PoundsAre
    <3>2. Pack(i, from) \in {1, 2, 4, 5, 10}
      BY PackIs
    <3> QED
      BY <3>1, <3>2
  <2>5. want \in Nat /\ want <= from.item[i]
    <3> HIDE DEF stay
    <3> QED
      BY <2>1, <2>3
  <2>6. purse \in Nat
    <3>1. from.mob \div 2 \in Nat
      BY <2>1
    <3> HIDE DEF den
    <3> QED
      BY <2>4, <3>1
  <2> HIDE DEF cost, den, want, purse
  <2>7. can \in Nat /\ can <= want /\ cost * can <= purse
    <3>1. CASE short
      BY <2>4, <2>5, <2>6, <3>1, Affordable
    <3>2. CASE ~short
      <4>1. cost * want \in Int
        BY <2>4, <2>5
      <4> QED
        BY <2>5, <2>6, <3>2, <4>1
    <3> QED
      BY <3>1, <3>2
  <2> HIDE DEF can
  <2>8. amt \in Nat /\ amt <= can /\ amt <= ITEM_MAX - to.item[i]
    <3> DEFINE room == ITEM_MAX - to.item[i]
    <3>1. room \in Nat
      BY <2>2
    <3>2. amt = IF can < room THEN can ELSE room
      BY DEF Cap
    <3> HIDE DEF room, amt
    <3>3. amt \in Nat /\ amt <= can /\ amt <= room
      BY <2>7, <3>1, <3>2
    <3> QED
      BY <3>3 DEF room
  <2> HIDE DEF amt
  <2>9. mob \in Nat
    <3>1. cost * amt \in Int
      BY <2>4, <2>8
    <3>2. (cost * amt) \div den \in Int
      BY <2>4, <3>1
    <3> QED
      BY <2>1, <3>2 DEF Floor0
  <2>10. amt <= ss[n].item[i] /\ ss[b].item[i] + amt <= ITEM_MAX
    BY <2>1, <2>2, <2>5, <2>7, <2>8, MostIs
  <2>11. Catch(to, plague) \in Contents
    BY <2>2, CatchIs
  <2> HIDE DEF mob, b
  <2>12. Ship(ss, n, b, i, amt, mob, Catch(to, plague)) \in Shipped(FALSE)
    BY <2>1, <2>8, <2>9, <2>10, <2>11, GoodsGo
  <2> HIDE DEF barred, to
  <2> QED
    BY <1>1, <1>3, <2>12 DEF to
<1> HIDE DEF barred
<1> QED
  BY <1>2, <1>3

\* So does what is brought to a sector from its center, where some stay.
LEMMA ImportMoves ==
  ASSUME Ready, NEW ss \in Shipped(TRUE), NEW n \in 1..Size, NEW i \in Items,
         i \in DOMAIN sect[n].dist, PathCost(n) >= 0
  PROVE  Import(ss, n, i) \in Shipped(TRUE)
<1> DEFINE sp == ss[n]
           d == sp.distTo
           dist == ss[d]
           want == sp.dist[i] - sp.item[i]
           stays == IF i = "civ" \/ (i = "mil" /\ dist.item.civ = 0) THEN 1 ELSE 0
           have == Cap(want, dist.item[i] - stays)
           cost == PathCost(n) * Pounds[i]
           den  == 10000 * Pack(i, dist)
           purse == dist.mob * den
           amt  == IF purse < cost * have THEN purse \div cost ELSE have
           mob  == dist.mob - (cost * amt) \div den
           barred == \/ want <= 0 \/ have <= 0 \/ dist.mob <= 0 \/ ~MilitaryControl(d)
                     \/ i = "civ" /\ (sp.own # sp.oldown \/ dist.own # dist.oldown)
<1>1. Import(ss, n, i) = IF barred THEN ss ELSE Ship(ss, d, n, i, amt, mob, Catch(sp, dist.pst))
  BY DEF Import
<1>2. CASE barred
  <2> HIDE DEF barred, amt, mob, d
  <2> QED
    BY <1>1, <1>2
<1>3. CASE ~barred
  <2>1. d \in 1..Size /\ sp.dist[i] \in 1..ITEM_MAX /\ sp.item[i] \in Nat /\ sp.pst \in Contents
    BY OnTheMove
  <2>2. dist.mob \in Int /\ dist.item[i] \in Nat /\ dist.item.civ \in Nat
    <3>1. "civ" \in Items
      BY ItemsAre
    <3> HIDE DEF d
    <3> QED
      BY <2>1, <3>1, OnTheMove
  <2>3. want > 0 /\ have > 0 /\ dist.mob > 0
    <3>1. ~(want <= 0) /\ ~(have <= 0) /\ ~(dist.mob <= 0)
      <4> HIDE DEF want, have, dist
      <4> QED
        BY <1>3
    <3>2. want \in Int /\ stays \in {0, 1}
      BY <2>1, MostIs
    <3>3. have \in Int
      <4> HIDE DEF want, stays
      <4> QED
        BY <2>2, <3>2 DEF Cap
    <3> HIDE DEF want, have
    <3> QED
      BY <2>2, <3>1, <3>2, <3>3
  <2>4. d # n /\ PathCost(n) \in Int
    <3>1. sect[n].distTo = d
      BY OnTheMove
    <3>2. \A m \in 1..Size : sect[m].eff \in Int
      BY DEF Ready, Counted
    <3> QED
      BY <2>1, <3>1, <3>2, PathIsInt
  <2>5. cost \in Int /\ den \in Nat \ {0}
    <3>1. Pounds[i] \in Nat
      BY PoundsAre
    <3>2. Pack(i, dist) \in {1, 2, 4, 5, 10}
      BY PackIs
    <3> QED
      BY <2>4, <3>1, <3>2
  <2>6. have \in Nat /\ have <= want /\ have <= dist.item[i] - stays /\ stays \in {0, 1}
    <3>1. want \in Int /\ stays \in {0, 1}
      BY <2>1, MostIs
    <3> HIDE DEF want, stays
    <3> QED
      BY <2>2, <2>3, <3>1 DEF Cap
  <2>7. purse \in Nat
    <3> HIDE DEF den
    <3> QED
      BY <2>2, <2>3, <2>5
  <2> HIDE DEF cost, den, have, purse
  <2>8. amt \in Nat /\ amt <= have /\ cost * amt <= purse
    <3>1. CASE purse < cost * have
      BY <2>5, <2>6, <2>7, <3>1, Affordable
    <3>2. CASE ~(purse < cost * have)
      <4>1. cost * have \in Int
        BY <2>5, <2>6
      <4> QED
        BY <2>6, <2>7, <3>2, <4>1
    <3> QED
      BY <3>1, <3>2
  <2> HIDE DEF amt
  <2>9. mob \in Nat
    <3>1. cost * amt \in Int /\ cost * amt <= dist.mob * den
      BY <2>5, <2>8 DEF purse
    <3>2. (cost * amt) \div den \in Int /\ (cost * amt) \div den <= dist.mob
      BY <2>2, <2>5, <3>1, QuotientUpTo
    <3> QED
      BY <2>2, <3>2
  <2>10. amt <= ss[d].item[i] /\ ss[n].item[i] + amt <= ITEM_MAX
    BY <2>1, <2>2, <2>6, <2>8, MostIs
  <2>11. Catch(sp, dist.pst) \in Contents
    BY <2>1, CatchIs
  <2>12. ss[d].item[i] - amt > 0 \/ i \notin {"civ", "mil"} \/ (i = "mil" /\ ss[d].item.civ > 0)
    <3>1. CASE stays = 1
      BY <2>2, <2>6, <2>8, <3>1
    <3>2. CASE stays # 1
      <4>1. ~(i = "civ" \/ (i = "mil" /\ dist.item.civ = 0))
        BY <3>2
      <4> QED
        BY <2>2, <4>1
    <3> QED
      BY <3>1, <3>2
  <2> HIDE DEF mob, d
  <2>13. Ship(ss, d, n, i, amt, mob, Catch(sp, dist.pst)) \in Shipped(TRUE)
    BY <2>1, <2>4, <2>8, <2>9, <2>10, <2>11, <2>12, GoodsGo
  <2> HIDE DEF barred, sp, dist
  <2> QED
    BY <1>1, <1>3, <2>13 DEF sp, dist
<1> HIDE DEF barred
<1> QED
  BY <1>2, <1>3

\* And what a sector sends to its center, as its threshold stays.
LEMMA ExportMoves ==
  ASSUME Ready, NEW ss \in Shipped(TRUE), NEW n \in 1..Size, NEW i \in Items,
         i \in DOMAIN sect[n].dist, PathCost(n) >= 0
  PROVE  Export(ss, n, i) \in Shipped(TRUE)
<1> DEFINE sp == ss[n]
           d == sp.distTo
           dist == ss[d]
           want == sp.item[i] - sp.dist[i]
           cost == (PathCost(n) - MoveCost(sp) + MoveCost(dist)) * Pounds[i]
           den  == 10000 * Max({Pack(i, sp), Pack(i, dist)})
           purse == sp.mob * den
           can  == IF purse < cost * want THEN purse \div cost ELSE want
           amt  == Cap(can, ITEM_MAX - dist.item[i])
           mob  == sp.mob - (cost * amt) \div den
           barred == \/ want < 0 \/ amt = 0 \/ sp.mob <= 0 \/ ~MilitaryControl(n)
                     \/ i = "civ" /\ (sp.own # sp.oldown \/ dist.own # dist.oldown \/ sp.work < 100)
<1>1. Export(ss, n, i) = IF barred THEN ss ELSE Ship(ss, n, d, i, amt, mob, Catch(dist, sp.pst))
  BY DEF Export
<1>2. CASE barred
  <2> HIDE DEF barred, amt, mob, d
  <2> QED
    BY <1>1, <1>2
<1>3. CASE ~barred
  <2>1. d \in 1..Size /\ sp.dist[i] \in 1..ITEM_MAX /\ sp.item[i] \in Nat /\ sp.mob \in Int /\ sp.eff \in Int
    BY OnTheMove
  <2>2. dist.eff \in Int /\ dist.item[i] \in Nat /\ ITEM_MAX - dist.item[i] \in Nat /\ dist.pst \in Contents
    <3> HIDE DEF d
    <3> QED
      BY <2>1, OnTheMove
  <2>3. want >= 0 /\ sp.mob > 0
    <3>1. ~(want < 0) /\ ~(sp.mob <= 0)
      <4> HIDE DEF want, amt, sp
      <4> QED
        BY <1>3
    <3>2. want \in Int
      BY <2>1, MostIs
    <3> HIDE DEF want
    <3> QED
      BY <2>1, <3>1, <3>2
  <2>4. d # n /\ PathCost(n) \in Int
    <3>1. sect[n].distTo = d
      BY OnTheMove
    <3>2. \A m \in 1..Size : sect[m].eff \in Int
      BY DEF Ready, Counted
    <3> QED
      BY <2>1, <3>1, <3>2, PathIsInt
  <2>5. cost \in Int /\ den \in Nat \ {0}
    <3>1. Pounds[i] \in Nat /\ MoveCost(sp) \in Int /\ MoveCost(dist) \in Int
      BY <2>1, <2>2, PoundsAre, CostIsInt
    <3>2. Max({Pack(i, sp), Pack(i, dist)}) \in {1, 2, 4, 5, 10}
      BY PacksAre
    <3> QED
      BY <2>4, <3>1, <3>2
  <2>6. want \in Nat /\ want <= ss[n].item[i] - 1
    BY <2>1, <2>3, MostIs
  <2>7. purse \in Nat
    <3> HIDE DEF den
    <3> QED
      BY <2>1, <2>3, <2>5
  <2> HIDE DEF cost, den, want, purse
  <2>8. can \in Nat /\ can <= want /\ cost * can <= purse
    <3>1. CASE purse < cost * want
      BY <2>5, <2>6, <2>7, <3>1, Affordable
    <3>2. CASE ~(purse < cost * want)
      <4>1. cost * want \in Int
        BY <2>5, <2>6
      <4> QED
        BY <2>6, <2>7, <3>2, <4>1
    <3> QED
      BY <3>1, <3>2
  <2> HIDE DEF can
  <2>9. amt \in Nat /\ amt <= can /\ amt <= ITEM_MAX - dist.item[i]
    BY <2>2, <2>8 DEF Cap
  <2> HIDE DEF amt
  <2>10. mob \in Nat
    <3>1. cost * amt \in Int /\ cost * amt <= sp.mob * den
      BY <2>5, <2>7, <2>8, <2>9, LessCostsLess DEF purse
    <3>2. (cost * amt) \div den \in Int /\ (cost * amt) \div den <= sp.mob
      BY <2>1, <2>5, <3>1, QuotientUpTo
    <3> QED
      BY <2>1, <3>2
  <2>11. amt <= ss[n].item[i] /\ ss[d].item[i] + amt <= ITEM_MAX /\ ss[n].item[i] - amt > 0
    BY <2>1, <2>2, <2>6, <2>8, <2>9, MostIs
  <2>12. Catch(dist, sp.pst) \in Contents
    BY <2>2, CatchIs
  <2> HIDE DEF mob, d
  <2>13. Ship(ss, n, d, i, amt, mob, Catch(dist, sp.pst)) \in Shipped(TRUE)
    BY <2>1, <2>4, <2>9, <2>10, <2>11, <2>12, GoodsGo
  <2> HIDE DEF barred, sp, dist
  <2> QED
    BY <1>1, <1>3, <2>13 DEF sp, dist
<1> HIDE DEF barred
<1> QED
  BY <1>2, <1>3

-----------------------------------------------------------------------------
\* What a fold over a sequence keeps at every step it has in the end.
LEMMA FoldStays ==
  ASSUME NEW K, NEW B, NEW q \in Seq(B), NEW iter, iter[{}] \in K,
         \A s \in SUBSET DOMAIN q : s # {} /\ iter[s \ {Max(s)}] \in K => iter[s] \in K
  PROVE  iter[DOMAIN q] \in K
<1> DEFINE S == {i \in 0..Len(q) : iter[1..i] \in K}
<1>1. Len(q) \in Nat /\ DOMAIN q = 1..Len(q)
  BY LenProperties
<1>2. 0 \in S
  <2>1. 1..0 = {} /\ 0 \in 0..Len(q)
    BY <1>1
  <2> QED
    BY <2>1
<1>3. ASSUME NEW i \in 0..Len(q), i \in S, i < Len(q) PROVE i + 1 \in S
  <2>1. i + 1 \in 1..Len(q) /\ i + 1 \in 0..Len(q) /\ (i + 1) - 1 = i /\ i \in Nat
    BY <1>1, <1>3
  <2>2. 1..i + 1 \in SUBSET DOMAIN q /\ 1..i + 1 # {} /\ (1..i + 1) \ {Max(1..i + 1)} = 1..i
    BY <1>1, <2>1, UpTo
  <2>3. iter[1..i] \in K
    BY <1>3
  <2>4. iter[1..i + 1] \in K
    BY <2>2, <2>3
  <2> QED
    BY <2>1, <2>4
<1> HIDE DEF S
<1>4. 0..Len(q) \subseteq S
  BY <1>1, <1>2, <1>3, NatsBySteps
<1>5. Len(q) \in S
  BY <1>1, <1>4
<1> QED
  BY <1>1, <1>5 DEF S

\* The sectors, as they are, are such as may come to be.
LEMMA MovesBegin ==
  ASSUME Ready, NEW stay \in BOOLEAN
  PROVE  sect \in Shipped(stay)
<1>1. sect \in [1..Size -> [Marks -> Contents]]
  <2>1. \A n \in 1..Size : sect[n] \in [Marks -> Contents]
    <3> TAKE n \in 1..Size
    <3>1. sect[n] = [f \in Marks |-> sect[n][f]]
      BY DEF Ready, Sectors, Laid
    <3>2. \A f \in Marks : sect[n][f] \in Contents
      BY ContentsHold
    <3> QED
      BY <3>1, <3>2
  <2> QED
    BY <2>1 DEF Ready, Sectors
<1>2. \A n \in 1..Size : Stocked(sect[n], sect[n])
  BY DEF Ready, Counted, Stocked
<1> QED
  BY <1>1, <1>2 DEF Shipped

\* Nor does it matter to goods whether a sector may work.
LEMMA WorkingAgain ==
  ASSUME Ready, NEW n \in 1..Size, NEW stay \in BOOLEAN
  PROVE  [sect EXCEPT ![n].off = FALSE] \in Shipped(stay)
<1> DEFINE r == [sect[n] EXCEPT !.off = FALSE]
           tt == [sect EXCEPT ![n].off = FALSE]
<1>1. sect \in [1..Size -> [Marks -> Contents]] /\ \A m \in 1..Size : Stocked(sect[m], sect[m])
  BY MovesBegin DEF Shipped
<1>2. {"off", "item", "mob", "eff", "del", "dist", "distTo"} \subseteq Marks
  BY DEF Marks
<1>3. FALSE \in Contents
  BY ContentsHold, Zenon
<1>4. sect[n] \in [Marks -> Contents]
  BY <1>1
<1>5. r \in [Marks -> Contents]
  BY <1>3, <1>4
<1>6. /\ r.item = sect[n].item /\ r.mob = sect[n].mob
      /\ r.eff = sect[n].eff /\ r.del = sect[n].del /\ r.dist = sect[n].dist /\ r.distTo = sect[n].distTo
  BY <1>2, <1>4
<1>7. tt = [sect EXCEPT ![n] = r]
  OBVIOUS
<1> HIDE DEF r, tt
<1>8. tt \in [1..Size -> [Marks -> Contents]] /\ \A m \in 1..Size : tt[m] = IF m = n THEN r ELSE sect[m]
  BY <1>1, <1>5, <1>7
<1>9. \A m \in 1..Size : Stocked(tt[m], sect[m]) /\ tt[m].item = sect[m].item
  BY <1>1, <1>6, <1>8 DEF Stocked
<1>10. ASSUME NEW i \in Items PROVE Total(tt, i) = Total(sect, i)
  <2>1. \A m \in 1..Size : tt[m].item[i] = sect[m].item[i]
    BY <1>9
  <2>2. Column(tt, i) = Column(sect, i)
    BY <2>1 DEF Column
  <2>3. Total(tt, i) = SumFunction(Column(tt, i)) /\ Total(sect, i) = SumFunction(Column(sect, i))
    BY TotalIsSum
  <2> QED
    BY <2>2, <2>3
<1>11. \A m \in 1..Size : Held(sect[m]) => Held(tt[m])
  BY <1>9 DEF Held
<1> QED
  BY <1>8, <1>9, <1>10, <1>11 DEF Shipped, tt

\* All that a sector delivers.
LEMMA DeliveriesMove ==
  ASSUME Ready, NEW n \in 1..Size
  PROVE  FoldLeft(LAMBDA ss, i : IF i \in DOMAIN sect[n].del /\ ss[n].mob > 0
                                   THEN Deliver(ss, n, i, sect[n].pst) ELSE ss,
                  sect, ItemOrder) \in Shipped(FALSE)
<1> DEFINE K == Shipped(FALSE)
           q == ItemOrder
           base == sect
           Step(ss, i) == IF i \in DOMAIN sect[n].del /\ ss[n].mob > 0
                                   THEN Deliver(ss, n, i, sect[n].pst) ELSE ss
           F == [ss \in K |-> [i \in Items |-> Step(ss, i)]]
           Goes(h) == h = [s \in SUBSET DOMAIN q |->
                             IF s = {} THEN base ELSE Step(h[s \ {Max(s)}], q[Max(s)])]
           iter == CHOOSE h : Goes(h)
<1>1. q \in Seq(Items) /\ Len(q) \in Nat /\ DOMAIN q = 1..Len(q)
  BY ItemsAre
<1>2. \A ss \in K, i \in Items : Step(ss, i) \in K
  BY DeliveryMoves
<1>3. base \in K
  BY MovesBegin
<1>4. FoldLeft(LAMBDA ss, i : IF i \in DOMAIN sect[n].del /\ ss[n].mob > 0
                                   THEN Deliver(ss, n, i, sect[n].pst) ELSE ss,
                  sect, ItemOrder) = iter[DOMAIN q]
  BY DEF FoldLeft, MapThenFoldSet
<1> HIDE DEF q, base, Step, K
<1>5. F \in [K -> [Items -> K]]
  BY <1>2
<1>6. \E h : Goes(h)
  <2>0. Folds(K, Len(q), base, F, q)
    <3> HIDE DEF F
    <3> QED
      BY <1>1, <1>3, <1>5, FoldExists
  <2>1. PICK h : h \in [SUBSET (1..Len(q)) -> K] /\ Recurs(h, Len(q), base, F, q)
    BY <2>0 DEF Folds
  <2>2. ASSUME NEW s \in SUBSET DOMAIN q, s # {}
        PROVE  h[s \ {Max(s)}] \in K /\ q[Max(s)] \in Items
    <3>1. Max(s) \in s
      BY <1>1, <2>2, MaxOfSome
    <3> QED
      BY <1>1, <2>1, <3>1, ElementOfSeq
  <2>3. \A s \in SUBSET DOMAIN q : s # {} => F[h[s \ {Max(s)}]][q[Max(s)]] = Step(h[s \ {Max(s)}], q[Max(s)])
    BY <2>2
  <2> HIDE DEF F
  <2>4. \A s \in SUBSET DOMAIN q : h[s] = IF s = {} THEN base ELSE Step(h[s \ {Max(s)}], q[Max(s)])
    BY <1>1, <2>1, <2>3 DEF Recurs
  <2>5. h = [s \in SUBSET DOMAIN q |-> h[s]]
    BY <1>1, <2>1
  <2>6. Goes(h)
    BY <2>4, <2>5, Zenon
  <2> QED
    BY <2>6
<1>7. Goes(iter)
  BY <1>6
<1> HIDE DEF iter, F
<1>8. iter[{}] = base
  BY <1>7
<1>9. \A s \in SUBSET DOMAIN q : s # {} => iter[s] = Step(iter[s \ {Max(s)}], q[Max(s)])
  BY <1>7
<1>10. \A s \in SUBSET DOMAIN q : s # {} /\ iter[s \ {Max(s)}] \in K => iter[s] \in K
  <2> TAKE s \in SUBSET DOMAIN q
  <2> HAVE s # {} /\ iter[s \ {Max(s)}] \in K
  <2>1. Max(s) \in s
    BY <1>1, MaxOfSome
  <2>2. q[Max(s)] \in Items
    BY <1>1, <2>1, ElementOfSeq
  <2> QED
    BY <1>2, <1>9, <2>2
<1> HIDE DEF Goes
<1> QED
  BY <1>1, <1>3, <1>4, <1>8, <1>10, FoldStays DEF K

\* All that it exports.
LEMMA ExportsMove ==
  ASSUME Ready, NEW n \in 1..Size, PathCost(n) >= 0
  PROVE  FoldLeft(LAMBDA ss, i : IF i \in DOMAIN sect[n].dist THEN Export(ss, n, i) ELSE ss,
                  sect, ItemOrder) \in Shipped(TRUE)
<1> DEFINE K == Shipped(TRUE)
           q == ItemOrder
           base == sect
           Step(ss, i) == IF i \in DOMAIN sect[n].dist THEN Export(ss, n, i) ELSE ss
           F == [ss \in K |-> [i \in Items |-> Step(ss, i)]]
           Goes(h) == h = [s \in SUBSET DOMAIN q |->
                             IF s = {} THEN base ELSE Step(h[s \ {Max(s)}], q[Max(s)])]
           iter == CHOOSE h : Goes(h)
<1>1. q \in Seq(Items) /\ Len(q) \in Nat /\ DOMAIN q = 1..Len(q)
  BY ItemsAre
<1>2. \A ss \in K, i \in Items : Step(ss, i) \in K
  BY ExportMoves
<1>3. base \in K
  BY MovesBegin
<1>4. FoldLeft(LAMBDA ss, i : IF i \in DOMAIN sect[n].dist THEN Export(ss, n, i) ELSE ss,
                  sect, ItemOrder) = iter[DOMAIN q]
  BY DEF FoldLeft, MapThenFoldSet
<1> HIDE DEF q, base, Step, K
<1>5. F \in [K -> [Items -> K]]
  BY <1>2
<1>6. \E h : Goes(h)
  <2>0. Folds(K, Len(q), base, F, q)
    <3> HIDE DEF F
    <3> QED
      BY <1>1, <1>3, <1>5, FoldExists
  <2>1. PICK h : h \in [SUBSET (1..Len(q)) -> K] /\ Recurs(h, Len(q), base, F, q)
    BY <2>0 DEF Folds
  <2>2. ASSUME NEW s \in SUBSET DOMAIN q, s # {}
        PROVE  h[s \ {Max(s)}] \in K /\ q[Max(s)] \in Items
    <3>1. Max(s) \in s
      BY <1>1, <2>2, MaxOfSome
    <3> QED
      BY <1>1, <2>1, <3>1, ElementOfSeq
  <2>3. \A s \in SUBSET DOMAIN q : s # {} => F[h[s \ {Max(s)}]][q[Max(s)]] = Step(h[s \ {Max(s)}], q[Max(s)])
    BY <2>2
  <2> HIDE DEF F
  <2>4. \A s \in SUBSET DOMAIN q : h[s] = IF s = {} THEN base ELSE Step(h[s \ {Max(s)}], q[Max(s)])
    BY <1>1, <2>1, <2>3 DEF Recurs
  <2>5. h = [s \in SUBSET DOMAIN q |-> h[s]]
    BY <1>1, <2>1
  <2>6. Goes(h)
    BY <2>4, <2>5, Zenon
  <2> QED
    BY <2>6
<1>7. Goes(iter)
  BY <1>6
<1> HIDE DEF iter, F
<1>8. iter[{}] = base
  BY <1>7
<1>9. \A s \in SUBSET DOMAIN q : s # {} => iter[s] = Step(iter[s \ {Max(s)}], q[Max(s)])
  BY <1>7
<1>10. \A s \in SUBSET DOMAIN q : s # {} /\ iter[s \ {Max(s)}] \in K => iter[s] \in K
  <2> TAKE s \in SUBSET DOMAIN q
  <2> HAVE s # {} /\ iter[s \ {Max(s)}] \in K
  <2>1. Max(s) \in s
    BY <1>1, MaxOfSome
  <2>2. q[Max(s)] \in Items
    BY <1>1, <2>1, ElementOfSeq
  <2> QED
    BY <1>2, <1>9, <2>2
<1> HIDE DEF Goes
<1> QED
  BY <1>1, <1>3, <1>4, <1>8, <1>10, FoldStays DEF K

\* All that it imports.
LEMMA ImportsMove ==
  ASSUME Ready, NEW n \in 1..Size, PathCost(n) >= 0
  PROVE  FoldLeft(LAMBDA ss, i : IF i \in DOMAIN sect[n].dist THEN Import(ss, n, i) ELSE ss,
                  [sect EXCEPT ![n].off = FALSE], ItemOrder) \in Shipped(TRUE)
<1> DEFINE K == Shipped(TRUE)
           q == ItemOrder
           base == [sect EXCEPT ![n].off = FALSE]
           Step(ss, i) == IF i \in DOMAIN sect[n].dist THEN Import(ss, n, i) ELSE ss
           F == [ss \in K |-> [i \in Items |-> Step(ss, i)]]
           Goes(h) == h = [s \in SUBSET DOMAIN q |->
                             IF s = {} THEN base ELSE Step(h[s \ {Max(s)}], q[Max(s)])]
           iter == CHOOSE h : Goes(h)
<1>1. q \in Seq(Items) /\ Len(q) \in Nat /\ DOMAIN q = 1..Len(q)
  BY ItemsAre
<1>2. \A ss \in K, i \in Items : Step(ss, i) \in K
  BY ImportMoves
<1>3. base \in K
  BY WorkingAgain
<1>4. FoldLeft(LAMBDA ss, i : IF i \in DOMAIN sect[n].dist THEN Import(ss, n, i) ELSE ss,
                  [sect EXCEPT ![n].off = FALSE], ItemOrder) = iter[DOMAIN q]
  BY DEF FoldLeft, MapThenFoldSet
<1> HIDE DEF q, base, Step, K
<1>5. F \in [K -> [Items -> K]]
  BY <1>2
<1>6. \E h : Goes(h)
  <2>0. Folds(K, Len(q), base, F, q)
    <3> HIDE DEF F
    <3> QED
      BY <1>1, <1>3, <1>5, FoldExists
  <2>1. PICK h : h \in [SUBSET (1..Len(q)) -> K] /\ Recurs(h, Len(q), base, F, q)
    BY <2>0 DEF Folds
  <2>2. ASSUME NEW s \in SUBSET DOMAIN q, s # {}
        PROVE  h[s \ {Max(s)}] \in K /\ q[Max(s)] \in Items
    <3>1. Max(s) \in s
      BY <1>1, <2>2, MaxOfSome
    <3> QED
      BY <1>1, <2>1, <3>1, ElementOfSeq
  <2>3. \A s \in SUBSET DOMAIN q : s # {} => F[h[s \ {Max(s)}]][q[Max(s)]] = Step(h[s \ {Max(s)}], q[Max(s)])
    BY <2>2
  <2> HIDE DEF F
  <2>4. \A s \in SUBSET DOMAIN q : h[s] = IF s = {} THEN base ELSE Step(h[s \ {Max(s)}], q[Max(s)])
    BY <1>1, <2>1, <2>3 DEF Recurs
  <2>5. h = [s \in SUBSET DOMAIN q |-> h[s]]
    BY <1>1, <2>1
  <2>6. Goes(h)
    BY <2>4, <2>5, Zenon
  <2> QED
    BY <2>6
<1>7. Goes(iter)
  BY <1>6
<1> HIDE DEF iter, F
<1>8. iter[{}] = base
  BY <1>7
<1>9. \A s \in SUBSET DOMAIN q : s # {} => iter[s] = Step(iter[s \ {Max(s)}], q[Max(s)])
  BY <1>7
<1>10. \A s \in SUBSET DOMAIN q : s # {} /\ iter[s \ {Max(s)}] \in K => iter[s] \in K
  <2> TAKE s \in SUBSET DOMAIN q
  <2> HAVE s # {} /\ iter[s \ {Max(s)}] \in K
  <2>1. Max(s) \in s
    BY <1>1, MaxOfSome
  <2>2. q[Max(s)] \in Items
    BY <1>1, <2>1, ElementOfSeq
  <2> QED
    BY <1>2, <1>9, <2>2
<1> HIDE DEF Goes
<1> QED
  BY <1>1, <1>3, <1>4, <1>8, <1>10, FoldStays DEF K

-----------------------------------------------------------------------------
\* A sector that stays where it is, with the orders it had.
Keeps(s, t) == Laid(t) /\ t.del = s.del /\ t.dist = s.dist /\ t.distTo = s.distTo

\* A sector that stays twice stays.
LEMMA KeepsOn ==
  ASSUME NEW s, NEW t, NEW u, Keeps(s, t), Keeps(t, u)
  PROVE  Keeps(s, u)
BY DEF Keeps

\* People who are fed.
LEMMA TruncKeeps ==
  ASSUME NEW s, Laid(s)
  PROVE  Keeps(s, TruncPeople(s))
BY DEF TruncPeople, Keeps, Laid, Marks

\* People who starve.
LEMMA StarveKeeps ==
  ASSUME NEW s, Laid(s), NEW fed, NEW avail, NEW t \in Starve(s, fed, avail)
  PROVE  Keeps(s, t)
<1>1. PICK r \in Roll(8) : t = [s EXCEPT !.item = fed, !.loyal = @ + r + 1, !.work = 0, !.avail = avail]
  BY DEF Starve
<1> QED
  BY <1>1 DEF Keeps, Laid, Marks

\* The sector of people who thrive, for some outcome of the dice.
Thriven(s, grown, c, w, r) ==
    [s EXCEPT !.item = grown, !.che = c, !.avail = NewWork(s, w),
              !.work = IF @ < 100 THEN Cap(@ + 7 + r, 100) ELSE @]
LEMMA ThriveIs ==
  ASSUME NEW s, NEW fed
  PROVE  Thrive(s, fed) =
           UNION {{Thriven(s, grown, c, w, r) :
                     c \in Round(s.che * 39, 40), w \in TotalWork(s.work, grown, SectorTypes[s.type].pop),
                     r \in IF s.work < 100 THEN Roll(15) ELSE {0}} :
                  grown \in GrowPeople(fed, SectorTypes[s.type].pop)}
BY DEF Thrive, Thriven

\* People who thrive.
LEMMA ThriveKeeps ==
  ASSUME NEW s, Laid(s), NEW fed, NEW t \in Thrive(s, fed)
  PROVE  Keeps(s, t)
<1> DEFINE most == SectorTypes[s.type].pop
<1> HIDE DEF most
<1>2. PICK grown \in GrowPeople(fed, most) :
         t \in {Thriven(s, grown, c, w, r) :
                  c \in Round(s.che * 39, 40), w \in TotalWork(s.work, grown, most),
                  r \in IF s.work < 100 THEN Roll(15) ELSE {0}}
  BY ThriveIs DEF most
<1>3. PICK c, w, r : t = Thriven(s, grown, c, w, r)
  BY <1>2
<1>4. PICK x, y, z, a : t = [s EXCEPT !.item = x, !.che = y, !.avail = z, !.work = a]
  BY <1>3 DEF Thriven
<1> QED
  BY <1>4 DEF Keeps, Laid, Marks

\* Feeding makes them starve or thrive.
LEMMA FeedKeeps ==
  ASSUME NEW s, Laid(s), NEW t \in Feed(s)
  PROVE  Keeps(s, t)
<1> DEFINE most   == SectorTypes[s.type].pop
           hungry == s.item.food < (3 * People(s.item) + 99) \div 100
           work(w) == NewWork(s, w)
           grown(w) == IF hungry THEN Rations(s, work(w) \div 2) ELSE 0
           manna(w) == hungry /\ s.item.food + grown(w) = 0
           meal(w)  == [s.item EXCEPT !.food = IF manna(w) THEN 1 ELSE @ + grown(w)]
           avail(w) == work(w) - 2 * ((grown(w) * 10000) \div 13)
           end(w, x) == TruncPeople(IF manna(w) THEN [x EXCEPT !.item.food = 0] ELSE x)
           some(w, f) == IF f.starved > 0 THEN Starve(s, f.item, avail(w)) ELSE Thrive(s, f.item)
           W == TotalWork(s.work, s.item, most)
           all(w) == UNION {some(w, f) : f \in FeedPeople(meal(w))}
<1>1. Feed(s) = UNION {{end(w, x) : x \in all(w)} : w \in W}
  BY DEF Feed
<1>2. PICK w \in W : t \in {end(w, x) : x \in all(w)}
  <2> HIDE DEF W, end, all
  <2> QED
    BY <1>1
<1>3. PICK x \in all(w) : t = end(w, x)
  <2> HIDE DEF end, all
  <2> QED
    BY <1>2
<1>4. PICK f \in FeedPeople(meal(w)) : x \in some(w, f)
  <2> HIDE DEF some, meal
  <2> QED
    BY <1>3
<1>5. Keeps(s, x)
  <2>1. x \in Starve(s, f.item, avail(w)) \/ x \in Thrive(s, f.item)
    <3> HIDE DEF avail
    <3> QED
      BY <1>4
  <2> HIDE DEF avail
  <2> QED
    BY <2>1, StarveKeeps, ThriveKeeps
<1>6. Keeps(x, [x EXCEPT !.item.food = 0]) /\ Keeps(x, x)
  BY <1>5 DEF Keeps, Laid, Marks
<1>7. PICK y : Keeps(x, y) /\ t = TruncPeople(y)
  <2>1. CASE manna(w)
    BY <1>3, <1>6, <2>1
  <2>2. CASE ~manna(w)
    BY <1>3, <1>6, <2>2
  <2> QED
    BY <2>1, <2>2
<1>8. Keeps(y, t)
  BY <1>7, TruncKeeps DEF Keeps
<1> QED
  BY <1>5, <1>7, <1>8 DEF Keeps

\* Those who get sick.
LEMMA PlagueKeeps ==
  ASSUME NEW s, Laid(s), NEW t \in Plague(s)
  PROVE  Keeps(s, t)
BY DEF Plague, Keeps, Laid, Marks

\* Those who rise, and those who come round or turn away.
LEMMA RevoltKeeps ==
  ASSUME NEW s, Laid(s), NEW t \in Revolt(s)
  PROVE  Keeps(s, t)
<1> DEFINE raw(n) == 3 + (IF s.item.civ * n < 0 THEN -((-(s.item.civ * n)) \div 500)
                          ELSE (s.item.civ * n) \div 500)
           some(n) == IF raw(n) < 0 THEN 0 ELSE IF raw(n) * 3 > s.item.civ THEN s.item.civ \div 3 ELSE raw(n)
           civ(n) == Cap(some(n), CHE_MAX - s.che)
           che(n) == s.che + civ(n)
           few(m) == Cap(5 + ((s.item.uw * m) \div 500), s.item.uw)
           uw(n, m) == IF che(n) >= CHE_MAX THEN 0
                       ELSE IF che(n) + few(m) > CHE_MAX THEN CHE_MAX - few(m) ELSE few(m)
           end(n, m) == IF civ(n) + uw(n, m) <= 0 THEN s
                        ELSE [s EXCEPT !.tgt = s.own, !.che = (che(n) + uw(n, m)) % 256,
                                       !.item.civ = @ - civ(n),
                                       !.item.uw = IF uw(n, m) > 0 THEN @ - uw(n, m) ELSE @]
           none == \/ s.che # 0 /\ (s.tgt # s.own \/ s.che >= CHE_MAX)
                   \/ s.che > (s.item.civ + s.item.uw) * 3
<1>1. Revolt(s) = IF none THEN {s} ELSE UNION {{end(n, m) : m \in {10, 39}} : n \in {10, -9}}
  BY DEF Revolt
<1>2. t = s \/ \E n, m : t = end(n, m)
  <2> HIDE DEF none, end
  <2>1. CASE none
    BY <1>1, <2>1
  <2>2. CASE ~none
    <3>1. PICK n \in {10, -9} : t \in {end(n, m) : m \in {10, 39}}
      BY <1>1, <2>2
    <3> QED
      BY <3>1
  <2> QED
    BY <2>1, <2>2
<1>3. Keeps(s, s)
  BY DEF Keeps
<1>4. ASSUME NEW n, NEW m PROVE Keeps(s, end(n, m))
  <2> DEFINE own == s.own
             sum == (che(n) + uw(n, m)) % 256
             c == civ(n)
             u == uw(n, m)
             risen == [s EXCEPT !.tgt = own, !.che = sum, !.item.civ = @ - c,
                                !.item.uw = IF u > 0 THEN @ - u ELSE @]
  <2>1. end(n, m) = IF c + u <= 0 THEN s ELSE risen
    <3> HIDE DEF civ, uw, che
    <3> QED
      OBVIOUS
  <2> HIDE DEF end, own, sum, c, u
  <2>2. Keeps(s, risen)
    <3> DEFINE x == [s EXCEPT !.tgt = own, !.che = sum]
               civs == x.item.civ - c
               y == [x EXCEPT !.item.civ = civs]
               uws == IF u > 0 THEN y.item.uw - u ELSE y.item.uw
               z == [y EXCEPT !.item.uw = uws]
    <3>1. risen = z
      OBVIOUS
    <3>2. Keeps(s, x)
      BY DEF Keeps, Laid, Marks
    <3> HIDE DEF x, civs
    <3>3. Keeps(x, y)
      BY <3>2 DEF Keeps, Laid, Marks
    <3> HIDE DEF y, uws
    <3>4. Keeps(y, z)
      BY <3>3 DEF Keeps, Laid, Marks
    <3> QED
      BY <3>1, <3>2, <3>3, <3>4 DEF Keeps
  <2> HIDE DEF risen
  <2> QED
    BY <1>3, <2>1, <2>2
<1> HIDE DEF end
<1> QED
  BY <1>2, <1>3, <1>4

\* Those who come round, turn away, or rise.
LEMMA PopulaceKeeps ==
  ASSUME NEW s, Laid(s), NEW unhappy, NEW t \in Populace(s, unhappy)
  PROVE  Keeps(s, t)
<1> DEFINE mine == IF s.loyal = 0 THEN [s EXCEPT !.oldown = s.own] ELSE s
           soured == IF unhappy /\ mine.own = mine.oldown
                     THEN {mine} \cup {[mine EXCEPT !.loyal = Cap(@ + r, 127)] : r \in Roll(8)}
                     ELSE {mine}
           idle(x, r) == [x EXCEPT !.work = Floor0(@ - (x.loyal - (49 + r)))]
           rises(x, r) == {idle(x, r)} \cup Revolt(idle(x, r))
           restless(x) == IF x.loyal > 65 /\ x.item.mil < x.item.civ \div 20
                          THEN UNION {rises(x, r) : r \in Roll(15)} ELSE {x}
           comes(x, n) == [x EXCEPT !.loyal = n, !.oldown = IF n = 0 THEN x.own ELSE @]
           settled(x) == IF x.loyal = 0 THEN {x}
                         ELSE {comes(x, n) : n \in {Floor0(x.loyal - 15)}
                                                   \cup {Cap(x.loyal + u, 127) : u \in Round(15, 2)}}
<1>1. Populace(s, unhappy) = IF People(s.item) = 0 THEN {s}
                             ELSE UNION {settled(x) : x \in UNION {restless(u) : u \in soured}}
  BY DEF Populace
<1>2. Keeps(s, s)
  BY DEF Keeps
<1>3. CASE People(s.item) = 0
  BY <1>1, <1>2, <1>3
<1>4. CASE People(s.item) # 0
  <2>0. PICK x \in UNION {restless(v) : v \in soured} : t \in settled(x)
    <3> HIDE DEF settled, restless, soured
    <3> QED
      BY <1>1, <1>4
  <2>1. PICK u \in soured : x \in restless(u)
    <3> HIDE DEF settled, restless, soured
    <3> QED
      BY <2>0
  <2>2. Keeps(s, mine)
    <3>1. Keeps(s, [s EXCEPT !.oldown = s.own])
      BY DEF Keeps, Laid, Marks
    <3> QED
      BY <1>2, <3>1
  <2>3. Keeps(s, u)
    <3> HIDE DEF mine
    <3>1. \A y : Laid(y) => \A v : Keeps(y, [y EXCEPT !.loyal = v])
      <4> TAKE y
      <4> HAVE Laid(y)
      <4> TAKE v
      <4> QED
        BY DEF Keeps, Laid, Marks
    <3>2. u = mine \/ \E r : u = [mine EXCEPT !.loyal = Cap(@ + r, 127)]
      <4> DEFINE sour(r) == [mine EXCEPT !.loyal = Cap(@ + r, 127)]
      <4>1. soured \subseteq {mine} \cup {sour(r) : r \in Roll(8)}
        <5> HIDE DEF sour
        <5>1. soured = IF unhappy /\ mine.own = mine.oldown
                     THEN {mine} \cup {sour(r) : r \in Roll(8)} ELSE {mine}
          BY DEF sour
        <5> HIDE DEF soured
        <5> QED
          BY <5>1
      <4>2. u = mine \/ \E r : u = sour(r)
        <5> HIDE DEF sour, soured
        <5> QED
          BY <2>1, <4>1
      <4> QED
        BY <4>2
    <3>3. CASE u = mine
      BY <2>2, <3>3
    <3>4. ASSUME NEW r, u = [mine EXCEPT !.loyal = Cap(@ + r, 127)] PROVE Keeps(s, u)
      <4>1. Keeps(mine, u)
        BY <2>2, <3>1, <3>4 DEF Keeps
      <4> QED
        BY <2>2, <4>1, KeepsOn
    <3> QED
      BY <3>2, <3>3, <3>4
  <2> HIDE DEF soured, mine
  <2>4. Keeps(u, x)
    <3>1. x = u \/ \E r : x \in rises(u, r)
      <4> HIDE DEF rises
      <4> QED
        BY <2>1
    <3>2. ASSUME NEW r, x \in rises(u, r) PROVE Keeps(u, x)
      <4>1. Keeps(u, idle(u, r))
        <5>1. PICK v : idle(u, r) = [u EXCEPT !.work = v]
          OBVIOUS
        <5> HIDE DEF idle
        <5> QED
          BY <2>3, <5>1 DEF Keeps, Laid, Marks
      <4> HIDE DEF idle
      <4>2. CASE x = idle(u, r)
        BY <4>1, <4>2
      <4>3. CASE x \in Revolt(idle(u, r))
        <5>1. Keeps(idle(u, r), x)
          BY <4>1, <4>3, RevoltKeeps DEF Keeps
        <5> QED
          BY <4>1, <5>1, KeepsOn
      <4> QED
        BY <3>2, <4>2, <4>3
    <3>3. Keeps(u, u)
      BY <2>3 DEF Keeps
    <3> HIDE DEF rises
    <3> QED
      BY <3>1, <3>2, <3>3
  <2>5. Keeps(x, t)
    <3>1. t = x \/ \E n : t = comes(x, n)
      <4> HIDE DEF comes
      <4> QED
        BY <2>0
    <3>2. ASSUME NEW n, t = comes(x, n) PROVE Keeps(x, t)
      <4>1. PICK v, w : t = [x EXCEPT !.loyal = v, !.oldown = w]
        BY <3>2
      <4> QED
        BY <2>4, <4>1 DEF Keeps, Laid, Marks
    <3>3. Keeps(x, x)
      BY <2>4 DEF Keeps
    <3> HIDE DEF comes
    <3> QED
      BY <3>1, <3>2, <3>3
  <2> QED
    BY <2>3, <2>4, <2>5, KeepsOn
<1> QED
  BY <1>3, <1>4

\* Work on a sector: it is built up, drills, produces, repairs units.
BuildUp(s, razed, whole, left, cost) ==
    [t |-> [s EXCEPT !.eff = @ - razed, !.type = IF whole THEN s.new ELSE @], left |-> left, cost |-> cost]
LEMMA BuildKeeps ==
  ASSUME NEW s, Laid(s), NEW b \in BuildEff(s)
  PROVE  Keeps(s, b.t)
<1> DEFINE hundreds == (s.avail \div 2) * 100
           dcp   == SectorTypes[s.type]
           can   == (4 * hundreds) \div dcp.work
           razed == Cap(can, s.eff)
           whole  == can > s.eff
           start == IF s.type = s.new
                    THEN {[t |-> s, left |-> hundreds, cost |-> 0]}
                    ELSE {BuildUp(s, razed, whole, hundreds - r, 250 * razed) : r \in Round(razed * dcp.work, 4)}
           new(x) == SectorTypes[x.t.type]
           up(x, m) == [t |-> [x.t EXCEPT !.item = m.item, !.eff = @ + m.build],
                        left |-> x.left - m.build * new(x).work,
                        cost |-> x.cost + m.build * new(x).cost * 10]
           finish(x) == IF x.t.type # x.t.new THEN {x}
                        ELSE {up(x, m) : m \in GetMaterials(x.t.item, new(x).mat,
                                               Cap(Floor0(x.left) \div new(x).work, 100 - x.t.eff))}
           end(x) == [t |-> [x.t EXCEPT !.avail = (s.avail + 1) \div 2 + x.left \div 100], cost |-> x.cost]
<1>1. BuildEff(s) = {end(x) : x \in UNION {finish(y) : y \in start}}
  BY DEF BuildEff, BuildUp
<1> HIDE DEF hundreds, can, razed, whole
<1>0. PICK x \in UNION {finish(y) : y \in start} : b = end(x)
  <2> HIDE DEF start, finish, end
  <2> QED
    BY <1>1
<1>2. PICK y \in start : x \in finish(y)
  <2> HIDE DEF start, finish, end
  <2> QED
    BY <1>0
<1>3. Keeps(s, y.t)
  <2>1. Keeps(s, s)
    BY DEF Keeps
  <2>2. y = [t |-> s, left |-> hundreds, cost |-> 0] \/ \E r : y = BuildUp(s, razed, whole, hundreds - r, 250 * razed)
    BY <1>2
  <2>3. CASE y = [t |-> s, left |-> hundreds, cost |-> 0]
    BY <2>1, <2>3
  <2>4. ASSUME NEW r, y = BuildUp(s, razed, whole, hundreds - r, 250 * razed)
        PROVE  Keeps(s, y.t)
    <3>1. PICK v, w : y.t = [s EXCEPT !.eff = v, !.type = w]
      BY <2>4 DEF BuildUp
    <3> QED
      BY <3>1 DEF Keeps, Laid, Marks
  <2> QED
    BY <2>2, <2>3, <2>4
<1> HIDE DEF start
<1>4. Keeps(y.t, x.t)
  <2>1. x = y \/ \E m : x = up(y, m)
    <3> HIDE DEF up, new
    <3> QED
      BY <1>2
  <2>2. ASSUME NEW m, x = up(y, m) PROVE Keeps(y.t, x.t)
    <3>1. PICK v, w : x.t = [y.t EXCEPT !.item = v, !.eff = w]
      BY <2>2
    <3> QED
      BY <1>3, <3>1 DEF Keeps, Laid, Marks
  <2>3. Keeps(y.t, y.t)
    BY <1>3 DEF Keeps
  <2> HIDE DEF up
  <2> QED
    BY <2>1, <2>2, <2>3
<1>5. Keeps(x.t, b.t)
  <2>1. PICK v : b.t = [x.t EXCEPT !.avail = v]
    BY <1>0
  <2> QED
    BY <1>4, <2>1 DEF Keeps, Laid, Marks
<1> QED
  BY <1>3, <1>4, <1>5, KeepsOn

\* Civilians are drilled.
LEMMA EnlistKeeps ==
  ASSUME NEW s, Laid(s)
  PROVE  Keeps(s, Enlist(s).t)
<1>1. PICK v, w : Enlist(s).t = [s EXCEPT !.item.civ = v, !.item.mil = w]
  BY DEF Enlist
<1> QED
  BY <1>1 DEF Keeps, Laid, Marks

\* The sector that produces, for some outcome of rounding.
Produced(s, made, d, u, cost) ==
    [t |-> [s EXCEPT !.item = made, !.res = Floor0(@ - d), !.avail = @ - Cap(u, s.avail)], cost |-> cost]
LEMMA OutputIs ==
  ASSUME NEW s
  PROVE  \A p \in ProdOutput(s) : p = [t |-> s, cost |-> 0] \/ \E made, d, u, c : p = Produced(s, made, d, u, c)
<1> DEFINE r == Products[SectorTypes[s.type].prd]
           pe == s.eff * (IF r.ground THEN s.res ELSE 100)
           limits == {ITEM_MAX * 10000, (s.avail * pe) \div r.work}
                        \cup {(s.item[i] * 10000) \div r.mat[i] : i \in DOMAIN r.mat}
                        \cup (IF r.dep > 0 THEN {(s.res * 1000000) \div r.dep} ELSE {})
           item == SectorTypes[s.type].prd
           out == Min({Min(limits) \div 10000, 999, ITEM_MAX - s.item[item]})
           made == [i \in Items |-> IF i = item THEN s.item[i] + out
                                    ELSE IF i \in DOMAIN r.mat THEN s.item[i] - r.mat[i] * out
                                    ELSE s.item[i]]
<1>1. ProdOutput(s) = IF Min(limits) = 0 THEN {[t |-> s, cost |-> 0]}
                      ELSE {Produced(s, made, d, u, r.cost * out) :
                              d \in Round(r.dep * out, 100), u \in Round(r.work * out * 10000, pe)}
  BY DEF ProdOutput, Produced
<1> HIDE DEF r, pe, limits, out, made
<1> QED
  BY <1>1

\* A sector produces.
LEMMA OutputKeeps ==
  ASSUME NEW s, Laid(s), NEW p \in ProdOutput(s)
  PROVE  Keeps(s, p.t)
<1>1. p = [t |-> s, cost |-> 0] \/ \E made, d, u, c : p = Produced(s, made, d, u, c)
  BY OutputIs
<1>2. CASE p = [t |-> s, cost |-> 0]
  BY <1>2 DEF Keeps
<1>3. ASSUME NEW made, NEW d, NEW u, NEW c, p = Produced(s, made, d, u, c) PROVE Keeps(s, p.t)
  <2>1. PICK v, w, x : p.t = [s EXCEPT !.item = v, !.res = w, !.avail = x]
    BY <1>3 DEF Produced
  <2> QED
    BY <2>1 DEF Keeps, Laid, Marks
<1> QED
  BY <1>1, <1>2, <1>3

-----------------------------------------------------------------------------
\* The locals of guerrilla(): its sectors are in order, and its units those there are.
Rebels == {"sect", "unit", "n", "victim", "target", "che", "mil", "civ", "uw", "bonus", "fought", "recruit",
           "convert", "move", "oops"}
Risen(g, n, us) == /\ g = [f \in Rebels |-> g[f]] /\ g.n = n /\ Sectors(g.sect) /\ DOMAIN g.unit = us

\* A sector may change, but for its orders.
LEMMA SectorPut ==
  ASSUME NEW ss, Sectors(ss), NEW n \in 1..Size, NEW r, Keeps(ss[n], r)
  PROVE  Sectors([ss EXCEPT ![n] = r])
<1>1. Laid(r) /\ Ordered(r)
  BY DEF Keeps, Sectors, Ordered
<1> DEFINE tt == [ss EXCEPT ![n] = r]
<1>2. tt = [m \in 1..Size |-> IF m = n THEN r ELSE ss[m]]
  BY DEF Sectors
<1> HIDE DEF tt
<1>3. tt = [m \in 1..Size |-> tt[m]] /\ \A m \in 1..Size : tt[m] = IF m = n THEN r ELSE ss[m]
  BY <1>2
<1>4. \A m \in 1..Size : Laid(tt[m]) /\ Ordered(tt[m])
  BY <1>1, <1>3 DEF Sectors
<1> QED
  BY <1>3, <1>4 DEF Sectors, tt

\* The casualties of one unit.
Hit(u, acc, each) ==
    LET lu == acc.g.unit[u]
        dead == Min({lu.item.mil, acc.want}
                    \cup IF each >= 0 THEN {each, ((lu.eff - 40) * FullMil) \div 100} ELSE {})
        hurt == [lu EXCEPT !.eff = @ - (dead * 100) \div FullMil,
                           !.mob = @ - (dead * 50) \div FullMil, !.item.mil = @ - dead]
    IN  IF dead <= 0 THEN acc
        ELSE IF hurt.eff < MinEff
        THEN [acc EXCEPT !.g.unit[u] = [hurt EXCEPT !.own = 0, !.eff = 0, !.item.mil = 0],
                         !.g.oops = @ \/ each >= 0,
                         !.want = @ - dead - hurt.item.mil]
        ELSE [acc EXCEPT !.g.unit[u] = hurt, !.want = @ - dead]

\* Casualties come from one unit after another.
LEMMA FromUnitsIs ==
  ASSUME NEW r, NEW us, NEW each
  PROVE  FromUnits(r, us, each) =
           (CHOOSE h : h = [s \in SUBSET us |-> IF s = {} THEN r ELSE Hit(Some(s), h[s \ {Some(s)}], each)])[us]
BY DEF FromUnits, FoldSet, MapThenFoldSet, Hit, Some

\* Casualties of units.
Struck(acc, n, all) == acc = [f \in {"g", "want"} |-> acc[f]] /\ Risen(acc.g, n, all)
LEMMA HitKeeps ==
  ASSUME NEW n, NEW all, NEW acc, Struck(acc, n, all), NEW u, NEW each
  PROVE  Struck(Hit(u, acc, each), n, all)
<1> DEFINE lu == acc.g.unit[u]
           dead == Min({lu.item.mil, acc.want}
                       \cup IF each >= 0 THEN {each, ((lu.eff - 40) * FullMil) \div 100} ELSE {})
           hurt == [lu EXCEPT !.eff = @ - (dead * 100) \div FullMil,
                              !.mob = @ - (dead * 50) \div FullMil, !.item.mil = @ - dead]
           gone == [hurt EXCEPT !.own = 0, !.eff = 0, !.item.mil = 0]
<1>1. Hit(u, acc, each) =
        IF dead <= 0 THEN acc
        ELSE IF hurt.eff < MinEff
        THEN [acc EXCEPT !.g.unit[u] = gone, !.g.oops = @ \/ each >= 0, !.want = @ - dead - hurt.item.mil]
        ELSE [acc EXCEPT !.g.unit[u] = hurt, !.want = @ - dead]
  BY DEF Hit
<1> HIDE DEF dead, hurt, gone
<1>2. ASSUME NEW x, NEW y, NEW z
      PROVE  /\ Struck([acc EXCEPT !.g.unit[u] = x, !.g.oops = y, !.want = z], n, all)
             /\ Struck([acc EXCEPT !.g.unit[u] = x, !.want = z], n, all)
  BY DEF Struck, Risen, Rebels
<1>3. CASE dead <= 0
  BY <1>1, <1>3
<1>4. CASE ~(dead <= 0) /\ hurt.eff < MinEff
  <2>1. PICK x, y, z : Hit(u, acc, each) = [acc EXCEPT !.g.unit[u] = x, !.g.oops = y, !.want = z]
    BY <1>1, <1>4
  <2>2. Struck([acc EXCEPT !.g.unit[u] = x, !.g.oops = y, !.want = z], n, all)
    BY <1>2
  <2> QED
    BY <2>1, <2>2
<1>5. CASE ~(dead <= 0) /\ ~(hurt.eff < MinEff)
  <2>1. PICK x, z : Hit(u, acc, each) = [acc EXCEPT !.g.unit[u] = x, !.want = z]
    BY <1>1, <1>5
  <2>2. Struck([acc EXCEPT !.g.unit[u] = x, !.want = z], n, all)
    BY <1>2
  <2> QED
    BY <2>1, <2>2
<1> QED
  BY <1>3, <1>4, <1>5

\* Casualties of some units leave the sectors and the units that there are.
LEMMA FromUnitsKeeps ==
  ASSUME NEW m, NEW all, NEW r, Struck(r, m, all), NEW us, IsFiniteSet(us), NEW each
  PROVE  Struck(FromUnits(r, us, each), m, all)
<1> DEFINE Op(u, acc) == Hit(u, acc, each)
           Good(acc) == Struck(acc, m, all)
           base == r
<1>good. Good(base)
  OBVIOUS
<1>stays. \A u, acc : Good(acc) => Good(Op(u, acc))
  BY HitKeeps
<1> DEFINE Small(k) == {s \in SUBSET us : Cardinality(s) <= k}
           P(k) == \E g : g = [s \in Small(k) |-> IF s = {} THEN base ELSE Op(Some(s), g[s \ {Some(s)}])]
           T == {k \in 0..Cardinality(us) : P(k)}
<1>0. Cardinality(us) \in Nat
  BY FS_CardinalityType
<1>a. \A s \in SUBSET us : s # {} => Some(s) \in s
  BY DEF Some
<1>b. \A s \in SUBSET us : IsFiniteSet(s) /\ Cardinality(s) \in Nat /\ Cardinality(s) <= Cardinality(us)
  BY FS_Subset, FS_CardinalityType
<1> HIDE DEF Op, base
<1>1. 0 \in T
  <2>1. \A s \in Small(0) : s = {}
    BY <1>b, FS_EmptySet
  <2> DEFINE g == [s \in Small(0) |-> base]
  <2>2. g = [s \in Small(0) |-> IF s = {} THEN base ELSE Op(Some(s), g[s \ {Some(s)}])]
    BY <2>1
  <2> HIDE DEF g
  <2>3. P(0)
    BY <2>2, Zenon
  <2> HIDE DEF P
  <2> QED
    BY <1>0, <2>3
<1>2. ASSUME NEW n \in 0..Cardinality(us), n \in T, n < Cardinality(us) PROVE n + 1 \in T
  <2>0. P(n)
    BY <1>2
  <2>1. PICK g : g = [s \in Small(n) |-> IF s = {} THEN base ELSE Op(Some(s), g[s \ {Some(s)}])]
    BY <2>0
  <2>2. ASSUME NEW s \in Small(n + 1), s # {}
        PROVE  Some(s) \in us /\ s \ {Some(s)} \in Small(n)
    <3>1. Some(s) \in s /\ s \in SUBSET us
      BY <1>a, <2>2
    <3>2. s \ {Some(s)} \in SUBSET us /\ Cardinality(s \ {Some(s)}) = Cardinality(s) - 1 /\ Cardinality(s) \in Nat
      BY <3>1, LessOne
    <3> QED
      BY <1>0, <3>1, <3>2
  <2> DEFINE h == [s \in Small(n + 1) |-> IF s = {} THEN base ELSE Op(Some(s), g[s \ {Some(s)}])]
  <2>4. \A s \in Small(n) : s \in Small(n + 1)
    BY <1>0, <1>b
  <2>5. \A s \in Small(n) : h[s] = g[s]
    <3> TAKE s \in Small(n)
    <3>1. s \in Small(n + 1)
      BY <2>4
    <3>2. h[s] = IF s = {} THEN base ELSE Op(Some(s), g[s \ {Some(s)}])
      BY <3>1
    <3>3. g[s] = IF s = {} THEN base ELSE Op(Some(s), g[s \ {Some(s)}])
      BY <2>1
    <3> QED
      BY <3>2, <3>3
  <2>6. h = [s \in Small(n + 1) |-> IF s = {} THEN base ELSE Op(Some(s), h[s \ {Some(s)}])]
    <3>1. \A s \in Small(n + 1) : s # {} => Op(Some(s), g[s \ {Some(s)}]) = Op(Some(s), h[s \ {Some(s)}])
      BY <2>2, <2>5
    <3> QED
      BY <3>1
  <2> HIDE DEF h
  <2>7. P(n + 1)
    BY <2>6, Zenon
  <2> HIDE DEF P
  <2>8. n + 1 \in 0..Cardinality(us)
    BY <1>0, <1>2
  <2> QED
    BY <2>7, <2>8
<1> HIDE DEF T
<1>3. Cardinality(us) \in T
  BY <1>0, <1>1, <1>2, NatsBySteps
<1>4. P(Cardinality(us))
  BY <1>3 DEF T
<1>5. Small(Cardinality(us)) = SUBSET us
  BY <1>b
<1> DEFINE Goes(g) == g = [s \in SUBSET us |-> IF s = {} THEN base ELSE Op(Some(s), g[s \ {Some(s)}])]
           iter == CHOOSE g : Goes(g)
<1>6. \E g : Goes(g)
  <2> HIDE DEF Small
  <2> QED
    BY <1>4, <1>5
<1>7. Goes(iter)
  BY <1>6
<1> HIDE DEF iter
<1>8. iter[{}] = base /\ \A s \in SUBSET us : s # {} => iter[s] = Op(Some(s), iter[s \ {Some(s)}])
  BY <1>7
<1> DEFINE Q == {s \in SUBSET us : Good(iter[s])}
<1>9. ASSUME NEW s \in SUBSET us, \A x \in s : s \ {x} \in Q PROVE s \in Q
  <2> HIDE DEF Good
  <2>1. CASE s = {}
    BY <1>8, <1>good, <2>1
  <2>2. CASE s # {}
    <3>1. Some(s) \in s
      BY <1>a, <2>2
    <3>2. Good(iter[s \ {Some(s)}]) /\ Some(s) \in us
      BY <1>9, <3>1
    <3>3. Good(Op(Some(s), iter[s \ {Some(s)}]))
      BY <1>stays, <3>2
    <3> QED
      BY <1>8, <2>2, <3>3
  <2> QED
    BY <2>1, <2>2
<1> HIDE DEF Q
<1>10. SUBSET us \subseteq Q
  BY <1>9, SubsetsBySteps
<1>11. Good(iter[us])
  BY <1>10 DEF Q
<1> QED
  BY <1>11, FromUnitsIs DEF iter, Op, base

\* A ship takes food from its land units.
Fares(u, l, vs) ==
    LET need(x) == (3 * People(x.item) + 99) \div 100
        spare(k) == Floor0((100 * unit[k].item.food - 3 * People(unit[k].item)) \div 100)
        take == Cap(spare(l), Floor0(need(vs[u]) - vs[u].item.food))
    IN  [vs EXCEPT ![u].item.food = @ + take, ![l].item.food = @ - take]

\* Scrounging makes no unit and loses none.
LEMMA ScroungeKeeps ==
  ASSUME NEW u, IsFiniteSet(DOMAIN unit)
  PROVE  DOMAIN Scrounge(u) = DOMAIN unit
<1> DEFINE us == {l \in DOMAIN unit : unit[l].kind = "land" /\ unit[l].ship = u /\ unit[l].own # 0}
           Op(l, acc) == Fares(u, l, acc)
           Good(acc) == DOMAIN acc = DOMAIN unit
           base == unit
<1>is. Scrounge(u) =
        (CHOOSE h : h = [s \in SUBSET us |-> IF s = {} THEN unit ELSE Fares(u, Some(s), h[s \ {Some(s)}])])[us]
  BY DEF Scrounge, FoldSet, MapThenFoldSet, Fares, Some
<1>fin. IsFiniteSet(us)
  BY FS_Subset
<1> HIDE DEF us
<1>good. Good(base)
  OBVIOUS
<1>stays. \A l, acc : Good(acc) => Good(Op(l, acc))
  BY DEF Fares
<1> DEFINE Small(k) == {s \in SUBSET us : Cardinality(s) <= k}
           P(k) == \E g : g = [s \in Small(k) |-> IF s = {} THEN base ELSE Op(Some(s), g[s \ {Some(s)}])]
           T == {k \in 0..Cardinality(us) : P(k)}
<1>0. Cardinality(us) \in Nat
  BY <1>fin, FS_CardinalityType
<1>a. \A s \in SUBSET us : s # {} => Some(s) \in s
  BY DEF Some
<1>b. \A s \in SUBSET us : IsFiniteSet(s) /\ Cardinality(s) \in Nat /\ Cardinality(s) <= Cardinality(us)
  BY <1>fin, FS_Subset, FS_CardinalityType
<1> HIDE DEF Op, base
<1>1. 0 \in T
  <2>1. \A s \in Small(0) : s = {}
    BY <1>b, FS_EmptySet
  <2> DEFINE g == [s \in Small(0) |-> base]
  <2>2. g = [s \in Small(0) |-> IF s = {} THEN base ELSE Op(Some(s), g[s \ {Some(s)}])]
    BY <2>1
  <2> HIDE DEF g
  <2>3. P(0)
    BY <2>2, Zenon
  <2> HIDE DEF P
  <2> QED
    BY <1>0, <2>3
<1>2. ASSUME NEW n \in 0..Cardinality(us), n \in T, n < Cardinality(us) PROVE n + 1 \in T
  <2>0. P(n)
    BY <1>2
  <2>1. PICK g : g = [s \in Small(n) |-> IF s = {} THEN base ELSE Op(Some(s), g[s \ {Some(s)}])]
    BY <2>0
  <2>2. ASSUME NEW s \in Small(n + 1), s # {}
        PROVE  Some(s) \in us /\ s \ {Some(s)} \in Small(n)
    <3>1. Some(s) \in s /\ s \in SUBSET us
      BY <1>a, <2>2
    <3>2. s \ {Some(s)} \in SUBSET us /\ Cardinality(s \ {Some(s)}) = Cardinality(s) - 1 /\ Cardinality(s) \in Nat
      BY <1>fin, <3>1, LessOne
    <3> QED
      BY <1>0, <3>1, <3>2
  <2> DEFINE h == [s \in Small(n + 1) |-> IF s = {} THEN base ELSE Op(Some(s), g[s \ {Some(s)}])]
  <2>4. \A s \in Small(n) : s \in Small(n + 1)
    BY <1>0, <1>b
  <2>5. \A s \in Small(n) : h[s] = g[s]
    <3> TAKE s \in Small(n)
    <3>1. s \in Small(n + 1)
      BY <2>4
    <3>2. h[s] = IF s = {} THEN base ELSE Op(Some(s), g[s \ {Some(s)}])
      BY <3>1
    <3>3. g[s] = IF s = {} THEN base ELSE Op(Some(s), g[s \ {Some(s)}])
      BY <2>1
    <3> QED
      BY <3>2, <3>3
  <2>6. h = [s \in Small(n + 1) |-> IF s = {} THEN base ELSE Op(Some(s), h[s \ {Some(s)}])]
    <3>1. \A s \in Small(n + 1) : s # {} => Op(Some(s), g[s \ {Some(s)}]) = Op(Some(s), h[s \ {Some(s)}])
      BY <2>2, <2>5
    <3> QED
      BY <3>1
  <2> HIDE DEF h
  <2>7. P(n + 1)
    BY <2>6, Zenon
  <2> HIDE DEF P
  <2>8. n + 1 \in 0..Cardinality(us)
    BY <1>0, <1>2
  <2> QED
    BY <2>7, <2>8
<1> HIDE DEF T
<1>3. Cardinality(us) \in T
  BY <1>0, <1>1, <1>2, NatsBySteps
<1>4. P(Cardinality(us))
  BY <1>3 DEF T
<1>5. Small(Cardinality(us)) = SUBSET us
  BY <1>b
<1> DEFINE Goes(g) == g = [s \in SUBSET us |-> IF s = {} THEN base ELSE Op(Some(s), g[s \ {Some(s)}])]
           iter == CHOOSE g : Goes(g)
<1>6. \E g : Goes(g)
  <2> HIDE DEF Small
  <2> QED
    BY <1>4, <1>5
<1>7. Goes(iter)
  BY <1>6
<1> HIDE DEF iter
<1>8. iter[{}] = base /\ \A s \in SUBSET us : s # {} => iter[s] = Op(Some(s), iter[s \ {Some(s)}])
  BY <1>7
<1> DEFINE Q == {s \in SUBSET us : Good(iter[s])}
<1>9. ASSUME NEW s \in SUBSET us, \A x \in s : s \ {x} \in Q PROVE s \in Q
  <2> HIDE DEF Good
  <2>1. CASE s = {}
    BY <1>8, <1>good, <2>1
  <2>2. CASE s # {}
    <3>1. Some(s) \in s
      BY <1>a, <2>2
    <3>2. Good(iter[s \ {Some(s)}]) /\ Some(s) \in us
      BY <1>9, <3>1
    <3>3. Good(Op(Some(s), iter[s \ {Some(s)}]))
      BY <1>stays, <3>2
    <3> QED
      BY <1>8, <2>2, <3>3
  <2> QED
    BY <2>1, <2>2
<1> HIDE DEF Q
<1>10. SUBSET us \subseteq Q
  BY <1>9, <1>fin, SubsetsBySteps
<1>11. Good(iter[us])
  BY <1>10 DEF Q
<1> QED
  BY <1>11, <1>is DEF iter, Op, base

-----------------------------------------------------------------------------
\* What guerrilla() does to its sector and its other locals.
LEMMA SectorRises ==
  ASSUME NEW n \in 1..Size, NEW all, NEW g, Risen(g, n, all), NEW r, Keeps(g.sect[n], r)
  PROVE  Risen([g EXCEPT !.sect[g.n] = r], n, all)
<1> DEFINE tt == [g.sect EXCEPT ![n] = r]
           h == [g EXCEPT !.sect[g.n] = r]
<1>1. Sectors(tt)
  BY SectorPut DEF Risen
<1>2. h = [g EXCEPT !.sect = tt]
  BY DEF Risen
<1> HIDE DEF tt, h
<1>3. h = [f \in Rebels |-> h[f]] /\ h.n = g.n /\ h.sect = tt /\ h.unit = g.unit
  BY <1>2 DEF Risen, Rebels
<1> QED
  BY <1>1, <1>3 DEF Risen, h

\* Security troops only change the number of guerrillas and the bonus.
LEMMA RaidRises ==
  ASSUME NEW n, NEW all, NEW g, Risen(g, n, all), NEW r \in Raid(g)
  PROVE  Risen(r, n, all)
<1>1. PICK x, y : r = [g EXCEPT !.che = x, !.bonus = y]
  BY DEF Raid
<1> QED
  BY <1>1 DEF Risen, Rebels

\* Casualties, in all their passes.
LEMMA CasualtiesRise ==
  ASSUME NEW n \in 1..Size, NEW all, IsFiniteSet(all), NEW g, Risen(g, n, all), NEW dies
  PROVE  Risen(TakeCasualties(g, dies).g, n, all)
<1> DEFINE here   == Cur(g).item.mil
           bare   == [g EXCEPT !.sect[g.n].item.mil = Floor0(@ - dies)]
           us     == {u \in Garrison(g) : g.unit[u].item.mil > 0}
           guards == {u \in us : g.unit[u].security}
           each   == ((dies - here) \div Cardinality(us)) + 2
           pass0  == [g |-> bare, want |-> dies - here]
           pass1  == FromUnits(pass0, guards, each)
           pass2  == FromUnits(pass1, us \ guards, each)
           pass3  == FromUnits(pass2, us \ guards, -1)
           pass4  == FromUnits(pass3, guards, -1)
<1>1. Risen(bare, n, all)
  <2> DEFINE s == g.sect[n]
             x == Floor0(s.item.mil - dies)
             r == [s EXCEPT !.item.mil = x]
  <2>1. bare = [g EXCEPT !.sect[g.n] = r]
    BY DEF Risen
  <2>2. Laid(s)
    BY DEF Risen, Sectors
  <2> HIDE DEF s, x
  <2>3. Keeps(s, r)
    BY <2>2 DEF Keeps, Laid, Marks
  <2> HIDE DEF r, bare
  <2> QED
    BY <2>1, <2>3, SectorRises DEF s
<1>2. IsFiniteSet(guards) /\ IsFiniteSet(us \ guards)
  <2>1. guards \in SUBSET all /\ us \ guards \in SUBSET all
    BY DEF Garrison, Risen
  <2> HIDE DEF us, guards
  <2> QED
    BY <2>1, FS_Subset
<1>3. TakeCasualties(g, dies) =
        IF dies <= here THEN [g |-> bare, taken |-> dies]
        ELSE IF us = {} THEN [g |-> [bare EXCEPT !.oops = TRUE], taken |-> here]
        ELSE [g |-> [pass4.g EXCEPT !.oops = @ \/ pass4.want > 0], taken |-> dies - pass4.want]
  BY DEF TakeCasualties
<1> HIDE DEF here, bare, us, guards, each
<1>4. Struck(pass0, n, all)
  BY <1>1 DEF Struck
<1> HIDE DEF pass0
<1>5. Struck(pass1, n, all)
  BY <1>2, <1>4, FromUnitsKeeps
<1> HIDE DEF pass1
<1>6. Struck(pass2, n, all)
  BY <1>2, <1>5, FromUnitsKeeps
<1> HIDE DEF pass2
<1>7. Struck(pass3, n, all)
  BY <1>2, <1>6, FromUnitsKeeps
<1> HIDE DEF pass3
<1>8. Struck(pass4, n, all)
  BY <1>2, <1>7, FromUnitsKeeps
<1> HIDE DEF pass4
<1>9. \A h : Risen(h, n, all) => \A x : Risen([h EXCEPT !.oops = x], n, all)
  <2> TAKE h
  <2> HAVE Risen(h, n, all)
  <2> TAKE x
  <2> QED
    BY DEF Risen, Rebels
<1>10. Risen(pass4.g, n, all)
  BY <1>8 DEF Struck
<1>11. CASE dies <= here
  BY <1>1, <1>3, <1>11
<1>12. CASE ~(dies <= here) /\ us = {}
  <2>1. TakeCasualties(g, dies).g = [bare EXCEPT !.oops = TRUE]
    BY <1>3, <1>12
  <2> QED
    BY <1>1, <1>9, <2>1
<1>13. CASE ~(dies <= here) /\ us # {}
  <2> DEFINE x == pass4.g.oops \/ pass4.want > 0
             h == [pass4.g EXCEPT !.oops = x]
  <2>1. TakeCasualties(g, dies) = [g |-> h, taken |-> dies - pass4.want]
    BY <1>3, <1>13, Zenon
  <2>2. Risen(h, n, all)
    <3> HIDE DEF x
    <3> QED
      BY <1>9, <1>10
  <2> HIDE DEF h
  <2> QED
    BY <2>1, <2>2
<1> QED
  BY <1>11, <1>12, <1>13

\* A fight.
LEMMA FightRises ==
  ASSUME NEW n \in 1..Size, NEW all, IsFiniteSet(all), NEW g, Risen(g, n, all), NEW m, NEW f \in Fight(g, m)
  PROVE  Risen(f, n, all)
<1> DEFINE lose(dies, cc) == [TakeCasualties(g, dies).g EXCEPT !.che = @ - cc, !.mil = @ - TakeCasualties(g, dies).taken,
                                                           !.fought = TRUE]
<1>1. Fight(g, m) = {lose(m, cc) : cc \in Roll0(g.che)} \cup {lose(dies, g.che) : dies \in Roll0(m)}
  BY DEF Fight
<1>2. \E dies, cc : f = lose(dies, cc)
  <2> HIDE DEF lose
  <2> QED
    BY <1>1
<1>3. PICK dies, cc : f = lose(dies, cc)
  BY <1>2
<1> DEFINE h == TakeCasualties(g, dies).g
<1>4. Risen(h, n, all)
  BY CasualtiesRise
<1>5. PICK x, y : f = [h EXCEPT !.che = x, !.mil = y, !.fought = TRUE]
  BY <1>3
<1> HIDE DEF h, lose
<1> QED
  BY <1>4, <1>5 DEF Risen, Rebels

\* Damage to a number, to a sector, and what guerrillas do otherwise.
Tears(x, p, up) == x - (x * p + up * 99) \div 100
Torn(s, m, up) ==
    LET dam == m \div 10
        pct == (100 * dam) \div (100 + dam)
    IN  [s EXCEPT !.work = Floor0(@ - m), !.eff = Tears(@, dam, up), !.avail = Tears(@, dam, up),
                  !.mob = IF @ > 0 THEN Tears(@, dam, up) ELSE @,
                  !.item = [i \in Items |-> Tears(s.item[i], pct, up)]]
LEMMA DisruptIs ==
  ASSUME NEW g, NEW m
  PROVE  Disrupt(g, m) = {IF m \div 10 = 0 THEN [g EXCEPT !.sect[g.n].work = Floor0(@ - m)]
                          ELSE [g EXCEPT !.sect[g.n] = Torn(g.sect[g.n], m, up)] : up \in {0, 1}}
BY DEF Disrupt, Cur, Torn, Tears

\* Damage leaves orders alone.
LEMMA DisruptRises ==
  ASSUME NEW n \in 1..Size, NEW all, NEW g, Risen(g, n, all), NEW m, NEW d \in Disrupt(g, m)
  PROVE  Risen(d, n, all)
<1> DEFINE s == g.sect[n]
           idle == [s EXCEPT !.work = Floor0(@ - m)]
           end(up) == IF m \div 10 = 0 THEN [g EXCEPT !.sect[g.n].work = Floor0(@ - m)]
                      ELSE [g EXCEPT !.sect[g.n] = Torn(g.sect[g.n], m, up)]
<1>1. Laid(s)
  BY DEF Risen, Sectors
<1>2. PICK up : d = end(up)
  <2>1. Disrupt(g, m) = {end(up) : up \in {0, 1}}
    BY DisruptIs
  <2> HIDE DEF end
  <2> QED
    BY <2>1
<1>3. CASE m \div 10 = 0
  <2>1. d = [g EXCEPT !.sect[g.n] = idle]
    BY <1>2, <1>3 DEF Risen
  <2>2. Keeps(s, idle)
    <3> HIDE DEF s
    <3>1. PICK x : idle = [s EXCEPT !.work = x]
      OBVIOUS
    <3> QED
      BY <1>1, <3>1 DEF Keeps, Laid, Marks
  <2> HIDE DEF idle
  <2> QED
    BY <2>1, <2>2, SectorRises
<1>4. CASE m \div 10 # 0
  <2>1. d = [g EXCEPT !.sect[g.n] = Torn(s, m, up)]
    BY <1>2, <1>4 DEF Risen
  <2>2. Keeps(s, Torn(s, m, up))
    <3> HIDE DEF s
    <3>1. PICK x, y, z, a, b : Torn(s, m, up) = [s EXCEPT !.work = x, !.eff = y, !.avail = z, !.mob = a, !.item = b]
      BY DEF Torn
    <3> QED
      BY <1>1, <3>1 DEF Keeps, Laid, Marks
  <2> QED
    BY <2>1, <2>2, SectorRises
<1> QED
  BY <1>3, <1>4

\* What becomes of a rising, as Act() has it.
Spreads(h) == [h EXCEPT !.recruit = TRUE, !.convert = TRUE]
Calmed(h, n, r) == [h EXCEPT !.sect[n].loyal = Floor0(@ - r)]
Wins(h, n) == IF h.che > 0 \/ h.mil <= 0 THEN {Spreads(h)} ELSE {Calmed(h, n, r) : r \in Roll0(15)}
Wrecks(g, a, b) == {[d EXCEPT !.recruit = TRUE] : d \in Disrupt(g, Cap(a + b, 100))}
LEMMA ActIs ==
  ASSUME NEW g
  PROVE  \A a \in Act(g) : \/ a = Spreads(g) \/ a = [g EXCEPT !.move = TRUE]
                           \/ \E f \in Fight(g, g.mil) : a \in Wins(f, g.n)
                           \/ \E b, c : a \in Wrecks(g, b, c)
<1>1. Act(g) = IF g.mil = 0 THEN {Spreads(g)}
               ELSE IF g.che > g.mil THEN UNION {Wins(f, g.n) : f \in Fight(g, g.mil)}
               ELSE IF ~(g.mil + g.bonus >= 5 * g.che)
               THEN UNION {Wrecks(g, a, b) : a \in Roll0(10), b \in Roll0(g.che)}
               ELSE {[g EXCEPT !.move = TRUE]}
  BY DEF Act, Spreads, Calmed, Wins, Wrecks
<1> QED
  BY <1>1

\* Whatever guerrillas do.
LEMMA ActRises ==
  ASSUME NEW n \in 1..Size, NEW all, IsFiniteSet(all), NEW g, Risen(g, n, all), NEW a \in Act(g)
  PROVE  Risen(a, n, all)
<1>1. ASSUME NEW h, Risen(h, n, all)
      PROVE  /\ Risen(Spreads(h), n, all)
             /\ Risen([h EXCEPT !.recruit = TRUE], n, all) /\ Risen([h EXCEPT !.move = TRUE], n, all)
  BY <1>1 DEF Risen, Rebels, Spreads
<1>2. ASSUME NEW f \in Fight(g, g.mil), a \in Wins(f, g.n) PROVE Risen(a, n, all)
  <2>1. Risen(f, n, all)
    BY FightRises
  <2>2. Risen(Spreads(f), n, all)
    BY <1>1, <2>1
  <2>3. ASSUME NEW r, a = Calmed(f, g.n, r) PROVE Risen(a, n, all)
    <3> DEFINE s == f.sect[n]
    <3>1. PICK x : a = [f EXCEPT !.sect[f.n] = [s EXCEPT !.loyal = x]]
      BY <2>1, <2>3 DEF Calmed, Risen
    <3>2. Laid(s)
      BY <2>1 DEF Risen, Sectors
    <3>3. Keeps(s, [s EXCEPT !.loyal = x])
      <4> HIDE DEF s
      <4> QED
        BY <3>2 DEF Keeps, Laid, Marks
    <3> QED
      BY <2>1, <3>1, <3>3, SectorRises
  <2>4. a = Spreads(f) \/ \E r : a = Calmed(f, g.n, r)
    BY <1>2 DEF Wins
  <2> QED
    BY <2>2, <2>3, <2>4
<1>3. ASSUME NEW b, NEW c, a \in Wrecks(g, b, c) PROVE Risen(a, n, all)
  <2>1. PICK d \in Disrupt(g, Cap(b + c, 100)) : a = [d EXCEPT !.recruit = TRUE]
    BY <1>3 DEF Wrecks
  <2>2. Risen(d, n, all)
    BY DisruptRises
  <2> QED
    BY <1>1, <2>1, <2>2
<1>4. Risen(Spreads(g), n, all) /\ Risen([g EXCEPT !.move = TRUE], n, all)
  BY <1>1
<1>5. \/ a = Spreads(g) \/ a = [g EXCEPT !.move = TRUE]
      \/ \E f \in Fight(g, g.mil) : a \in Wins(f, g.n)
      \/ \E b, c : a \in Wrecks(g, b, c)
  BY ActIs
<1> QED
  BY <1>2, <1>3, <1>4, <1>5

\* Guerrillas that are caught fight.
LEMMA CaughtRises ==
  ASSUME NEW n \in 1..Size, NEW all, IsFiniteSet(all), NEW g, Risen(g, n, all), NEW a \in Caught(g)
  PROVE  Risen(a, n, all)
<1>1. a = g \/ \E f \in Fight(g, g.mil \div 5 + 1) : a = [f EXCEPT !.recruit = FALSE]
  BY DEF Caught
<1>2. ASSUME NEW f \in Fight(g, g.mil \div 5 + 1), a = [f EXCEPT !.recruit = FALSE] PROVE Risen(a, n, all)
  <2>1. Risen(f, n, all)
    BY FightRises
  <2> QED
    BY <1>2, <2>1 DEF Risen, Rebels
<1> QED
  BY <1>1, <1>2

\* The sector as takeover() leaves it, and the guerrillas' view of it.
Ceded(s, n, own, off, civ, mil, uw) ==
    [s EXCEPT !.own = own, !.oldown = own, !.off = off, !.avail = 0,
              !.del = None, !.dist = None, !.distTo = n, !.loyal = 0,
              !.item.civ = civ, !.item.mil = mil, !.item.uw = uw]
Seized(g, r, units) == [g EXCEPT !.sect[g.n] = r, !.unit = units, !.move = TRUE, !.recruit = FALSE]

\* A sector that is converted loses its orders, and no unit disappears.
LEMMA ConvertIs ==
  ASSUME NEW g
  PROVE  \A c \in Convert(g) :
           c = g \/ \E own, off, civ, mil, uw, units :
                       /\ c = Seized(g, Ceded(g.sect[g.n], g.n, own, off, civ, mil, uw), units)
                       /\ DOMAIN units = DOMAIN g.unit
<1> DEFINE s == g.sect[g.n]
           to == IF s.own = s.oldown THEN 0 ELSE s.oldown
           folk == g.civ + g.uw
           mi == folk \div 20
           lost == {u \in DOMAIN g.unit : g.unit[u].at = g.n /\ g.unit[u].own = s.own
                                          /\ g.unit[u].kind # "ship" /\ g.unit[u].ship = "none"}
           taken(u) == IF u.eff - 30 < MinEff THEN [u EXCEPT !.own = 0, !.eff = 0]
                       ELSE [u EXCEPT !.own = to, !.eff = @ - 30]
           fate(spared) == [u \in DOMAIN g.unit |->
                               IF u \notin lost THEN g.unit[u]
                               ELSE IF spared THEN taken(g.unit[u])
                               ELSE [g.unit[u] EXCEPT !.own = 0, !.eff = 0]]
           ci == Cap(folk - mi, ITEM_MAX)
           wo == Floor0(folk - mi - ITEM_MAX)
           of == (s.own # 0)
           r == Ceded(s, g.n, to, of, ci, mi, wo)
<1>1. Convert(g) = IF ~g.convert \/ s.loyal < 50 THEN {g} ELSE {Seized(g, r, fate(spared)) : spared \in BOOLEAN}
  BY DEF Convert, Cur, Seized, Ceded
<1>2. \A spared : DOMAIN fate(spared) = DOMAIN g.unit
  OBVIOUS
<1> HIDE DEF fate
<1>3. ASSUME NEW c \in Convert(g), c # g
      PROVE  \E spared : c = Seized(g, r, fate(spared))
  <2> HIDE DEF r, s
  <2> QED
    BY <1>1, <1>3
<1> HIDE DEF to, ci, mi, wo, of
<1> QED
  <2> TAKE c \in Convert(g)
  <2> SUFFICES ASSUME c # g
               PROVE  \E own, off, civ, mil, uw, units :
                         /\ c = Seized(g, Ceded(g.sect[g.n], g.n, own, off, civ, mil, uw), units)
                         /\ DOMAIN units = DOMAIN g.unit
    OBVIOUS
  <2>1. PICK spared : c = Seized(g, r, fate(spared))
    BY <1>3
  <2>2. DOMAIN fate(spared) = DOMAIN g.unit
    BY <1>2
  <2> WITNESS to, of, ci, mi, wo, fate(spared)
  <2> QED
    BY <2>1, <2>2

\* A converted sector has no orders left, and distributes to itself.
LEMMA ConvertRises ==
  ASSUME NEW n \in 1..Size, NEW all, IsFiniteSet(all), NEW g, Risen(g, n, all), NEW c \in Convert(g)
  PROVE  Risen(c, n, all)
<1>1. SUFFICES ASSUME c # g PROVE Risen(c, n, all)
  OBVIOUS
<1>2. PICK own, off, civ, mil, uw, units :
         /\ c = Seized(g, Ceded(g.sect[g.n], g.n, own, off, civ, mil, uw), units)
         /\ DOMAIN units = DOMAIN g.unit
  BY <1>1, ConvertIs
<1> DEFINE s == g.sect[n]
           r == Ceded(s, n, own, off, civ, mil, uw)
<1>3. Laid(s)
  BY DEF Risen, Sectors
<1>4. Laid(r) /\ r.del = None /\ r.dist = None /\ r.distTo = n
  <2> DEFINE q == [s EXCEPT !.own = own, !.oldown = own, !.off = off, !.avail = 0,
                           !.del = None, !.dist = None, !.distTo = n, !.loyal = 0]
             it == [[[q.item EXCEPT !.civ = civ] EXCEPT !.mil = mil] EXCEPT !.uw = uw]
  <2> HIDE DEF s
  <2>1. Laid(q) /\ q.del = None /\ q.dist = None /\ q.distTo = n
    BY <1>3 DEF Laid, Marks
  <2>2. r = [q EXCEPT !.item = it]
    <3>1. r = [[[q EXCEPT !.item.civ = civ] EXCEPT !.item.mil = mil] EXCEPT !.item.uw = uw]
      BY DEF Ceded
    <3> HIDE DEF q, r
    <3> QED
      BY <2>1, <3>1 DEF Laid, Marks
  <2> HIDE DEF q, it, r
  <2> QED
    BY <2>1, <2>2 DEF Laid, Marks
<1> HIDE DEF r
<1>5. DOMAIN None = {}
  BY DEF None
<1>6. Ordered(r)
  BY <1>4, <1>5 DEF Ordered
<1>7. Sectors([g.sect EXCEPT ![n] = r])
  BY <1>4, <1>6 DEF Risen, Sectors
<1>8. c = [g EXCEPT !.sect[n] = r, !.unit = units, !.move = TRUE, !.recruit = FALSE]
  BY <1>2 DEF Risen, Seized, r
<1>9. c = [g EXCEPT !.sect = [g.sect EXCEPT ![n] = r], !.unit = units, !.move = TRUE, !.recruit = FALSE]
  BY <1>8
<1> DEFINE ss == [g.sect EXCEPT ![n] = r]
<1> HIDE DEF ss
<1> QED
  BY <1>2, <1>7, <1>9 DEF Risen, Rebels, ss

\* Who joins the guerrillas, for some outcome of the dice.
Joined(g, l, r, q) ==
    LET s == Cur(g)
        join(n, che) == IF n + che > CHE_MAX THEN CHE_MAX - che ELSE n
        loyal == Cap(s.loyal + l, 127)
        sour == s.oldown # s.own \/ loyal > 100
        c == IF sour THEN join((g.civ * r) \div 200, g.che) ELSE 0
        u == join((g.uw * q) \div 200, g.che + c)
    IN  [g EXCEPT !.che = @ + c + u,
                  !.sect[g.n] = [s EXCEPT !.loyal = loyal, !.item.uw = g.uw - u,
                                          !.item.civ = IF sour THEN g.civ - c ELSE @]]
LEMMA RecruitIs ==
  ASSUME NEW g
  PROVE  \A c \in Recruit(g) : c = g \/ \E l, r, q : c = Joined(g, l, r, q)
<1> DEFINE gained(l) == IF l < 30 THEN Roll(5)
                        ELSE IF l < 70 THEN {r + 3 : r \in Roll(10)} ELSE {0}
<1>1. Recruit(g) = IF ~g.recruit \/ g.che <= 0 THEN {g}
                   ELSE {Joined(g, l, r, q) : l \in gained(Cur(g).loyal), r \in Roll0(3), q \in Roll0(3)}
  BY DEF Recruit, Joined
<1> HIDE DEF gained
<1> QED
  BY <1>1

\* Who is recruited leaves the sector in order.
LEMMA RecruitRises ==
  ASSUME NEW n \in 1..Size, NEW all, NEW g, Risen(g, n, all), NEW c \in Recruit(g)
  PROVE  Risen(c, n, all)
<1>1. SUFFICES ASSUME NEW l, NEW r, NEW q, c = Joined(g, l, r, q) PROVE Risen(c, n, all)
  BY RecruitIs
<1> DEFINE s == Cur(g)
           join(k, che) == IF k + che > CHE_MAX THEN CHE_MAX - che ELSE k
           loyal == Cap(s.loyal + l, 127)
           sour == s.oldown # s.own \/ loyal > 100
           d == IF sour THEN join((g.civ * r) \div 200, g.che) ELSE 0
           u == join((g.uw * q) \div 200, g.che + d)
           wo == g.uw - u
           ci == g.civ - d
           che == g.che + d + u
           t == [s EXCEPT !.loyal = loyal, !.item.uw = wo, !.item.civ = IF sour THEN ci ELSE @]
<1>2. c = [g EXCEPT !.che = che, !.sect[g.n] = t]
  BY <1>1 DEF Joined
<1>3. g.n = n /\ s = g.sect[n] /\ Laid(s)
  BY DEF Risen, Sectors, Cur
<1> HIDE DEF s, wo, ci, sour, loyal, che
<1>4. Keeps(s, t)
  <2> DEFINE x == [s EXCEPT !.loyal = loyal]
             a == [x.item EXCEPT !.uw = wo]
             y == [x EXCEPT !.item = a]
             b == [y.item EXCEPT !.civ = IF sour THEN ci ELSE @]
             z == [y EXCEPT !.item = b]
  <2>1. Keeps(s, x)
    BY <1>3 DEF Keeps, Laid, Marks
  <2>2. t = z
    <3>1. t = [[x EXCEPT !.item.uw = wo] EXCEPT !.item.civ = IF sour THEN ci ELSE @]
      OBVIOUS
    <3> HIDE DEF x, t
    <3> QED
      BY <2>1, <3>1 DEF Keeps, Laid, Marks
  <2> HIDE DEF x, a
  <2>3. Keeps(x, y)
    BY <2>1 DEF Keeps, Laid, Marks
  <2> HIDE DEF y, b
  <2>4. Keeps(y, z)
    BY <2>3 DEF Keeps, Laid, Marks
  <2> QED
    BY <2>1, <2>2, <2>3, <2>4 DEF Keeps
<1> HIDE DEF t
<1> DEFINE h == [g EXCEPT !.sect[g.n] = t]
<1>5. Risen(h, n, all)
  BY <1>3, <1>4, SectorRises
<1>6. c = [h EXCEPT !.che = che]
  BY <1>2 DEF Risen, Rebels
<1> HIDE DEF h
<1> QED
  BY <1>5, <1>6 DEF Risen, Rebels

\* Guerrillas that move add to a neighbor's.
LEMMA FleeRises ==
  ASSUME NEW n \in 1..Size, NEW all, NEW g, Risen(g, n, all), NEW f \in Flee(g)
  PROVE  Risen(f, n, all)
<1> DEFINE fewest == IF g.convert THEN 999 ELSE g.mil
           about(m, r) == ((m + 5) \div 10) * 10 + r - 6
           nice == {m \in {g.n - 1, g.n + 1} \cap 1..Size :
                      LET s == g.sect[m] IN
                      /\ SectorTypes[s.type].pass /\ s.own = g.target
                      /\ s.che > 0 => s.tgt = g.target /\ s.che + g.che <= CHE_MAX
                      /\ about(s.item.mil, 1) < fewest}
           sure == {m \in nice : about(g.sect[m].item.mil, 10) < fewest}
           gone(m) == [g EXCEPT !.sect[m].che = @ + g.che, !.sect[m].tgt = g.target, !.che = 0]
<1>1. Flee(g) = IF ~g.move \/ g.che <= 0 THEN {g}
                ELSE {gone(m) : m \in nice} \cup (IF sure = {} THEN {g} ELSE {})
  BY DEF Flee
<1>2. nice \subseteq 1..Size
  OBVIOUS
<1> HIDE DEF nice, sure
<1>3. SUFFICES ASSUME NEW m \in 1..Size, f = gone(m) PROVE Risen(f, n, all)
  BY <1>1, <1>2
<1> DEFINE s == g.sect[m]
           x == s.che + g.che
           t == [s EXCEPT !.che = x, !.tgt = g.target]
           tt == [g.sect EXCEPT ![m] = t]
<1>4. f = [g EXCEPT !.sect = tt, !.che = 0]
  <2>1. f = [[[g EXCEPT !.sect[m].che = @ + g.che] EXCEPT !.sect[m].tgt = g.target] EXCEPT !.che = 0]
    BY <1>3
  <2> QED
    BY <2>1 DEF Risen, Rebels, Sectors, Laid, Marks
<1>5. Laid(s)
  BY DEF Risen, Sectors
<1>6. Keeps(s, t)
  <2> HIDE DEF s, x
  <2> QED
    BY <1>5 DEF Keeps, Laid, Marks
<1> HIDE DEF t
<1>7. Sectors(tt)
  BY <1>6, SectorPut DEF Risen
<1> HIDE DEF tt
<1> QED
  BY <1>4, <1>7 DEF Risen, Rebels

\* What guerrilla() leaves.
Risings(r, n, us) == Sectors(r.sect) /\ DOMAIN r.unit = us
LEMMA Settles ==
  ASSUME NEW n \in 1..Size, NEW all, NEW g, Risen(g, n, all)
  PROVE  Risings(Settle(g), n, all)
<1> DEFINE s == g.sect[n]
           che == Floor0(g.che)
           tgt == IF g.che > 0 THEN g.target ELSE 0
           t == [s EXCEPT !.che = che, !.tgt = tgt]
<1>1. g.n = n /\ Laid(s) /\ Sectors(g.sect) /\ DOMAIN g.unit = all
  BY DEF Risen, Sectors
<1>2. Keeps(s, t)
  <2> HIDE DEF s, che, tgt
  <2> QED
    BY <1>1 DEF Keeps, Laid, Marks
<1>3. [g.sect EXCEPT ![g.n].che = che, ![g.n].tgt = tgt] = [g.sect EXCEPT ![n] = t]
  <2> HIDE DEF che, tgt
  <2> QED
    BY <1>1 DEF Sectors, Laid, Marks
<1> HIDE DEF t
<1>4. Sectors([g.sect EXCEPT ![n] = t])
  BY <1>1, <1>2, SectorPut
<1>5. /\ Settle(g).sect = [g.sect EXCEPT ![g.n].che = che, ![g.n].tgt = tgt]
      /\ Settle(g).unit = g.unit
  BY DEF Settle
<1> QED
  BY <1>1, <1>3, <1>4, <1>5 DEF Risings

\* The guerrillas' locals to begin with.
LEMMA Musters ==
  ASSUME NEW n \in 1..Size, Sectors(sect)
  PROVE  Risen(Muster(sect, unit, n), n, DOMAIN unit)
<1> DEFINE g == [sect |-> sect, unit |-> unit, n |-> n, victim |-> sect[n].own,
                 target |-> sect[n].tgt, che |-> sect[n].che, mil |-> sect[n].item.mil,
                 civ |-> sect[n].item.civ, uw |-> sect[n].item.uw, bonus |-> 0,
                 fought |-> FALSE, recruit |-> FALSE, convert |-> FALSE, move |-> FALSE,
                 oops |-> FALSE]
           h == [g EXCEPT !.mil = @ + Troops(g, Garrison(g))]
<1>1. Muster(sect, unit, n) = h
  BY DEF Muster
<1>2. /\ g = [f \in Rebels |-> g[f]] /\ g.n = n /\ g.sect = sect /\ g.unit = unit
  BY DEF Rebels
<1> HIDE DEF g
<1>3. h = [f \in Rebels |-> h[f]] /\ h.n = n /\ h.sect = sect /\ h.unit = unit
  BY <1>2 DEF Rebels
<1> HIDE DEF h
<1> QED
  BY <1>1, <1>3 DEF Risen

\* Retired guerrillas are civilians again.
LEMMA Retires ==
  ASSUME NEW n \in 1..Size, NEW all, NEW g, Risen(g, n, all), NEW x
  PROVE  Risen([g EXCEPT !.che = 0, !.sect[n].item.civ = x], n, all)
<1> DEFINE s == g.sect[n]
           t == [s EXCEPT !.item.civ = x]
           h == [g EXCEPT !.sect[g.n] = t]
           k == [g EXCEPT !.che = 0, !.sect[n].item.civ = x]
<1>1. Laid(s) /\ g.n = n
  BY DEF Risen, Sectors
<1>2. Keeps(s, t)
  <2> HIDE DEF s
  <2> QED
    BY <1>1 DEF Keeps, Laid, Marks
<1>3. k = [h EXCEPT !.che = 0]
  BY <1>1 DEF Risen, Rebels, Sectors, Laid, Marks
<1> HIDE DEF t, k
<1>4. Risen(h, n, all)
  BY <1>2, SectorRises
<1> HIDE DEF h
<1>5. Risen(k, n, all)
  BY <1>3, <1>4 DEF Risen, Rebels
<1> QED
  BY <1>5 DEF k

\* Whatever guerrillas do, the sectors stay in order and the units are those there were.
LEMMA GuerrillaKeeps ==
  ASSUME NEW n \in 1..Size, Sectors(sect), IsFiniteSet(DOMAIN unit), NEW o \in Guerrilla(sect, unit, n, Gone)
  PROVE  Risings(o, n, DOMAIN unit)
<1> DEFINE all == DOMAIN unit
           g == Muster(sect, unit, n)
           rising(r) == UNION {UNION {UNION {Recruit(v) : v \in Convert(c)} : c \in Caught(a)} : a \in Act(r)}
           acts(r) ==
             IF r.che = 0 THEN {Settle(r)}
             ELSE IF r.target \in Gone
             THEN {Settle([r EXCEPT !.che = 0, !.sect[n].item.civ = Cap(g.civ + r.che, ITEM_MAX)])}
             ELSE IF Cur(r).own # r.target
             THEN {Settle(f) : f \in Flee([r EXCEPT !.move = TRUE])}
             ELSE {Settle(f) : f \in UNION {Flee(w) : w \in rising(r)}}
<1>1. Guerrilla(sect, unit, n, Gone) =
        IF g.che = 0 THEN {[sect |-> sect, unit |-> unit, oops |-> FALSE]}
        ELSE UNION {acts(r) : r \in Raid(g)}
  BY DEF Guerrilla
<1>2. Risen(g, n, all)
  BY Musters
<1>3. ASSUME NEW r, Risen(r, n, all), NEW w \in rising(r) PROVE Risen(w, n, all)
  <2>1. PICK a \in Act(r) : w \in UNION {UNION {Recruit(v) : v \in Convert(c)} : c \in Caught(a)}
    BY <1>3
  <2>2. PICK c \in Caught(a) : w \in UNION {Recruit(v) : v \in Convert(c)}
    BY <2>1
  <2>3. PICK v \in Convert(c) : w \in Recruit(v)
    BY <2>2
  <2>4. Risen(a, n, all)
    BY <1>3, ActRises
  <2>5. Risen(c, n, all)
    BY <2>4, CaughtRises
  <2>6. Risen(v, n, all)
    BY <2>5, ConvertRises
  <2> QED
    BY <2>3, <2>6, RecruitRises
<1> HIDE DEF rising
<1>4. ASSUME NEW r, Risen(r, n, all), NEW a \in acts(r) PROVE Risings(a, n, all)
  <2>1. \/ a = Settle(r)
        \/ \E x : a = Settle([r EXCEPT !.che = 0, !.sect[n].item.civ = x])
        \/ \E f \in Flee([r EXCEPT !.move = TRUE]) : a = Settle(f)
        \/ \E w \in rising(r) : \E f \in Flee(w) : a = Settle(f)
    BY <1>4
  <2>2. CASE a = Settle(r)
    BY <1>4, <2>2, Settles
  <2>3. ASSUME NEW x, a = Settle([r EXCEPT !.che = 0, !.sect[n].item.civ = x]) PROVE Risings(a, n, all)
    <3>1. Risen([r EXCEPT !.che = 0, !.sect[n].item.civ = x], n, all)
      BY <1>4, Retires
    <3> QED
      BY <2>3, <3>1, Settles
  <2>4. ASSUME NEW f \in Flee([r EXCEPT !.move = TRUE]), a = Settle(f) PROVE Risings(a, n, all)
    <3>1. Risen([r EXCEPT !.move = TRUE], n, all)
      BY <1>4 DEF Risen, Rebels
    <3>2. Risen(f, n, all)
      BY <3>1, FleeRises
    <3> QED
      BY <2>4, <3>2, Settles
  <2>5. ASSUME NEW w \in rising(r), NEW f \in Flee(w), a = Settle(f) PROVE Risings(a, n, all)
    <3>1. Risen(w, n, all)
      BY <1>3, <1>4
    <3>2. Risen(f, n, all)
      BY <3>1, FleeRises
    <3> QED
      BY <2>5, <3>2, Settles
  <2> QED
    BY <2>1, <2>2, <2>3, <2>4, <2>5
<1> HIDE DEF acts
<1>5. CASE g.che = 0
  <2>1. o = [sect |-> sect, unit |-> unit, oops |-> FALSE]
    BY <1>1, <1>5
  <2> QED
    BY <2>1 DEF Risings
<1>6. CASE g.che # 0
  <2>1. PICK r \in Raid(g) : o \in acts(r)
    BY <1>1, <1>6
  <2>2. Risen(r, n, all)
    BY <1>2, RaidRises
  <2> QED
    BY <1>4, <2>1, <2>2
<1> QED
  BY <1>5, <1>6

-----------------------------------------------------------------------------
\* Parts of the update that take sectors one by one, and what is done in them.
BySector == {"guerrilla", "produce", "deliver", "export", "import"}
Inside   == {"populace", "tax", "feed", "plague", "loss"}
AllSorted == /\ Sectors(sect) /\ IsFiniteSet(DOMAIN unit)
             /\ upAt \in BySector \cup Inside => upN \in 1..Size

\* Part p of the update goes on or ends.
LEMMA Advances ==
  ASSUME NEW p, Advance(p), p \notin Inside, p \in BySector => upN \in 1..Size
  PROVE  upAt' \in BySector \cup Inside => upN' \in 1..Size
<1>1. 1 \in 1..Size
  BY SizeIs
<1>2. CASE upN < LastOf(p)
  <2>1. upN' = upN + 1 /\ upAt' = p
    BY <1>2 DEF Advance
  <2>2. CASE p \in BySector
    <3>1. LastOf(p) = Size
      BY <2>2 DEF LastOf, BySector
    <3> QED
      BY <1>2, <2>1, <2>2, <3>1, SizeIs
  <2> QED
    BY <2>1, <2>2
<1>3. CASE ~(upN < LastOf(p))
  BY <1>1, <1>3 DEF Advance
<1> QED
  BY <1>2, <1>3

\* The same sector with other orders than it had is not what a step makes of it.
LEMMA SectorStays ==
  ASSUME Sectors(sect), NEW n \in 1..Size
  PROVE  Laid(sect[n]) /\ Keeps(sect[n], sect[n])
BY DEF Sectors, Keeps

\* Every sector may change, but for its orders.
LEMMA SectorsPut ==
  ASSUME NEW ss, Sectors(ss), NEW tt, tt = [n \in 1..Size |-> tt[n]], \A n \in 1..Size : Keeps(ss[n], tt[n])
  PROVE  Sectors(tt)
BY DEF Sectors, Keeps, Ordered

\* What production keeps.
LEMMA WorkKept ==
  ASSUME Sectors(sect), NEW n \in 1..Size, NEW s, KeepWork(n, s), simulation \/ Keeps(sect[n], s)
  PROVE  Sectors(sect')
<1>1. sect' = sect \/ (~simulation /\ sect' = [sect EXCEPT ![n] = s])
  BY DEF KeepWork
<1> QED
  BY <1>1, SectorPut

\* What becomes of the sector at hand.
LEMMA Became ==
  ASSUME Sectors(sect), upN \in 1..Size, NEW s, Becomes(s), simulation \/ Keeps(sect[upN], s)
  PROVE  Sectors(sect')
<1>1. sect' = sect \/ (~simulation /\ sect' = [sect EXCEPT ![upN] = s])
  BY DEF Becomes
<1> QED
  BY <1>1, SectorPut

\* Goods that move leave the orders alone.
LEMMA MovedStays ==
  ASSUME Sectors(sect), NEW stay, NEW ss \in Shipped(stay)
  PROVE  Sectors(ss)
<1>1. /\ ss \in [1..Size -> [Marks -> Contents]]
      /\ \A n \in 1..Size : Stocked(ss[n], sect[n])
  BY DEF Shipped
<1>2. \A n \in 1..Size : Keeps(sect[n], ss[n])
  BY <1>1 DEF Stocked, Keeps, Laid
<1> QED
  BY <1>1, <1>2, SectorsPut

\* One sector after another is delivered from, exports and imports.
LEMMA Delivers ==
  ASSUME Ready, upN \in 1..Size, DeliverStep
  PROVE  sect' = sect \/ sect' \in Shipped(FALSE)
BY DeliveriesMove DEF DeliverStep

\* Exports keep the people.
LEMMA Exports ==
  ASSUME Ready, upN \in 1..Size, ExportStep
  PROVE  sect' = sect \/ sect' \in Shipped(TRUE)
BY ExportsMove DEF ExportStep, Distributes

\* Imports keep the people.
LEMMA Imports ==
  ASSUME Ready, upN \in 1..Size, ImportStep
  PROVE  sect' \in Shipped(TRUE)
<1>1. CASE ~Distributes(upN)
  <2>1. sect' = [sect EXCEPT ![upN].off = FALSE]
    BY <1>1 DEF ImportStep
  <2> QED
    BY <2>1, WorkingAgain
<1>2. CASE Distributes(upN)
  BY <1>2, ImportsMove DEF ImportStep, Distributes
<1> QED
  BY <1>1, <1>2

\* So it is before the first update.
LEMMA SortedAtFirst ==
  ASSUME UpdateInit
  PROVE  AllSorted
<1>1. 1 \in 1..Size
  BY SizeIs
<1>2. PICK w \in Worlds : sect = w.sect /\ unit = w.unit
  BY DEF UpdateInit
<1>3. upN = 1
  BY DEF UpdateInit
<1> QED
  BY <1>1, <1>2, <1>3, WorldsAssumption DEF AllSorted

\* Each step of the update, on the sectors and the units.
LEMMA PrepSorts ==
  ASSUME AllSorted, PrepUnit
  PROVE  AllSorted'
<1>1. sect' = sect /\ Advance("prep")
  BY DEF PrepUnit
<1>2. upAt' \in BySector \cup Inside => upN' \in 1..Size
  BY <1>1, Advances DEF BySector, Inside
<1>3. DOMAIN unit' = DOMAIN unit
  <2> DEFINE u == Unit(upN)
             v == unit[u]
             us == IF v.kind = "ship" THEN Scrounge(u) ELSE unit
  <2>1. DOMAIN us = DOMAIN unit
    BY ScroungeKeeps DEF AllSorted
  <2> HIDE DEF us
  <2>2. unit' = unit \/ unit' = [unit EXCEPT ![u].own = 0] \/ unit' \in Mess(us, u)
    BY DEF PrepUnit, us
  <2>3. \A x \in Mess(us, u) : DOMAIN x = DOMAIN us
    BY DEF Mess
  <2>4. unit' = [unit EXCEPT ![u].own = 0] => DOMAIN unit' = DOMAIN unit
    OBVIOUS
  <2> HIDE DEF u, v
  <2> QED
    BY <2>1, <2>2, <2>3, <2>4
<1> QED
  BY <1>1, <1>2, <1>3 DEF AllSorted

\* Fallout changes people, goods and fallout.
LEMMA FalloutSorts ==
  ASSUME AllSorted, Fallout
  PROVE  AllSorted'
<1>1. Advance("fallout") /\ DOMAIN unit' = DOMAIN unit
  <2>1. Advance("fallout")
    BY Zenon DEF Fallout
  <2>2. DOMAIN unit' = DOMAIN unit
    BY DEF Fallout
  <2> QED
    BY <2>1, <2>2
<1>2. upAt' \in BySector \cup Inside => upN' \in 1..Size
  BY <1>1, Advances DEF BySector, Inside
<1>3. sect' = [n \in 1..Size |-> sect'[n]] /\ \A n \in 1..Size : Keeps(sect[n], sect'[n])
  <2> DEFINE sorry(n) == sect[n].fall > 0 /\ sect[n].type # "sanct"
  <2>1. PICK up \in BOOLEAN :
           sect' = [n \in 1..Size |->
                      [sect[n] EXCEPT !.item = IF sorry(n) THEN Rests(@, sect[n].fall, up) ELSE @,
                                      !.fall = Min(Decay(Leaked(up)[n]))]]
    BY DEF Fallout
  <2> HIDE DEF sorry
  <2>2. ASSUME NEW n \in 1..Size PROVE Keeps(sect[n], sect'[n])
    <3> DEFINE s == sect[n]
               x == IF sorry(n) THEN Rests(s.item, s.fall, up) ELSE s.item
               y == Min(Decay(Leaked(up)[n]))
    <3>1. sect'[n] = [s EXCEPT !.item = x, !.fall = y]
      BY <2>1
    <3>2. Laid(s)
      BY DEF AllSorted, Sectors
    <3> HIDE DEF s, x, y
    <3>3. Keeps(s, sect'[n])
      BY <3>1, <3>2 DEF Keeps, Laid, Marks
    <3> QED
      BY <3>3 DEF s
  <2>3. sect' = [n \in 1..Size |-> sect'[n]]
    BY <2>1
  <2> QED
    BY <2>2, <2>3
<1>4. Sectors(sect')
  BY <1>3, SectorsPut DEF AllSorted
<1> QED
  BY <1>1, <1>2, <1>4 DEF AllSorted

\* Guerrillas do what they do.
LEMMA NextSorts ==
  ASSUME AllSorted, NextSector
  PROVE  AllSorted'
<1>1. upAt = "guerrilla" /\ upN \in 1..Size
  BY DEF NextSector, AllSorted, BySector
<1>2. Advance("guerrilla") \/ upN' = upN
  BY DEF NextSector, Within
<1>3. upAt' \in BySector \cup Inside => upN' \in 1..Size
  BY <1>1, <1>2, Advances DEF BySector, Inside
<1>4. \/ sect' = sect /\ unit' = unit
      \/ \E r \in Guerrilla(sect, unit, upN, Gone) : sect' = r.sect /\ unit' = r.unit
  BY DEF NextSector
<1>5. Sectors(sect') /\ DOMAIN unit' = DOMAIN unit
  BY <1>1, <1>4, GuerrillaKeeps DEF AllSorted, Risings
<1> QED
  BY <1>3, <1>5 DEF AllSorted

\* People rise, eat and fall ill in the sector at hand.
LEMMA InsideSorts ==
  ASSUME AllSorted, PopulaceStep \/ Tax \/ FeedStep \/ PlagueStep
  PROVE  AllSorted'
<1>1. upAt \in Inside /\ upN' = upN /\ unit' = unit
  BY DEF PopulaceStep, Tax, FeedStep, PlagueStep, Inside, Within
<1>2. upN \in 1..Size
  BY <1>1 DEF AllSorted
<1>3. Laid(sect[upN]) /\ Sectors(sect)
  BY <1>2 DEF AllSorted, Sectors
<1>4. Sectors(sect')
  <2>1. CASE PopulaceStep
    <3>1. PICK s \in Populace(sect[upN], sect[upN].own \in Unhappy) : sect' = [sect EXCEPT ![upN] = s]
      BY <2>1 DEF PopulaceStep
    <3>2. Keeps(sect[upN], s)
      BY <1>3, <3>1, PopulaceKeeps
    <3> QED
      BY <1>2, <1>3, <3>1, <3>2, SectorPut
  <2>2. CASE Tax
    BY <1>3, <2>2 DEF Tax
  <2>3. CASE FeedStep
    <3>1. PICK s \in Feed(AtHand) : Becomes(s)
      BY <2>3 DEF FeedStep
    <3>2. simulation \/ Keeps(sect[upN], s)
      BY <1>3, <3>1, FeedKeeps DEF AtHand
    <3> QED
      BY <1>2, <1>3, <3>1, <3>2, Became
  <2>4. CASE PlagueStep
    <3>1. PICK s \in Plague(sect[upN]) : sect' = [sect EXCEPT ![upN] = s]
      BY <2>4 DEF PlagueStep
    <3>2. Keeps(sect[upN], s)
      BY <1>3, <3>1, PlagueKeeps
    <3> QED
      BY <1>2, <1>3, <3>1, <3>2, SectorPut
  <2> QED
    BY <2>1, <2>2, <2>3, <2>4
<1> QED
  BY <1>1, <1>2, <1>4 DEF AllSorted

\* A sector may be lost.
LEMMA LossSorts ==
  ASSUME AllSorted, CheckPopLoss
  PROVE  AllSorted'
<1> DEFINE s == sect[upN]
           calm == IF s.item.civ = 0 THEN [s EXCEPT !.work = 100, !.loyal = 0, !.oldown = s.own] ELSE s
           held == \E u \in DOMAIN unit : unit[u].own = s.own /\ unit[u].at = upN /\ unit[u].kind = "land"
           end  == IF s.own # 0 /\ s.item.civ = 0 /\ s.item.mil = 0 /\ ~held
                   THEN [calm EXCEPT !.own = 0, !.oldown = 0, !.mob = 0] ELSE calm
<1>1. upAt = "loss" /\ upN \in 1..Size /\ Advance("guerrilla") /\ unit' = unit
  BY DEF CheckPopLoss, AllSorted, Inside
<1>2. upAt' \in BySector \cup Inside => upN' \in 1..Size
  BY <1>1, Advances DEF BySector, Inside
<1>3. simulation => sect' = sect
  BY DEF CheckPopLoss
<1>4. ~simulation => sect' = [sect EXCEPT ![upN] = end]
  BY DEF CheckPopLoss, AtHand
<1>5. Laid(s) /\ Sectors(sect)
  BY <1>1 DEF AllSorted, Sectors
<1>6. Keeps(s, end)
  <2> HIDE DEF s, held
  <2>1. Keeps(s, calm)
    BY <1>5 DEF Keeps, Laid, Marks
  <2> HIDE DEF calm
  <2> QED
    BY <2>1 DEF Keeps, Laid, Marks
<1> HIDE DEF end
<1>7. Sectors(sect')
  BY <1>1, <1>3, <1>4, <1>5, <1>6, SectorPut
<1> QED
  BY <1>1, <1>2, <1>7 DEF AllSorted

\* Reserves, units and treasuries are paid for.
LEMMA UpkeepSorts ==
  ASSUME AllSorted, PayReserve \/ Maintain \/ Nations
  PROVE  AllSorted'
<1>1. sect' = sect /\ \E p \in {"reserve", "maintain", "nations"} : Advance(p)
  BY DEF PayReserve, Maintain, Nations
<1>2. upAt' \in BySector \cup Inside => upN' \in 1..Size
  BY <1>1, Advances DEF BySector, Inside
<1>3. DOMAIN unit' = DOMAIN unit
  <2>1. unit' = unit \/ \E x : unit' = [unit EXCEPT ![Unit(upN)].eff = x]
    BY DEF PayReserve, Maintain, Nations
  <2> QED
    BY <2>1
<1> QED
  BY <1>1, <1>2, <1>3 DEF AllSorted

\* What becomes of a sector that produces: it is stopped, built up, drilled, or
\* makes what it makes.
LEMMA ProduceIs ==
  ASSUME ProduceSect
  PROVE  LET s == Worked(upN) IN
         \/ sect' = sect
         \/ KeepWork(upN, [s EXCEPT !.avail = 0])
         \/ \E b \in IF s.eff < 100 \/ s.type # s.new THEN BuildEff(s) ELSE {[t |-> s, cost |-> 0]} :
            \E e \in {Enlist(b.t), [t |-> b.t, cost |-> 0]} :
               KeepWork(upN, e.t) \/ \E p \in ProdOutput(e.t) : KeepWork(upN, p.t)
<1> DEFINE s == Worked(upN)
           c == s.own
           kept == Paid(budget, c, "sectkeep", -1000 * Etus * SectorTypes[s.type].maint)
           unfinished == s.eff < 100 \/ s.type # s.new
           builds == IF unfinished THEN BuildEff(s) ELSE {[t |-> s, cost |-> 0]}
           drills(t) == t.type = "enlist" /\ t.eff >= 60 /\ t.own = t.oldown
           out(b) == IF drills(b.t) THEN Enlist(b.t) ELSE [t |-> b.t, cost |-> 0]
           drilled(b) == Paid(Paid(kept, c, "sectbuild", -b.cost), c, "prod", -out(b).cost)
           makes(b) == out(b).t.eff >= 60 /\ drilled(b)[c].money >= 0 /\ SectorTypes[out(b).t.type].prd # "none"
           idle == Skipped(upN) \/ Idle(s)
           stopped == s.off \/ kept[c].money < 0
           still == UNCHANGED <<sect, bp, budget>>
<1>1. IF idle THEN still
      ELSE IF stopped THEN budget' = kept /\ KeepWork(upN, [s EXCEPT !.avail = 0])
      ELSE \E b \in builds :
              IF makes(b)
              THEN \E p \in ProdOutput(out(b).t) :
                      budget' = Paid(drilled(b), c, "prod", -p.cost) /\ KeepWork(upN, p.t)
              ELSE budget' = drilled(b) /\ KeepWork(upN, out(b).t)
  BY Zenon DEF ProduceSect
<1>2. still => sect' = sect
  OBVIOUS
<1>3. \A b : out(b) \in {Enlist(b.t), [t |-> b.t, cost |-> 0]}
  OBVIOUS
<1> HIDE DEF idle, still, stopped, kept, drilled, makes, builds, out, s
<1>4. \/ still
      \/ KeepWork(upN, [s EXCEPT !.avail = 0])
      \/ \E b \in builds : KeepWork(upN, out(b).t) \/ \E p \in ProdOutput(out(b).t) : KeepWork(upN, p.t)
  BY <1>1
<1> QED
  BY <1>2, <1>3, <1>4, Zenon DEF builds, s

\* A sector keeps its orders while it works.
LEMMA ProduceSorts ==
  ASSUME AllSorted, ProduceSect
  PROVE  AllSorted'
<1>1. upAt = "produce" /\ upN \in 1..Size /\ Advance("produce") /\ unit' = unit
  BY DEF ProduceSect, AllSorted, BySector
<1>2. upAt' \in BySector \cup Inside => upN' \in 1..Size
  BY <1>1, Advances DEF BySector, Inside
<1> DEFINE s == Worked(upN)
<1>3. Laid(sect[upN]) /\ Sectors(sect) /\ (~simulation => s = sect[upN])
  BY <1>1 DEF AllSorted, Sectors, Worked
<1>4. sect' = sect \/ \E t : KeepWork(upN, t) /\ (simulation \/ Keeps(s, t))
  <2>1. \/ sect' = sect
        \/ KeepWork(upN, [s EXCEPT !.avail = 0])
        \/ \E b \in IF s.eff < 100 \/ s.type # s.new THEN BuildEff(s) ELSE {[t |-> s, cost |-> 0]} :
           \E e \in {Enlist(b.t), [t |-> b.t, cost |-> 0]} :
              KeepWork(upN, e.t) \/ \E p \in ProdOutput(e.t) : KeepWork(upN, p.t)
    BY ProduceIs
  <2>2. CASE simulation
    <3>1. sect' = sect \/ \E t : KeepWork(upN, t)
      <4> HIDE DEF s
      <4> QED
        BY <2>1
    <3> QED
      BY <2>2, <3>1
  <2>3. CASE ~simulation
    <3>1. Laid(s)
      BY <1>3, <2>3
    <3> HIDE DEF s
    <3>2. Keeps(s, s) /\ Keeps(s, [s EXCEPT !.avail = 0])
      BY <3>1 DEF Keeps, Laid, Marks
    <3>3. ASSUME NEW b \in IF s.eff < 100 \/ s.type # s.new THEN BuildEff(s) ELSE {[t |-> s, cost |-> 0]},
                 NEW e \in {Enlist(b.t), [t |-> b.t, cost |-> 0]}
          PROVE  Keeps(s, e.t) /\ \A p \in ProdOutput(e.t) : Keeps(s, p.t)
      <4>1. Keeps(s, b.t)
        BY <3>1, <3>2, <3>3, BuildKeeps
      <4>2. Laid(b.t)
        BY <4>1 DEF Keeps
      <4>3. Keeps(b.t, e.t)
        BY <4>2, EnlistKeeps DEF Keeps
      <4>4. Keeps(s, e.t) /\ Laid(e.t)
        BY <4>1, <4>3, KeepsOn DEF Keeps
      <4> QED
        BY <4>4, OutputKeeps, KeepsOn
    <3> QED
      BY <2>1, <3>2, <3>3
  <2> QED
    BY <2>2, <2>3
<1>5. Sectors(sect')
  <2> HIDE DEF s
  <2>1. CASE sect' = sect
    BY <1>3, <2>1
  <2>2. ASSUME NEW t, KeepWork(upN, t), simulation \/ Keeps(s, t) PROVE Sectors(sect')
    <3>1. simulation \/ Keeps(sect[upN], t)
      BY <1>3, <2>2
    <3> QED
      BY <1>1, <1>3, <2>2, <3>1, WorkKept
  <2> QED
    BY <1>4, <2>1, <2>2
<1> QED
  BY <1>1, <1>2, <1>5 DEF AllSorted

\* Work on a unit takes materials and work from the sector.
Workshop(s, item, a) == [s EXCEPT !.item = item, !.avail = a]
LEMMA RepairKeeps ==
  ASSUME NEW v, NEW s, Laid(s), NEW r \in Repair(v, s)
  PROVE  Keeps(s, r.sect)
<1> DEFINE t == UnitTypes[v.kind]
           carried == v.kind = "plane" /\ v.ship # "none"
           crew  == CASE v.kind = "ship"  -> ((Etus * v.item.mil) \div 2)
                                                \div IF s.type = "harbor" THEN 1 ELSE 3
                      [] carried -> (Etus * unit[v.ship].item.mil) \div 2
                      [] OTHER -> 0
           work  == crew + IF v.kind = "ship" /\ s.type # "harbor" THEN 0 ELSE s.avail * 100
           delta == Min({work \div t.work, t.grow, 100 - v.eff})
           home  == [ship |-> "harbor", plane |-> "airport", land |-> "fort"][v.kind]
           used(b) == IF v.kind = "ship" THEN Floor0(b * t.work - crew) ELSE b * t.work
           left(b) == IF used(b) = 0 THEN {s.avail} ELSE {Floor0(x) : x \in Round(s.avail * 100 - used(b), 100)}
           end(b)  == CASE v.kind = "ship" /\ s.type # home -> Floor0(Cap(b, 80 - v.eff))
                        [] v.kind = "plane" -> Cap(IF s.type # home THEN b \div 3 ELSE b,
                                                   IF carried THEN 80 - v.eff ELSE 100)
                        [] OTHER -> b
           gets(m) == CASE v.kind = "ship" /\ s.type # home -> delta
                        [] carried -> delta
                        [] v.kind = "land" /\ s.type # home -> m.build \div 3
                        [] OTHER -> m.build
           can == GetMaterials(s.item, t.mat, delta)
           ends(m) == {[build |-> end(gets(m)), sect |-> Workshop(s, m.item, a)] : a \in left(gets(m))}
<1>1. Repair(v, s) = IF delta <= 0 THEN {} ELSE UNION {ends(m) : m \in can}
  BY DEF Repair, Workshop
<1> HIDE DEF delta, can, end, gets, left
<1>2. PICK m \in can : r \in ends(m)
  BY <1>1
<1>3. PICK a : r = [build |-> end(gets(m)), sect |-> Workshop(s, m.item, a)]
  BY <1>2
<1>4. PICK item : r.sect = [s EXCEPT !.item = item, !.avail = a]
  BY <1>3 DEF Workshop
<1> QED
  BY <1>4 DEF Keeps, Laid, Marks

\* What building does to a unit and to its sector.
UnitBuilt(u, b, o) == [unit EXCEPT ![u].eff = @ + b, ![u].off = FALSE, ![u].item.oil = @ + o]
SectBuilt(n, s, dep) == [sect EXCEPT ![n] = [s EXCEPT !.res = @ - Cap(dep, @)]]
LEMMA BuildIs ==
  ASSUME BuildUnit, ~simulation, unit[Unit(upN)].own # 0
  PROVE  LET u == Unit(upN)  v == unit[u]
             works == MayRepair(u) /\ Repair(v, Worked(v.at)) # {}
         IN  \E r \in IF works THEN Repair(v, Worked(v.at)) ELSE {[build |-> 0, sect |-> sect[v.at]]} :
             \E o, dep : unit' = UnitBuilt(u, r.build, o) /\ sect' = SectBuilt(v.at, r.sect, dep)
<1> DEFINE u == Unit(upN)
           v == unit[u]
           works == MayRepair(u) /\ Repair(v, Worked(v.at)) # {}
           can == IF works THEN Repair(v, Worked(v.at)) ELSE {[build |-> 0, sect |-> sect[v.at]]}
           cost(r) == v.mult * UnitTypes[v.kind].cost * r.build * 10
           after(r) == IF works THEN Paid(budget, v.own, Make[v.kind], -cost(r)) ELSE budget
           oil(r) == OilOutput([v EXCEPT !.eff = @ + r.build], r.sect, after(r))
<1>1. ~(v.own = 0 \/ Skipped(v.at))
  BY Zenon DEF Skipped
<1>2. \E r \in can : budget' = after(r) /\ (\E o \in oil(r) : \E dep \in Round(o * 10, 100) :
                 unit' = UnitBuilt(u, r.build, o) /\ sect' = SectBuilt(v.at, r.sect, dep)) /\ bp' = bp
  <2>1. \E r \in can :
                LET after0 == after(r)
                IN  /\ budget' = after0
                    /\ IF simulation
                       THEN /\ UNCHANGED <<unit, sect>>
                            /\ bp' = IF works THEN [bp EXCEPT ![v.at] = BpOf(r.sect)] ELSE bp
                       ELSE /\ \E o \in oil(r) :
                               \E dep \in Round(o * 10, 100) :
                                  unit' = UnitBuilt(u, r.build, o) /\ sect' = SectBuilt(v.at, r.sect, dep)
                            /\ UNCHANGED bp
    BY <1>1, Zenon DEF BuildUnit, UnitBuilt, SectBuilt
  <2> HIDE DEF can, after, oil, u
  <2> QED
    BY <2>1
<1> HIDE DEF can, oil, after, u
<1>3. \E r \in can : \E o, dep : unit' = UnitBuilt(u, r.build, o) /\ sect' = SectBuilt(v.at, r.sect, dep)
  BY <1>2
<1> QED
  BY <1>3, Zenon DEF can, u

\* A sector keeps its orders while units are repaired in it.
LEMMA BuildSorts ==
  ASSUME AllSorted, BuildUnit
  PROVE  AllSorted'
<1> DEFINE u == Unit(upN)
           v == unit[u]
           at == v.at
           works == MayRepair(u) /\ Repair(v, Worked(at)) # {}
           can == IF works THEN Repair(v, Worked(at)) ELSE {[build |-> 0, sect |-> sect[at]]}
<1>1. Advance("build")
  BY DEF BuildUnit
<1>2. upAt' \in BySector \cup Inside => upN' \in 1..Size
  BY <1>1, Advances DEF BySector, Inside
<1>3. CASE simulation \/ v.own = 0
  <2>1. sect' = sect /\ unit' = unit
    BY <1>3 DEF BuildUnit
  <2> QED
    BY <1>2, <2>1 DEF AllSorted
<1>4. CASE ~simulation /\ v.own # 0
  <2>1. \E r \in can : \E o, dep : unit' = UnitBuilt(u, r.build, o) /\ sect' = SectBuilt(at, r.sect, dep)
    BY <1>4, BuildIs
  <2>2. Worked(at) = sect[at]
    BY <1>4 DEF Worked
  <2> HIDE DEF can, u, at
  <2>3. PICK r \in can : \E o, dep : unit' = UnitBuilt(u, r.build, o) /\ sect' = SectBuilt(at, r.sect, dep)
    BY <2>1
  <2>4. PICK o, dep : unit' = UnitBuilt(u, r.build, o) /\ sect' = SectBuilt(at, r.sect, dep)
    BY <2>3
  <2>5. DOMAIN unit' = DOMAIN unit
    BY <2>4 DEF UnitBuilt
  <2>6. Sectors(sect')
    <3> DEFINE s == sect[at]
               t == r.sect
               w == [t EXCEPT !.res = @ - Cap(dep, @)]
    <3>1. CASE at \notin 1..Size
      <4>1. sect = [n \in 1..Size |-> sect[n]]
        BY DEF AllSorted, Sectors
      <4>2. sect' = sect
        BY <2>4, <3>1, <4>1 DEF SectBuilt
      <4> QED
        BY <4>2 DEF AllSorted
    <3>2. CASE at \in 1..Size
      <4>1. Laid(s)
        BY <3>2 DEF AllSorted, Sectors
      <4>2. Keeps(s, t)
        <5>1. r \in Repair(v, s) \/ t = s
          BY <2>2 DEF can
        <5>2. Keeps(s, s)
          BY <4>1 DEF Keeps
        <5> QED
          BY <4>1, <5>1, <5>2, RepairKeeps
      <4> HIDE DEF s, t
      <4>3. Keeps(s, w)
        <5> DEFINE x == t.res - Cap(dep, t.res)
        <5>1. w = [t EXCEPT !.res = x]
          OBVIOUS
        <5> HIDE DEF x, w
        <5> QED
          BY <4>2, <5>1 DEF Keeps, Laid, Marks
      <4> HIDE DEF w
      <4>4. sect' = [sect EXCEPT ![at] = w]
        BY <2>4 DEF SectBuilt, t, w
      <4> QED
        BY <3>2, <4>3, <4>4, SectorPut DEF AllSorted, s
    <3> QED
      BY <3>1, <3>2
  <2> QED
    BY <1>2, <2>5, <2>6 DEF AllSorted
<1> QED
  BY <1>3, <1>4

\* Goods move.
LEMMA GoodsSort ==
  ASSUME AllSorted, Counted(sect), DeliverStep \/ ExportStep \/ ImportStep
  PROVE  AllSorted'
<1>1. /\ unit' = unit /\ upN \in 1..Size
      /\ \E p \in {"deliver", "export", "import"} : Advance(p)
  BY DEF DeliverStep, ExportStep, ImportStep, Still, AllSorted, BySector
<1>2. upAt' \in BySector \cup Inside => upN' \in 1..Size
  BY <1>1, Advances DEF BySector, Inside
<1>3. Ready
  BY DEF Ready, AllSorted
<1>4. sect' = sect \/ \E stay \in BOOLEAN : sect' \in Shipped(stay)
  BY <1>1, <1>3, Delivers, Exports, Imports
<1>5. Sectors(sect')
  BY <1>4, MovedStays DEF AllSorted
<1> QED
  BY <1>1, <1>2, <1>5 DEF AllSorted

\* Mobility grows.
LEMMA MobilizeSorts ==
  ASSUME AllSorted, Mobilize
  PROVE  AllSorted'
<1>1. /\ Advance("mobility") /\ DOMAIN unit' = DOMAIN unit
      /\ sect' = [n \in 1..Size |-> IF sect[n].own = 0 \/ Idle(sect[n]) THEN sect[n]
                                     ELSE [sect[n] EXCEPT !.mob = Cap(@ + Etus, 127)]]
  BY DEF Mobilize
<1>2. upAt' \in BySector \cup Inside => upN' \in 1..Size
  BY <1>1, Advances DEF BySector, Inside
<1>3. ASSUME NEW n \in 1..Size PROVE Keeps(sect[n], sect'[n])
  <2> DEFINE s == sect[n]
             x == Cap(s.mob + Etus, 127)
  <2>1. sect'[n] = s \/ sect'[n] = [s EXCEPT !.mob = x]
    BY <1>1
  <2>2. Laid(s)
    BY DEF AllSorted, Sectors
  <2> HIDE DEF s, x
  <2>3. Keeps(s, sect'[n])
    BY <2>1, <2>2 DEF Keeps, Laid, Marks
  <2> QED
    BY <2>3 DEF s
<1>4. sect' = [n \in 1..Size |-> sect'[n]]
  BY <1>1
<1>5. Sectors(sect')
  BY <1>3, <1>4, SectorsPut DEF AllSorted
<1> QED
  BY <1>1, <1>2, <1>5 DEF AllSorted

\* The update itself begins.
LEMMA ToldSorts ==
  ASSUME AllSorted, Told
  PROVE  AllSorted'
<1>1. sect' = sect /\ unit' = unit /\ upN' = 1
  BY DEF Told
<1>2. 1 \in 1..Size
  BY SizeIs
<1> QED
  BY <1>1, <1>2 DEF AllSorted

\* Every step of the update leaves the sectors laid out, with orders that can
\* be carried out, and at most moves on to a sector there is.
LEMMA SortedAfter ==
  ASSUME AllSorted, Counted(sect), [UpdateNext]_upVars
  PROVE  AllSorted'
<1>1. CASE PrepUnit
  BY <1>1, PrepSorts
<1>2. CASE Fallout
  BY <1>2, FalloutSorts
<1>3. CASE NextSector
  BY <1>3, NextSorts
<1>4. CASE PopulaceStep \/ Tax \/ FeedStep \/ PlagueStep
  BY <1>4, InsideSorts
<1>5. CASE CheckPopLoss
  BY <1>5, LossSorts
<1>6. CASE PayReserve \/ Maintain \/ Nations
  BY <1>6, UpkeepSorts
<1>7. CASE ProduceSect
  BY <1>7, ProduceSorts
<1>8. CASE BuildUnit
  BY <1>8, BuildSorts
<1>9. CASE DeliverStep \/ ExportStep \/ ImportStep
  BY <1>9, GoodsSort
<1>10. CASE Mobilize
  BY <1>10, MobilizeSorts
<1>11. CASE Told
  BY <1>11, ToldSorts
<1>12. CASE UNCHANGED upVars
  BY <1>12 DEF AllSorted, upVars
<1> QED
  BY <1>1, <1>2, <1>3, <1>4, <1>5, <1>6, <1>7, <1>8, <1>9, <1>10, <1>11, <1>12 DEF UpdateNext

\* Each action belongs to one part of the update.
LEMMA Parts ==
  /\ PrepUnit => upAt = "prep"
  /\ Fallout => upAt = "fallout"
  /\ NextSector => upAt = "guerrilla"
  /\ PopulaceStep => upAt = "populace"
  /\ Tax => upAt = "tax"
  /\ FeedStep => upAt = "feed"
  /\ PlagueStep => upAt = "plague"
  /\ CheckPopLoss => upAt = "loss"
  /\ PayReserve => upAt = "reserve"
  /\ Maintain => upAt = "maintain"
  /\ ProduceSect => upAt = "produce"
  /\ BuildUnit => upAt = "build"
  /\ DeliverStep => upAt = "deliver"
  /\ ExportStep => upAt = "export"
  /\ ImportStep => upAt = "import"
  /\ Nations => upAt = "nations"
  /\ Mobilize => upAt = "mobility"
  /\ Told => upAt = "told"
<1>1. PrepUnit => upAt = "prep"
  BY DEF PrepUnit
<1>2. Fallout => upAt = "fallout"
  BY DEF Fallout
<1>3. NextSector => upAt = "guerrilla"
  BY DEF NextSector
<1>4. PopulaceStep => upAt = "populace"
  BY DEF PopulaceStep
<1>5. Tax => upAt = "tax"
  BY DEF Tax
<1>6. FeedStep => upAt = "feed"
  BY DEF FeedStep
<1>7. PlagueStep => upAt = "plague"
  BY DEF PlagueStep
<1>8. CheckPopLoss => upAt = "loss"
  BY DEF CheckPopLoss
<1>9. PayReserve => upAt = "reserve"
  BY DEF PayReserve
<1>10. Maintain => upAt = "maintain"
  BY DEF Maintain
<1>11. ProduceSect => upAt = "produce"
  BY DEF ProduceSect
<1>12. BuildUnit => upAt = "build"
  BY DEF BuildUnit
<1>13. DeliverStep => upAt = "deliver"
  BY DEF DeliverStep
<1>14. ExportStep => upAt = "export"
  BY DEF ExportStep
<1>15. ImportStep => upAt = "import"
  BY DEF ImportStep
<1>16. Nations => upAt = "nations"
  BY DEF Nations
<1>17. Mobilize => upAt = "mobility"
  BY DEF Mobilize
<1>18. Told => upAt = "told"
  BY DEF Told
<1> QED
  BY <1>1, <1>2, <1>3, <1>4, <1>5, <1>6, <1>7, <1>8, <1>9, <1>10, <1>11, <1>12, <1>13, <1>14, <1>15, <1>16, <1>17, <1>18

\* A step that moves goods moves them as it should.
Moves == upAt \in {"deliver", "export", "import"}
           => /\ \A i \in Items : Total(sect', i) = Total(sect, i)
              /\ \A n \in 1..Size : sect'[n].mob < sect[n].mob => sect'[n].mob >= 0
              /\ upAt # "deliver" => \A n \in 1..Size : Held(sect[n]) => Held(sect'[n])

\* All that GoodsAreMoved asks of a step.
LEMMA MovesWell ==
  ASSUME AllSorted, Counted(sect), [UpdateNext]_upVars
  PROVE  [Moves]_upVars
<1>1. SUFFICES ASSUME UpdateNext, upAt \in {"deliver", "export", "import"} PROVE Moves
  BY DEF Moves
<1>2. upN \in 1..Size /\ Ready
  BY <1>1 DEF AllSorted, BySector, Ready
<1>3. \A n \in 1..Size : sect[n].mob \in Int
  BY DEF Counted
<1>4. \/ upAt = "deliver" /\ DeliverStep
      \/ upAt = "export" /\ ExportStep
      \/ upAt = "import" /\ ImportStep
  BY <1>1, Parts DEF UpdateNext
<1>5. \/ sect' = sect
      \/ \E stay \in BOOLEAN : sect' \in Shipped(stay) /\ (upAt # "deliver" => stay)
  BY <1>2, <1>4, Delivers, Exports, Imports
<1>6. CASE sect' = sect
  BY <1>3, <1>6 DEF Moves
<1>7. ASSUME NEW stay \in BOOLEAN, sect' \in Shipped(stay), upAt # "deliver" => stay PROVE Moves
  BY <1>7 DEF Moves, Shipped, Stocked
<1> QED
  BY <1>5, <1>6, <1>7

\* GoodsAreMoved, for all worlds (deliver.c, distribute.c).  That the sectors'
\* numbers are where they belong (UpdateInOrder) is a hypothesis of the theorem,
\* for a rising may break it (revolt.c).
THEOREM GoodsMoved == UpdateSpec /\ []UpdateInOrder => GoodsAreMoved
<1>1. UpdateInit => AllSorted
  BY SortedAtFirst
<1>2. AllSorted /\ UpdateInOrder /\ [UpdateNext]_upVars => AllSorted' /\ [Moves]_upVars
  <2>1. UpdateInOrder => Counted(sect)
    BY DEF UpdateInOrder, Counted
  <2> QED
    BY <2>1, SortedAfter, MovesWell
<1>3. GoodsAreMoved <=> [][Moves]_upVars
  BY DEF GoodsAreMoved, Moves
<1> QED
  BY <1>1, <1>2, <1>3, PTL DEF UpdateSpec

-----------------------------------------------------------------------------
\* The parts of a prediction.
Predicted == {"prep", "guerrilla", "tax", "feed", "loss", "reserve", "maintain", "produce", "build", "told"}

\* What comes after what.
LEMMA AfterIs ==
  /\ After("guerrilla") = "reserve" /\ After("reserve") = "maintain" /\ After("maintain") = "produce"
  /\ After("produce") = "build" /\ After("build") = "deliver"
<1> DEFINE p == PartOrder
<1>1. /\ DOMAIN p = 1..13 /\ Len(p) = 13
      /\ p[1] = "prep" /\ p[2] = "fallout" /\ p[3] = "guerrilla" /\ p[4] = "reserve" /\ p[5] = "maintain"
      /\ p[6] = "produce" /\ p[7] = "build" /\ p[8] = "deliver" /\ p[9] = "export" /\ p[10] = "import"
      /\ p[11] = "nations" /\ p[12] = "mobility" /\ p[13] = "done"
  BY DEF PartOrder
<1> HIDE DEF p
<1>2. ASSUME NEW k \in 3..7
      PROVE  After(p[k]) = p[k + 1]
  <2> DEFINE I == {i \in 1..Len(p) : p[i] = p[k]}
  <2>1. After(p[k]) = p[(IF I # {} THEN Min(I) ELSE 0) + 1]
    BY Zenon DEF After, SelectInSeq, p
  <2>2. I = {k}
    BY <1>1
  <2>3. Min({k}) = k
    BY DEF Min
  <2> QED
    BY <2>1, <2>2, <2>3
<1>3. After(p[3]) = p[3 + 1] /\ After(p[4]) = p[4 + 1] /\ After(p[5]) = p[5 + 1] /\ After(p[6]) = p[6 + 1]
      /\ After(p[7]) = p[7 + 1]
  BY <1>2
<1> QED
  BY <1>1, <1>3

\* A prediction goes from part to part without those that it leaves out.
LEMMA PredictionAdvances ==
  ASSUME simulation, NEW p \in {"prep", "guerrilla", "reserve", "maintain", "produce", "build"}, Advance(p)
  PROVE  upAt' \in Predicted
<1>1. CASE upN < LastOf(p)
  BY <1>1 DEF Advance, Predicted
<1>2. CASE ~(upN < LastOf(p))
  <2>1. upAt' = IF p = "prep" THEN "guerrilla"
                ELSE IF Next1(After(p)) = "deliver" THEN "told" ELSE Next1(After(p))
    BY <1>2 DEF Advance
  <2>2. Next1("deliver") = "deliver"
    <3>1. LastOf("deliver") = Size
      BY DEF LastOf
    <3> QED
      BY <3>1, SizeIs DEF Next1
  <2>3. Next1("reserve") \in Predicted
    BY AfterIs DEF Next1, Predicted
  <2>4. Next1("maintain") \in Predicted /\ Next1("produce") \in Predicted
    BY AfterIs DEF Next1, Predicted
  <2>5. Next1("build") \in Predicted \cup {"deliver"}
    BY AfterIs DEF Next1, Predicted
  <2>6. "guerrilla" \in Predicted /\ "told" \in Predicted
    BY DEF Predicted
  <2> QED
    BY <2>1, <2>2, <2>3, <2>4, <2>5, <2>6, AfterIs
<1> QED
  BY <1>1, <1>2

\* The prediction goes on where no unit is a wreck.
Predicting == simulation => Intact(unit) /\ upAt \in Predicted
Harmless == simulation => UNCHANGED <<sect, unit, treasury, reserve>>

\* The prediction begins in a part of its own.
LEMMA PredictsAtFirst ==
  ASSUME UpdateInit
  PROVE  Predicting
<1>1. upAt \in {"prep", "guerrilla"} /\ \E w \in Worlds : unit = w.unit
  BY DEF UpdateInit
<1> QED
  BY <1>1, WorldsAssumption DEF Predicting, Predicted

\* In a prediction no unit is lost for being a wreck.
LEMMA PrepIsHarmless ==
  ASSUME simulation, Intact(unit), PrepUnit
  PROVE  unit' = unit
<1> DEFINE u == Unit(upN)
<1>1. CASE unit[u].own = 0 \/ ~(unit[u].eff < MinEff)
  BY <1>1 DEF PrepUnit
<1>2. CASE ~(unit[u].own = 0 \/ ~(unit[u].eff < MinEff))
  <2>1. u \notin DOMAIN unit /\ unit = [k \in DOMAIN unit |-> unit[k]]
    BY <1>2 DEF Intact
  <2>2. unit' = [unit EXCEPT ![u].own = 0]
    BY <1>2 DEF PrepUnit
  <2> HIDE DEF u
  <2> QED
    BY <2>1, <2>2
<1> QED
  BY <1>1, <1>2

\* A step of the prediction writes nothing and goes to another of its parts.
LEMMA PredictionIsSafe ==
  ASSUME Predicting, simulation, UpdateNext
  PROVE  Harmless /\ (simulation' => upAt' \in Predicted)
<1>1. Intact(unit) /\ upAt \in Predicted
  BY DEF Predicting
<1>2. \/ PrepUnit \/ NextSector \/ Tax \/ FeedStep \/ CheckPopLoss \/ PayReserve \/ Maintain \/ ProduceSect
      \/ BuildUnit \/ Told
  BY <1>1, Parts DEF UpdateNext, Predicted
<1>3. CASE PrepUnit
  <2>1. unit' = unit
    BY <1>1, <1>3, PrepIsHarmless
  <2>2. sect' = sect /\ treasury' = treasury /\ reserve' = reserve /\ Advance("prep")
    BY <1>3 DEF PrepUnit
  <2> QED
    BY <2>1, <2>2, PredictionAdvances DEF Harmless
<1>4. CASE NextSector
  <2>1. UNCHANGED <<sect, unit, treasury, reserve>> /\ (Advance("guerrilla") \/ upAt' = "tax")
    BY <1>4 DEF NextSector, Within
  <2> QED
    BY <2>1, PredictionAdvances DEF Harmless, Predicted
<1>5. CASE Tax
  BY <1>5 DEF Tax, Within, Harmless, Predicted
<1>6. CASE FeedStep
  BY <1>6 DEF FeedStep, Becomes, Within, Harmless, Predicted
<1>7. CASE CheckPopLoss
  <2>1. UNCHANGED <<sect, unit, treasury, reserve>> /\ Advance("guerrilla")
    BY <1>7 DEF CheckPopLoss
  <2> QED
    BY <2>1, PredictionAdvances DEF Harmless
<1>8. CASE PayReserve
  <2>1. UNCHANGED <<sect, unit, treasury, reserve>> /\ Advance("reserve")
    BY <1>8 DEF PayReserve
  <2> QED
    BY <2>1, PredictionAdvances DEF Harmless
<1>9. CASE Maintain
  <2>1. UNCHANGED <<sect, unit, treasury, reserve>> /\ Advance("maintain")
    BY <1>9 DEF Maintain
  <2> QED
    BY <2>1, PredictionAdvances DEF Harmless
<1>10. CASE ProduceSect
  <2>1. UNCHANGED <<sect, unit, treasury, reserve>> /\ Advance("produce")
    BY <1>10 DEF ProduceSect, KeepWork
  <2> QED
    BY <2>1, PredictionAdvances DEF Harmless
<1>11. CASE BuildUnit
  <2>1. UNCHANGED <<sect, unit, treasury, reserve>> /\ Advance("build")
    BY <1>11 DEF BuildUnit
  <2> QED
    BY <2>1, PredictionAdvances DEF Harmless
<1>12. CASE Told
  BY <1>12 DEF Told, Harmless
<1> QED
  BY <1>2, <1>3, <1>4, <1>5, <1>6, <1>7, <1>8, <1>9, <1>10, <1>11, <1>12

\* Once the update has begun there is no prediction any more.
LEMMA NoneBegins ==
  ASSUME UpdateNext, simulation'
  PROVE  simulation
BY DEF UpdateNext, PrepUnit, Fallout, NextSector, PopulaceStep, Tax, FeedStep, PlagueStep, CheckPopLoss,
       PayReserve, Maintain, ProduceSect, BuildUnit, DeliverStep, ExportStep, ImportStep, Nations, Mobilize,
       Told, Still

\* The first half of BudgetForetells, for all worlds: the budget command,
\* which runs the update's own code (c_budget()), changes no sector, no unit, no
\* treasury and no reserve.
THEOREM PredictionIsHarmless ==
  UpdateSpec => [][simulation => UNCHANGED <<sect, unit, treasury, reserve>>]_upVars
<1> SUFFICES UpdateSpec => [][Harmless]_upVars
  BY DEF Harmless
<1>1. UpdateInit => Predicting
  BY PredictsAtFirst
<1>2. Predicting /\ [UpdateNext]_upVars => Predicting' /\ [Harmless]_upVars
  <2>1. CASE UNCHANGED upVars
    BY <2>1 DEF Predicting, upVars
  <2>2. CASE UpdateNext /\ simulation
    BY <2>2, PredictionIsSafe DEF Predicting, Harmless
  <2>3. CASE UpdateNext /\ ~simulation
    BY <2>3, NoneBegins DEF Predicting, Harmless
  <2> QED
    BY <2>1, <2>2, <2>3
<1> QED
  BY <1>1, <1>2, PTL DEF UpdateSpec

=============================================================================

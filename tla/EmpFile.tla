------------------------------- MODULE EmpFile -------------------------------
(***************************************************************************)
(* The file-backed tables of common/file.c: the game's sectors, units,     *)
(* nations, trades, loans...  A table is opened with its records either    *)
(* all in memory (EFF_MEM) or in a cache of a few consecutive ones.        *)
(*                                                                         *)
(* Threads copy records out with ef_read(), change the copies and put them *)
(* back with ef_write().  Only one thread runs at a time, but a thread     *)
(* gives way inside many calls; what it copied before may then be stale.   *)
(* Two checks are there to notice a write that would undo another's: the   *)
(* record's sequence number, and the generation of the copy.  Both are     *)
(* twelve bits of an ever growing number: the model keeps the whole number *)
(* and compares what those bits hold (Seqno, Generation).                  *)
(***************************************************************************)
EXTENDS Integers

CONSTANTS Threads,      \* empthreads that use the table
          NoCopy,       \* a thread's buffer holds no record
          Junk,         \* contents of a cache slot that was never filled
          Slots,        \* slots in the cache of a table not in memory
          SeqnoMod,       \* sequence numbers are kept modulo this (2^12)
          GenMod,       \* generations are kept modulo this (2^12)
          MaxIds,       \* bound: no table grows beyond this
          MaxData,      \* bound: versions of records ever made
          MaxYields     \* bound: times the threads give way

ASSUME SlotsAssumption == Slots \in Nat \ {0}
ASSUME ModAssumption == SeqnoMod \in Nat \ {0} /\ GenMod \in Nat \ {0}
ASSUME BoundsAssumption == MaxIds \in Nat /\ MaxData \in Nat /\ MaxYields \in Nat

VARIABLES file,         \* the backing file: its records, by id
          open,         \* ep->fd >= 0
          mem,          \* ep->flags & EFF_MEM
          private,      \* ep->flags & EFF_PRIVATE
          crashed,      \* the server died with the table open
          cache,        \* ep->cache: slot -> record
          csize,        \* ep->csize
          baseid,       \* ep->baseid
          cids,         \* ep->cids
          fids,         \* ep->fids
          generation,   \* ef_generation
          copy,         \* each thread's buffer
          running,      \* the thread that has the processor
          data          \* versions of records made so far

opening == <<open, mem, private, crashed>>
caching == <<cache, csize, baseid, cids>>
threads == <<generation, running>>
vars == <<file, opening, caching, fids, threads, copy, data>>

(***************************************************************************)
(* A record is known by which version it is (data) and how often its       *)
(* sequence number was increased (n).  A buffer also knows its id, its     *)
(* generation and the version it was made from.                            *)
(***************************************************************************)
Records == [n : Nat, data : Nat]
Absent == [n |-> 0, data |-> 0]
Blank == [n |-> 0, data |-> 1]
Copies == [uid : Nat, of : Records, gen : Nat]
Ids == 0 .. fids - 1
ASSUME NoCopyAssumption == NoCopy \notin Copies /\ NoCopy \notin [uid : Nat, of : Records]

Seqno(r) == r.n % SeqnoMod
Generation(g) == g % GenMod

Cached(id) == baseid <= id /\ id < baseid + cids
Slot(id) == id - baseid
Least(a, b) == IF a < b THEN a ELSE b
Empty == [i \in {} |-> Junk]
NoCopies == [t \in Threads |-> NoCopy]
Put(f, id, r) == [i \in DOMAIN f \cup {id} |-> IF i = id THEN r ELSE f[i]]
Resized(f, n) == [i \in 0 .. n - 1 |-> IF i \in DOMAIN f THEN f[i] ELSE Blank]

\* What the code takes for record id: the cache is never asked twice.
Record(id) == IF id \notin Ids THEN Absent
              ELSE IF Cached(id) THEN cache[Slot(id)] ELSE file[id]

Init ==
  /\ file = Empty
  /\ open = FALSE /\ mem = FALSE /\ private = FALSE /\ crashed = FALSE
  /\ cache = Empty /\ csize = 0 /\ baseid = 0 /\ cids = 0 /\ fids = 0
  /\ generation = 0 /\ running \in Threads
  /\ copy = NoCopies
  /\ data = 1

-----------------------------------------------------------------------------
\* ef_realloc_cache(): at least one slot; what both sizes have is kept.
Realloced(c, n) ==
  [i \in 0 .. (IF n = 0 THEN 0 ELSE n - 1) |-> IF i \in DOMAIN c THEN c[i] ELSE Junk]

\* fillcache(): the records from id on, as many as there are slots.
FillCache(id) ==
  LET ret == Least(csize, fids - id)
  IN  /\ cache' = [s \in DOMAIN cache |-> IF s < ret THEN file[id + s] ELSE cache[s]]
      /\ baseid' = id
      /\ cids' = ret
      /\ UNCHANGED csize

\* Mutant: the stolen slot still counts as cached.
StealSlotKept(r) ==
  LET s == Least(cids, csize - 1)
  IN  /\ cache' = [cache EXCEPT ![s] = r]
      /\ UNCHANGED <<cids, csize, baseid>>

\* The last slot of the cache becomes a buffer.
StealSlot(r) ==
  LET s == Least(cids, csize - 1)
  IN  /\ cids' = s
      /\ cache' = [cache EXCEPT ![s] = r]
      /\ UNCHANGED <<csize, baseid>>

\* get_seqno(): finds record id, in the file through the last cache slot.
GetSeqno(id) ==
  IF id \in Ids /\ ~Cached(id) THEN StealSlot(file[id]) ELSE UNCHANGED caching

\* CANT_HAPPEN in new_seqno(): another write came between.
SeqnoDiffers(c) == Seqno(c.of) # Seqno(Record(c.uid))

\* Mutant: the generation is only compared when the sequence number differs.
MustBeFreshIfDiffers(c) ==
  /\ SeqnoDiffers(c)
  /\ Cached(c.uid) /\ Generation(c.gen) # Generation(generation)

\* CANT_HAPPEN in must_be_fresh(): the thread gave way since it read.
MustBeFresh(c) == Cached(c.uid) /\ Generation(c.gen) # Generation(generation)

\* The server logs an oops, and goes on.
Oops(c) == SeqnoDiffers(c) \/ MustBeFresh(c)

\* The version a write makes of record id.
NewVersion(id) == [n |-> Record(id).n + 1, data |-> data + 1]

\* The version a change through a pointer makes of it.
AlteredVersion(id) == [n |-> Record(id).n, data |-> data + 1]
-----------------------------------------------------------------------------
\* ef_open() of an existing file.
Open(m, p) ==
  /\ ~open
  /\ p => m
  /\ open' = TRUE /\ mem' = m /\ private' = p /\ crashed' = FALSE
  /\ \E n \in 0 .. MaxIds :
       /\ DOMAIN file = 0 .. n - 1
       /\ fids' = n
       /\ IF m
          THEN /\ csize' = IF n = 0 THEN 1 ELSE n
               /\ cache' = [s \in 0 .. csize' - 1 |-> IF s < n THEN file[s] ELSE Junk]
               /\ cids' = n
          ELSE /\ csize' = Slots
               /\ cache' = [s \in 0 .. Slots - 1 |-> Junk]
               /\ cids' = 0
  /\ baseid' = 0
  /\ UNCHANGED <<file, threads, copy, data>>

\* ef_open() with EFF_CREATE, as util/files.c does for a table of n records.
Create(n) ==
  /\ ~open
  /\ open' = TRUE /\ mem' = FALSE /\ private' = FALSE /\ crashed' = FALSE
  /\ file' = [i \in 0 .. n - 1 |-> Blank]
  /\ csize' = Slots /\ baseid' = 0 /\ cids' = 0 /\ fids' = n
  /\ cache' = [s \in 0 .. Slots - 1 |-> IF s = 0 /\ n > 0 THEN Blank ELSE Junk]
  /\ UNCHANGED <<threads, copy, data>>

\* Mutant: a flush trusts that every write went through.
FlushedNothing == file

\* ef_flush(): what was changed through pointers is written too.
Flushed == IF mem /\ ~private
           THEN [i \in DOMAIN file |-> IF i \in Ids THEN cache[i] ELSE file[i]]
           ELSE file

Flush ==
  /\ open
  /\ file' = Flushed
  /\ UNCHANGED <<opening, caching, fids, threads, copy, data>>

\* All that is left when the table is closed, or the process is gone.
Forget ==
  /\ open' = FALSE /\ mem' = FALSE /\ private' = FALSE
  /\ cache' = Empty /\ csize' = 0 /\ baseid' = 0 /\ cids' = 0 /\ fids' = 0
  /\ copy' = NoCopies
  /\ UNCHANGED data

\* ef_close(), when the server or the tool ends.
Close ==
  /\ open
  /\ file' = Flushed
  /\ Forget
  /\ UNCHANGED <<crashed, threads>>

Crash ==
  /\ open
  /\ Forget
  /\ crashed' = TRUE
  /\ generation' = 0
  /\ UNCHANGED <<file, running>>

-----------------------------------------------------------------------------
\* A table in memory is extended before a record is prepared or written at its
\* end, a partly cached table grows by that write.
MayMake(id) == id \in Ids \/ (~mem /\ id = fids)

SetCopy(c) == copy' = [copy EXCEPT ![running] = c]

\* ef_read().
Read(id) ==
  /\ open /\ id \in Ids
  /\ IF Cached(id) THEN UNCHANGED caching ELSE FillCache(id)
  /\ SetCopy([uid |-> id, of |-> Record(id), gen |-> generation])
  /\ UNCHANGED <<file, opening, fids, threads, data>>

\* ef_read() into a buffer that is never written.
Peek(id) ==
  /\ open /\ id \in Ids /\ ~Cached(id)
  /\ FillCache(id)
  /\ UNCHANGED <<file, opening, fids, threads, copy, data>>

\* ef_blank(): the buffer is to replace record id, or to be appended.
BlankCopy(id) ==
  /\ open /\ MayMake(id)
  /\ GetSeqno(id)
  /\ SetCopy([uid |-> id, of |-> Record(id), gen |-> generation])
  /\ UNCHANGED <<file, opening, fids, threads, data>>

\* Mutant: the sequence number stays that of the old record.
SetUidOnly(id) ==
  /\ open /\ MayMake(id)
  /\ copy[running] # NoCopy /\ copy[running].uid # id
  /\ GetSeqno(id)
  /\ SetCopy([copy[running] EXCEPT !.uid = id])
  /\ UNCHANGED <<file, opening, fids, threads, data>>

\* ef_set_uid(): the buffer is to replace another record.
SetUid(id) ==
  /\ open /\ MayMake(id)
  /\ copy[running] # NoCopy /\ copy[running].uid # id
  /\ GetSeqno(id)
  /\ SetCopy([uid |-> id, of |-> Record(id), gen |-> copy[running].gen])
  /\ UNCHANGED <<file, opening, fids, threads, data>>

\* ef_write().
Write ==
  /\ open /\ copy[running] # NoCopy
  /\ data < MaxData
  /\ LET id == copy[running].uid
         new == NewVersion(id)
     IN  /\ MayMake(id) /\ id < MaxIds
         /\ IF Cached(id)
            THEN cache' = [cache EXCEPT ![Slot(id)] = new] /\ UNCHANGED <<csize, baseid, cids>>
            ELSE GetSeqno(id)
         /\ file' = IF private THEN file ELSE Put(file, id, new)
         /\ fids' = IF id = fids THEN fids + 1 ELSE fids
         /\ SetCopy([uid |-> id, of |-> new, gen |-> copy[running].gen])
  /\ data' = data + 1
  /\ UNCHANGED <<opening, threads>>

\* The running thread has no copy of a record it changes through ef_ptr().
MayPoint(id) ==
  /\ open /\ mem /\ id \in Ids /\ data < MaxData
  /\ copy[running] # NoCopy => copy[running].uid # id

\* A change through ef_ptr(): only in memory, until somebody flushes.
Update(id) ==
  /\ MayPoint(id)
  /\ cache' = [cache EXCEPT ![id] = AlteredVersion(id)]
  /\ data' = data + 1
  /\ UNCHANGED <<file, opening, csize, baseid, cids, fids, threads, copy>>

\* ef_write() of what ef_ptr() returned.
WriteInPlace(id) ==
  /\ MayPoint(id)
  /\ cache' = [cache EXCEPT ![id] = NewVersion(id)]
  /\ file' = IF private THEN file ELSE Put(file, id, NewVersion(id))
  /\ data' = data + 1
  /\ UNCHANGED <<opening, csize, baseid, cids, fids, threads, copy>>

\* ef_extend(): the server extends tables that are in memory.
Extend(count) ==
  /\ open /\ mem
  /\ fids + count <= MaxIds
  /\ csize' = IF fids + count > csize THEN fids + count ELSE csize
  /\ cache' = [s \in 0 .. csize' - 1 |->
                 IF fids <= s /\ s < fids + count THEN Blank
                 ELSE IF s \in DOMAIN cache THEN cache[s] ELSE Junk]
  /\ file' = IF private THEN file ELSE Resized(file, fids + count)
  /\ cids' = fids + count /\ fids' = fids + count
  /\ UNCHANGED <<opening, baseid, threads, copy, data>>

\* ef_truncate(): no thread has a copy while a table shrinks.
Truncate(count) ==
  /\ open /\ copy = NoCopies
  /\ count < fids
  /\ file' = IF private THEN file ELSE Resized(file, count)
  /\ fids' = count
  /\ IF mem
     THEN /\ csize' = IF count = 0 THEN 1 ELSE count
          /\ cache' = Realloced(cache, count)
          /\ cids' = count
     ELSE /\ UNCHANGED <<csize, cache>>
          /\ cids' = IF baseid >= count THEN 0 ELSE Least(cids, count - baseid)
  /\ UNCHANGED <<opening, baseid, threads, copy, data>>

\* Every call that may let another thread run calls ef_make_stale().
Yield(t) ==
  /\ open
  /\ generation < MaxYields
  /\ generation' = generation + 1
  /\ running' = t
  /\ UNCHANGED <<file, opening, caching, fids, copy, data>>

Next ==
  \/ \E m, p \in BOOLEAN : Open(m, p)
  \/ \E n \in 0 .. MaxIds : Create(n)
  \/ Flush \/ Close \/ Crash
  \/ \E id \in 0 .. MaxIds - 1 : Read(id) \/ Peek(id) \/ BlankCopy(id) \/ SetUid(id)
  \/ Write
  \/ \E id \in 0 .. MaxIds - 1 : Update(id) \/ WriteInPlace(id)
  \/ \E n \in 1 .. MaxIds : Extend(n)
  \/ \E n \in 0 .. MaxIds - 1 : Truncate(n)
  \/ \E t \in Threads : Yield(t)

Spec == Init /\ [][Next]_vars

-----------------------------------------------------------------------------
TypeOK ==
  /\ \E n \in 0 .. MaxIds : file \in [0 .. n - 1 -> Records]
  /\ open \in BOOLEAN /\ mem \in BOOLEAN /\ private \in BOOLEAN /\ crashed \in BOOLEAN
  /\ csize \in Nat /\ baseid \in Nat /\ cids \in Nat /\ fids \in Nat
  /\ cache \in [0 .. csize - 1 -> Records \cup {Junk}]
  /\ generation \in Nat /\ running \in Threads /\ data \in Nat
  /\ copy \in [Threads -> Copies \cup {NoCopy}]

(***************************************************************************)
(* The cache is true: in a partly cached table every cached record is the  *)
(* one in the file, also after a slot was stolen or the table shrank; in   *)
(* memory every record is there, with the file's sequence number.          *)
(***************************************************************************)
CacheAgrees ==
  open => IF mem
          THEN /\ baseid = 0 /\ cids = fids
               /\ ~private => \A id \in Ids : cache[id].n = file[id].n
          ELSE /\ baseid + cids <= fids \/ cids = 0
               /\ \A id \in Ids : Cached(id) => cache[Slot(id)] = file[id]

(***************************************************************************)
(* A thread that would undo another write with its copy gets an oops.  Two *)
(* copies escape: of a record in the cache, when the generation has gone   *)
(* round since it was read, and of a record that is not in the cache, when *)
(* its sequence number has.                                                *)
(***************************************************************************)
WentRound(c) ==
  IF Cached(c.uid) THEN generation - c.gen >= GenMod
                   ELSE Record(c.uid).n - c.of.n >= SeqnoMod

ClobbersAreCaught ==
  \A t \in Threads :
    (copy[t] # NoCopy /\ copy[t].of # Record(copy[t].uid))
      => Oops(copy[t]) \/ WentRound(copy[t])

\* A thread that has not given way since it read never gets an oops, however
\* it read, wrote and moved the cache meanwhile.
FreshIsQuiet ==
  (copy[running] # NoCopy /\ copy[running].gen = generation) => ~Oops(copy[running])

\* What the table promises its users: see EmpTable.
Table == INSTANCE EmpTable
         WITH Ids <- 0 .. MaxIds,
              table <- IF open THEN [id \in Ids |-> Record(id)] ELSE file,
              stable <- file,
              mode <- IF crashed THEN "crashed"
                      ELSE IF ~open THEN "closed"
                      ELSE IF private THEN "private" ELSE "shared",
              copy <- [t \in Threads |->
                         IF copy[t] = NoCopy THEN NoCopy
                         ELSE [uid |-> copy[t].uid, of |-> copy[t].of]]

\* Commands see a plain table of records that writes change one at a time,
\* and a crash loses nothing but changes made through pointers.
KeepsTable == Table!Spec
=============================================================================

------------------------------ MODULE EmpTable ------------------------------
(***************************************************************************)
(* What a game table promises the commands that use it, whatever caches it *)
(* keeps: a read returns the last record written, a write changes its own  *)
(* record and no other and survives a crash of the server, and changes     *)
(* made through a pointer into the table survive one after a flush.        *)
(* EmpFile implements this.                                                *)
(***************************************************************************)
EXTENDS Naturals

CONSTANTS Threads,      \* empthreads that run commands, or the update
          Ids,          \* the ids a record may have
          NoCopy,       \* no record is in a thread's buffer
          Absent        \* stands for the record behind the table's end

VARIABLES table,        \* table[id] is the record a read of id returns
          stable,       \* the table a server started now would find
          mode,         \* "closed", "crashed", or open: "shared" or "private"
          copy          \* copy[t].of is the record t's buffer was made from

vars == <<table, stable, mode, copy>>

durable == mode = "shared"

Current(id) == IF id \in DOMAIN table THEN table[id] ELSE Absent
NoCopies == [t \in Threads |-> NoCopy]

\* g is f with record id, which may be new, changed to anything at all.
Changes(f, id, g) ==
  /\ DOMAIN g = DOMAIN f \cup {id}
  /\ g = [i \in DOMAIN g |-> IF i = id THEN g[id] ELSE f[i]]

\* g is f made longer or shorter; what both have is the same.
Resizes(f, g) ==
  g = [i \in DOMAIN g |-> IF i \in DOMAIN f THEN f[i] ELSE g[i]]

Init == table = stable /\ mode = "closed" /\ copy = NoCopies

\* A read, or a buffer prepared to overwrite a record on purpose.
Take(t, id) ==
  /\ copy' = [copy EXCEPT ![t] = [uid |-> id, of |-> Current(id)]]
  /\ UNCHANGED <<table, stable, mode>>

Write(t) ==
  /\ copy[t] # NoCopy
  /\ Changes(table, copy[t].uid, table')
  /\ stable' = IF durable
               THEN [i \in DOMAIN stable \cup {copy[t].uid} |->
                       IF i = copy[t].uid THEN table'[i] ELSE stable[i]]
               ELSE stable
  /\ copy' = [copy EXCEPT ![t].of = table'[copy[t].uid]]
  /\ UNCHANGED mode

\* A change through a pointer: it may be written at once, or later.
Update(id) ==
  /\ id \in DOMAIN table
  /\ Changes(table, id, table')
  /\ \/ stable' = stable
     \/ durable /\ stable' = [stable EXCEPT ![id] = table'[id]]
  /\ UNCHANGED <<mode, copy>>

Resize ==
  /\ Resizes(table, table')
  /\ stable' = IF durable
               THEN [i \in DOMAIN table' |->
                       IF i \in DOMAIN stable THEN stable[i] ELSE table'[i]]
               ELSE stable
  /\ UNCHANGED <<mode, copy>>

Flush ==
  /\ durable
  /\ stable' = table
  /\ UNCHANGED <<table, mode, copy>>

\* Orderly end of the server: nothing is lost unless the table is private.
Close ==
  /\ mode \in {"shared", "private"}
  /\ stable' = IF durable THEN table ELSE stable
  /\ table' = stable'
  /\ mode' = "closed"
  /\ copy' = NoCopies

\* The server dies: what was not yet written is lost.
Crash ==
  /\ mode \in {"shared", "private"}
  /\ table' = stable
  /\ mode' = "crashed"
  /\ copy' = NoCopies
  /\ UNCHANGED stable

\* Open for use: shared with the file, or privately.
Open ==
  /\ mode \in {"closed", "crashed"}
  /\ mode' \in {"shared", "private"}
  /\ UNCHANGED <<table, stable, copy>>

\* Open a new table in place of the old one.
Create ==
  /\ mode \in {"closed", "crashed"}
  /\ mode' = "shared"
  /\ stable' = table'
  /\ UNCHANGED copy

Next ==
  \/ \E t \in Threads : Write(t)
  \/ \E t \in Threads, id \in Ids : Take(t, id)
  \/ \E id \in Ids : Update(id)
  \/ Resize \/ Flush \/ Close \/ Crash \/ Open \/ Create

Spec == Init /\ [][Next]_vars
=============================================================================

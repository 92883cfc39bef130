--------------------------- MODULE EmpServerProofs ---------------------------
(***************************************************************************)
(* What the threads of EmpServer keep, for every number of players and     *)
(* countries.                                                              *)
(***************************************************************************)
EXTENDS EmpServer, TLAPS

-----------------------------------------------------------------------------
(***************************************************************************)
(* The inductive invariant.  It is about one player at a time, but for the *)
(* sole session of a country: what his record says wherever his thread is, *)
(* what it says at each place, what the update and the shutdown have made  *)
(* of it.                                                                  *)
(***************************************************************************)
Places == SleepsAt \cup {"free", "enter", "main", "prompt", "lock", "cmd", "execute"}

Slot == [pc : Places,
         wake : {"asleep", "ready", "early"}, state : {"none", "init", "playing", "shutdown"},
         cnum : Countries \cup {NoCountry}, authenticated : BOOLEAN, sleep : {Never, OnInput, Freely},
         aborted : BOOLEAN, ctld : BOOLEAN, command : BOOLEAN, execute : BOOLEAN,
         depth : Nat, held : Nat, eof : BOOLEAN, line : BOOLEAN]

\* Only players run commands, only execute nests them, and who may not sleep
\* was told why: by the abort of his command, or by the end of his input.
Consistent(r) ==
  /\ r.state = "playing" => r.held # 0
  /\ ~LateLines => r.held = (IF r.state = "playing" THEN 1 ELSE 0) /\ (r.eof => ~r.line)
  /\ r.depth # 0 => r.state = "playing"
  /\ r.command => r.depth # 0
  /\ r.depth <= 2 /\ (r.depth = 2 => r.execute)
  /\ r.depth # 0 /\ (r.execute => r.depth = 2) => r.command
  /\ r.sleep = Never => r.eof \/ (r.aborted /\ r.depth # 0)

PlaysAt == {"main", "prompt", "out", "in", "lock", "cmd", "pr", "execute", "bye"}

AtItsPlace(r) ==
  /\ r.pc \in PlaysAt => r.state = "playing"
  /\ r.pc \in {"free", "login", "close"} => r.state # "playing"
  /\ r.pc \in {"main", "prompt", "bye"} => r.depth = 0
  /\ r.pc \in {"lock", "cmd", "pr", "execute"} => r.depth # 0
  /\ r.pc = "execute" => r.execute /\ r.depth = 1
  /\ r.pc = "bye" => r.eof
  /\ r.pc \in {"out", "in"} => ~r.line
  /\ r.state = "playing" /\ r.sleep = Never /\ Asleep(r) => r.pc \in {"out", "pr"}

HeldBy(r) == r.depth - (IF r.pc = "lock" THEN 1 ELSE 0)

Ruled(r, n) ==
  /\ upd = "run" => n = 0
  /\ upd = "wait" /\ n # 0 /\ (r.execute => n = 2) => r.aborted /\ r.sleep = Never

Dismissed(r) ==
  /\ shut = "held" => r.state # "playing"
  /\ ~LateLines /\ shut = "wait" /\ r.state = "playing" => r.eof /\ (r.sleep = Never \/ r.execute)

Fits(r) == r \in Slot /\ Consistent(r) /\ AtItsPlace(r) /\ Ruled(r, HeldBy(r)) /\ Dismissed(r)

ServerInv ==
  /\ p \in [Players -> Slot]
  /\ upd \in {"asleep", "awake", "wait", "run"} /\ wanted \in BOOLEAN
  /\ shut \in {"no", "wait", "held"}
  /\ \A s \in Players : Fits(p[s])
  /\ OneSessionPerCountry
  /\ TriggerNotLost

-----------------------------------------------------------------------------
(* The locks. *)

\* A command that may run does so while no update runs, or waits.
LEMMA CommandsGiveWay == CommandMayRun => upd \notin {"wait", "run"}
BY EmpServerAssumption DEF CommandMayRun, UpdateLock!MayRead, UpdateLock!Holding, UpdateMode

\* The update gets update_lock when nobody holds it.
LEMMA UpdateAlone == UpdateLock!MayWrite => \A s \in Players : Holds(s) = 0
BY EmpServerAssumption DEF UpdateLock!MayWrite, UpdateLock!Unlocked, UpdateLock!Holding, UpdateMode

\* A session may begin while no shutdown is on.
LEMMA SessionsGiveWay == ShutdownLock!MayRead /\ shut \in {"no", "wait", "held"} => shut = "no"
BY EmpServerAssumption DEF ShutdownLock!MayRead, ShutdownLock!Holding, ShutdownMode

\* The shutdown gets shutdown_lock when nobody holds it.
LEMMA ShutdownAlone == ShutdownLock!MayWrite => \A s \in Players : p[s].held = 0
BY EmpServerAssumption DEF ShutdownLock!MayWrite, ShutdownLock!Unlocked, ShutdownLock!Holding, ShutdownMode

-----------------------------------------------------------------------------
(* One player's step. *)

\* Whether a player is on the way to somewhere that fits, as seen by the
\* operators that take a record on from place to place.
Underway(s, r) ==
  /\ r \in Slot /\ Consistent(r) /\ Dismissed(r) /\ Ruled(r, r.depth)
  /\ r.state = "playing" /\ p[s].state = "playing" /\ r.cnum = p[s].cnum

\* A record that fits may take a player's place, if it does not make a second
\* session of a country; what else the step may do is trigger an update.
LEMMA FitsIn ==
  ASSUME ServerInv, NEW s \in Players, NEW r, Fits(r),
         r.state = "playing" => Other(s, r.cnum) \ {s} = {},
         Becomes(s, r) \/ (Trigger(s, r) /\ upd \notin {"wait", "run"})
  PROVE  ServerInv'
<1>1. /\ p' = [p EXCEPT ![s] = r] /\ shut' = shut
      /\ \/ upd' = upd
         \/ upd = "asleep" /\ upd' = "awake"
  BY DEF Becomes, Trigger
<1>2. p' \in [Players -> Slot]
  BY <1>1 DEF ServerInv, Fits
<1>3. /\ upd' \in {"asleep", "awake", "wait", "run"} /\ wanted' \in BOOLEAN
      /\ shut' \in {"no", "wait", "held"} /\ TriggerNotLost'
  <2>1. CASE Becomes(s, r)
    BY <2>1 DEF Becomes, ServerInv, TriggerNotLost
  <2>2. CASE Trigger(s, r) /\ upd \notin {"wait", "run"}
    <3>1. wanted' \in BOOLEAN
      BY <2>2 DEF Trigger
    <3>2. upd' = "awake" /\ shut' = shut
      BY <2>2 DEF Trigger, ServerInv
    <3> QED
      BY <3>1, <3>2 DEF ServerInv, TriggerNotLost
  <2> QED
    BY <2>1, <2>2
<1>4. \A t \in Players : p'[t] = IF t = s THEN r ELSE p[t]
  BY <1>1 DEF ServerInv
<1>5. ASSUME NEW t \in Players PROVE Fits(p[t])'
  <2>1. Fits(p'[t])
    BY <1>4 DEF ServerInv
  <2> QED
    BY <2>1, <1>1 DEF Fits, Consistent, AtItsPlace, Asleep, HeldBy, Ruled, Dismissed
<1>6. OneSessionPerCountry'
  <2> SUFFICES ASSUME NEW t \in Players, NEW u \in Players, t # u,
                      p'[t].state = "playing", p'[u].state = "playing", p'[t].cnum = p'[u].cnum
               PROVE  FALSE
    BY DEF OneSessionPerCountry, Playing
  <2>1. CASE t # s /\ u # s
    BY <2>1, <1>4 DEF ServerInv, OneSessionPerCountry, Playing
  <2>2. CASE t = s
    BY <2>2, <1>4 DEF Other
  <2>3. CASE u = s
    BY <2>3, <1>4 DEF Other
  <2> QED
    BY <2>1, <2>2, <2>3
<1> QED
  BY <1>2, <1>3, <1>5, <1>6 DEF ServerInv

\* A player's own country has no other session.
LEMMA OwnSession ==
  ASSUME ServerInv, NEW s \in Players, p[s].state = "playing"
  PROVE  Other(s, p[s].cnum) \ {s} = {}
BY DEF ServerInv, OneSessionPerCountry, Playing, Other

\* A player who is under way fits where he is going.
LEMMA GoesOn ==
  ASSUME ServerInv, NEW s \in Players, NEW r, Underway(s, r), AtItsPlace(r), r.pc # "lock",
         Becomes(s, r) \/ (Trigger(s, r) /\ upd \notin {"wait", "run"})
  PROVE  ServerInv'
<1>1. Fits(r)
  <2>1. HeldBy(r) = r.depth
    BY DEF HeldBy, Underway, Slot
  <2> QED
    BY <2>1 DEF Underway, Fits
<1> QED
  BY <1>1, OwnSession, FitsIn DEF Underway

\* Where a player is and whether he sleeps there says nothing of his way.
LEMMA AnywhereUnderway ==
  ASSUME NEW s, NEW r, Underway(s, r), NEW where \in Places
  PROVE  /\ Underway(s, [r EXCEPT !.pc = where])
         /\ Underway(s, SleepAt(r, where))
<1>1. [r EXCEPT !.pc = where] \in Slot /\ SleepAt(r, where) \in Slot
  BY DEF Underway, Slot, SleepAt
<1> QED
  BY <1>1 DEF Underway, Slot, SleepAt, Consistent, Dismissed, Ruled

-----------------------------------------------------------------------------
(* What the operators that are parts of a step keep. *)

\* Who leaves player_login() fits in io_close().
LEMMA LeavingFits ==
  ASSUME ServerInv, NEW s \in Players, NEW r \in Slot, Consistent(r), r.depth = 0,
         Becomes(s, Left(r))
  PROVE  ServerInv'
<1>1. Left(r) \in Slot
  <2>1. (IF r.state = "playing" THEN r.held - 1 ELSE r.held) \in Nat
    BY DEF Slot, Consistent
  <2> QED
    BY <2>1 DEF Left, SleepAt, Places, SleepsAt, Slot
<1>2. Consistent(Left(r))
  BY DEF Consistent, Slot, Left, SleepAt
<1>3. AtItsPlace(Left(r))
  BY DEF Consistent, Slot, Left, SleepAt, AtItsPlace, PlaysAt
<1>4. Ruled(Left(r), HeldBy(Left(r)))
  BY DEF Slot, Left, SleepAt, Ruled, HeldBy
<1>5. Dismissed(Left(r)) /\ Left(r).state # "playing"
  BY DEF Slot, Left, SleepAt, Dismissed
<1> QED
  BY <1>1, <1>2, <1>3, <1>4, <1>5, FitsIn DEF Fits

\* So does who returns to its loop.
LEMMA LeaveKeeps ==
  ASSUME ServerInv, NEW s \in Players, NEW r, Underway(s, r), r.depth = 0, r.eof, Leave(s, r)
  PROVE  ServerInv'
<1>1. CASE Becomes(s, Left(r))
  BY <1>1, LeavingFits DEF Underway
<1>2. CASE ~Becomes(s, Left(r))
  <2>1. r.line /\ LateLines
    BY <1>2 DEF Leave, Underway, Consistent
  <2> DEFINE Again(c) == [r EXCEPT !.line = FALSE, !.cnum = c, !.authenticated = TRUE]
  <2>2. PICK c \in Countries :
          /\ Other(s, c) \ {s} = {}
          /\ \/ Becomes(s, Left([Again(c) EXCEPT !.held = @ + 1]))
             \/ Becomes(s, [Again(c) EXCEPT !.pc = "enter"])
    BY <1>2 DEF Leave
  <2>3. CASE Becomes(s, Left([Again(c) EXCEPT !.held = @ + 1]))
    <3> DEFINE h == [Again(c) EXCEPT !.held = @ + 1]
    <3>1. h \in Slot /\ h.depth = 0
      <4>1. Again(c) \in Slot
        BY DEF Underway, Slot
      <4>2. Again(c).depth = 0 /\ Again(c).held + 1 \in Nat
        BY DEF Underway, Slot
      <4> HIDE DEF Again
      <4> QED
        BY <4>1, <4>2 DEF Slot
    <3>2. Consistent(h)
      <4>1. /\ h.held = r.held + 1 /\ r.held \in Nat /\ h.state = r.state /\ h.depth = r.depth
            /\ h.eof = r.eof /\ h.aborted = r.aborted /\ h.sleep = r.sleep
            /\ h.command = r.command /\ h.execute = r.execute
        BY DEF Underway, Slot
      <4> HIDE DEF h
      <4> QED
        BY <2>1, <4>1 DEF Underway, Consistent
    <3> QED
      BY <2>3, <3>1, <3>2, LeavingFits
  <2>4. CASE Becomes(s, [Again(c) EXCEPT !.pc = "enter"])
    <3> DEFINE e == [Again(c) EXCEPT !.pc = "enter"]
    <3>1. e \in Slot /\ e.cnum = c /\ e.pc = "enter"
      BY DEF Underway, Slot, Places
    <3>2. Consistent(e)
      BY <2>1 DEF Underway, Slot, Consistent
    <3>3. AtItsPlace(e)
      BY <3>1 DEF AtItsPlace, PlaysAt, SleepsAt, Asleep
    <3>4. Ruled(e, HeldBy(e)) /\ Dismissed(e)
      BY <2>1 DEF Underway, Slot, HeldBy, Ruled, Dismissed
    <3> QED
      BY <2>2, <2>4, <3>1, <3>2, <3>3, <3>4, FitsIn DEF Fits
  <2> QED
    BY <2>2, <2>3, <2>4
<1> QED
  BY <1>1, <1>2

\* And who is sent the last output first.
LEMMA ByeKeeps ==
  ASSUME ServerInv, NEW s \in Players, NEW r, Underway(s, r), r.depth = 0, Bye(s, r)
  PROVE  ServerInv'
<1> DEFINE e == IF r.eof THEN r ELSE SetEof(r)
<1>1. e \in Slot /\ e.depth = 0 /\ e.eof /\ e.state = r.state /\ e.cnum = r.cnum
  BY DEF Underway, SetEof, Slot
<1>a. Consistent(e)
  BY DEF Underway, SetEof, Slot, Consistent
<1>b. Dismissed(e) /\ Ruled(e, e.depth)
  BY DEF Underway, SetEof, Slot, Dismissed, Ruled
<1>c. Underway(s, e)
  BY <1>1, <1>a, <1>b DEF Underway
<1>2. CASE MaySleepOnInput(e)
  <2> DEFINE b == SleepAt(e, "bye")
  <2>1. b.pc = "bye" /\ AtItsPlace(b)
    BY <1>1, <1>c, <1>2 DEF Underway, SleepAt, Slot, AtItsPlace, PlaysAt, MaySleepOnInput, Never, OnInput
  <2>2. Underway(s, b)
    BY <1>c, AnywhereUnderway DEF Places, SleepsAt
  <2> QED
    BY <1>2, <2>1, <2>2, GoesOn DEF Bye
<1>3. CASE ~MaySleepOnInput(e)
  BY <1>1, <1>c, <1>3, LeaveKeeps DEF Bye
<1> QED
  BY <1>2, <1>3

\* A command goes on while no update waits for it or runs, or merely goes on.
LEMMA RunsOn ==
  ASSUME ServerInv, NEW s \in Players, NEW r, Underway(s, r), r.depth # 0,
         \/ Becomes(s, [r EXCEPT !.pc = "cmd"])
         \/ GoOn(s, r) /\ upd \notin {"wait", "run"}
  PROVE  ServerInv'
<1> DEFINE c == [r EXCEPT !.pc = "cmd"]
<1>1. Underway(s, c)
  BY AnywhereUnderway DEF Places
<1>2. c.pc = "cmd" /\ AtItsPlace(c)
  BY DEF Underway, Slot, AtItsPlace, PlaysAt, Asleep, SleepsAt
<1> QED
  BY <1>1, <1>2, GoesOn DEF GoOn

\* Nobody begins a command while an update waits or runs, and who was told to
\* leave begins none but under execute.
LEMMA DispatchKeeps ==
  ASSUME ServerInv, NEW s \in Players, NEW r, Underway(s, r),
         \/ r.depth = 0 /\ (LateLines \/ ~r.eof)
         \/ r.depth = 1 /\ r.execute,
         Dispatch(s, r)
  PROVE  ServerInv'
<1>1. PICK sleep \in {OnInput, Freely}, execute \in BOOLEAN :
        LET d == [r EXCEPT !.sleep = sleep, !.command = TRUE, !.depth = @ + 1,
                           !.execute = IF r.depth = 0 THEN execute ELSE @]
        IN  IF CommandMayRun THEN GoOn(s, d) ELSE Becomes(s, [d EXCEPT !.pc = "lock"])
  BY DEF Dispatch
<1> DEFINE d == [r EXCEPT !.sleep = sleep, !.command = TRUE, !.depth = @ + 1,
                          !.execute = IF r.depth = 0 THEN execute ELSE @]
           l == [d EXCEPT !.pc = "lock"]
<1>2. d \in Slot /\ l \in Slot
  <2>1. /\ (IF r.depth = 0 THEN execute ELSE r.execute) \in BOOLEAN
        /\ r.depth + 1 \in Nat /\ sleep \in {Never, OnInput, Freely}
    BY DEF Underway, Slot
  <2> QED
    BY <2>1 DEF Underway, Slot, Places
<1>3. /\ d.command /\ d.sleep # Never /\ d.depth = r.depth + 1 /\ d.depth \in {1, 2}
      /\ d.eof = r.eof /\ d.line = r.line /\ d.held = r.held /\ d.state = r.state /\ d.cnum = r.cnum
      /\ r.depth = 1 => d.execute
  BY DEF Underway, Slot, Never, OnInput, Freely
<1>4. Consistent(d) /\ Dismissed(d)
  <2> HIDE DEF d
  <2> QED
    BY <1>3 DEF Underway, Consistent, Dismissed
<1>5. CASE CommandMayRun
  <2>1. upd \notin {"wait", "run"}
    BY <1>5, CommandsGiveWay
  <2>2. Underway(s, d)
    BY <1>2, <1>3, <1>4, <2>1 DEF Underway, Ruled
  <2>3. GoOn(s, d)
    BY <1>1, <1>5
  <2>4. d.depth # 0
    BY <1>3
  <2> HIDE DEF d
  <2> QED
    BY <2>1, <2>2, <2>3, <2>4, RunsOn, Zenon
<1>6. CASE ~CommandMayRun
  <2>1. /\ l.pc = "lock" /\ l.command /\ l.sleep # Never /\ l.depth = r.depth + 1
        /\ l.eof = d.eof /\ l.line = d.line /\ l.held = d.held /\ l.state = d.state /\ l.cnum = d.cnum
        /\ l.execute = d.execute
    BY DEF Underway, Slot, Never, OnInput, Freely
  <2>2. HeldBy(l) = r.depth
    BY <2>1 DEF HeldBy, Underway, Slot
  <2> HIDE DEF l, d
  <2>3. Consistent(l) /\ Dismissed(l)
    BY <1>3, <1>4, <2>1 DEF Consistent, Dismissed
  <2>4. AtItsPlace(l)
    BY <1>3, <2>1 DEF AtItsPlace, PlaysAt, Underway
  <2>5. Ruled(l, HeldBy(l))
    BY <1>3, <2>1, <2>2 DEF Ruled, Underway
  <2>6. Fits(l)
    BY <1>2, <2>3, <2>4, <2>5 DEF Fits
  <2>7. Becomes(s, l)
    BY <1>1, <1>6 DEF l, d
  <2> QED
    BY <1>3, <2>1, <2>6, <2>7, OwnSession, FitsIn DEF Underway
<1> QED
  BY <1>5, <1>6

\* The end of a command forgets an abort only when the command is over.
LEMMA EndOfTurnUnderway ==
  ASSUME NEW s, NEW r, Underway(s, r), r.depth = 0
  PROVE  Underway(s, EndOfTurn(r)) /\ EndOfTurn(r).depth = 0 /\ EndOfTurn(r).pc = "main"
<1> DEFINE e == EndOfTurn(r)
<1>1. e \in Slot
  BY DEF EndOfTurn, SetEof, Underway, Slot, Places
<1>2. /\ e.depth = 0 /\ e.pc = "main" /\ e.state = r.state /\ e.cnum = r.cnum /\ e.held = r.held
      /\ e.sleep = r.sleep /\ e.command = r.command /\ e.execute = r.execute
  BY DEF EndOfTurn, SetEof, Underway, Slot
<1>3. (r.eof => e.eof) /\ (e.eof => r.eof \/ ~e.line) /\ (e.line => r.line)
  BY DEF EndOfTurn, SetEof, Underway, Slot
<1> HIDE DEF e
<1>4. Consistent(e)
  BY <1>2, <1>3 DEF Underway, Consistent
<1>5. Dismissed(e) /\ Ruled(e, e.depth)
  BY <1>2, <1>3 DEF Underway, Dismissed, Ruled
<1> QED
  BY <1>1, <1>2, <1>4, <1>5 DEF Underway, e

LEMMA MainFits ==
  ASSUME ServerInv, NEW s \in Players, NEW r, Underway(s, r), r.depth = 0, r.pc \in {"main", "prompt"},
         Becomes(s, r)
  PROVE  ServerInv'
<1>1. AtItsPlace(r) /\ r.pc # "lock"
  BY DEF Underway, AtItsPlace, PlaysAt, Asleep, SleepsAt
<1> QED
  BY <1>1, GoesOn

LEMMA ReadFailedKeeps ==
  ASSUME ServerInv, NEW s \in Players, NEW r, Underway(s, r), ReadFailed(s, r)
  PROVE  ServerInv'
<1>1. CASE r.depth = 0
  BY <1>1, EndOfTurnUnderway, MainFits DEF ReadFailed
<1>2. CASE r.depth # 0
  BY <1>2, RunsOn DEF ReadFailed
<1> QED
  BY <1>1, <1>2

\* An update or a shutdown that ends the wait for input goes on as it began.
LEMMA NoInputUnderway ==
  ASSUME NEW s, NEW r, Underway(s, r)
  PROVE  Underway(s, NoInput(r))
<1> DEFINE n == NoInput(r)
<1>1. n \in Slot
  BY DEF NoInput, SetEof, Underway, Slot
<1>2. /\ n.depth = r.depth /\ n.state = r.state /\ n.cnum = r.cnum /\ n.held = r.held
      /\ n.sleep = r.sleep /\ n.command = r.command /\ n.execute = r.execute
  BY DEF NoInput, SetEof, Underway, Slot
<1>3. (r.eof => n.eof) /\ (n.eof => r.eof \/ ~n.line) /\ (n.line => r.line) /\ n.aborted
  BY DEF NoInput, SetEof, Underway, Slot
<1> HIDE DEF n
<1>4. Consistent(n)
  BY <1>2, <1>3 DEF Underway, Consistent
<1>5. Dismissed(n) /\ Ruled(n, n.depth)
  BY <1>2, <1>3 DEF Underway, Dismissed, Ruled
<1> QED
  BY <1>1, <1>2, <1>4, <1>5 DEF Underway, n

LEMMA GotLineKeeps ==
  ASSUME ServerInv, NEW s \in Players, NEW r, Underway(s, r), ~r.aborted, LateLines \/ ~r.eof,
         GotLine(s, r)
  PROVE  ServerInv'
<1>1. CASE r.depth = 0 /\ Dispatch(s, r)
  BY <1>1, DispatchKeeps
<1>2. CASE r.depth = 0 /\ Becomes(s, EndOfTurn(r))
  BY <1>2, EndOfTurnUnderway, MainFits
<1>3. CASE r.depth = 0 /\ Bye(s, r)
  BY <1>3, ByeKeeps
<1>4. CASE r.depth = 1 /\ r.execute /\ Becomes(s, [r EXCEPT !.pc = "execute"])
  <2> DEFINE e == [r EXCEPT !.pc = "execute"]
  <2>1. Underway(s, e)
    BY AnywhereUnderway DEF Places
  <2>2. e.pc = "execute" /\ e.depth = 1 /\ e.execute
    BY <1>4 DEF Underway, Slot
  <2>3. AtItsPlace(e)
    BY <2>1, <2>2 DEF Underway, AtItsPlace, PlaysAt, Asleep, SleepsAt
  <2> QED
    BY <1>4, <2>1, <2>2, <2>3, GoesOn
<1>5. CASE r.depth # 0 /\ ~(r.depth = 1 /\ r.execute) /\ GoOn(s, r)
  <2>1. r.execute => r.depth = 2
    BY <1>5 DEF Underway, Consistent, Slot
  <2>2. upd \notin {"wait", "run"}
    BY <1>5, <2>1 DEF Underway, Ruled
  <2> QED
    BY <1>5, <2>2, RunsOn
<1> QED
  BY <1>1, <1>2, <1>3, <1>4, <1>5 DEF GotLine

LEMMA InputKeeps ==
  ASSUME ServerInv, NEW s \in Players, NEW r, Underway(s, r), ~r.line, Input(s, r)
  PROVE  ServerInv'
<1>1. CASE MaySleepOnInput(r) /\ Becomes(s, SleepAt(r, "in"))
  <2> DEFINE i == SleepAt(r, "in")
  <2>1. Underway(s, i)
    BY AnywhereUnderway DEF Places, SleepsAt
  <2>2. i.pc = "in" /\ i.sleep # Never /\ ~i.line
    BY <1>1 DEF Underway, SleepAt, Slot, MaySleepOnInput, Never, OnInput
  <2>3. AtItsPlace(i)
    BY <2>1, <2>2 DEF Underway, AtItsPlace, PlaysAt
  <2> QED
    BY <1>1, <2>1, <2>2, <2>3, GoesOn
<1>2. CASE ReadFailed(s, NoInput(r))
  BY <1>2, NoInputUnderway, ReadFailedKeeps
<1> QED
  BY <1>1, <1>2 DEF Input

LEMMA ReceiveKeeps ==
  ASSUME ServerInv, NEW s \in Players, NEW r, Underway(s, r), Receive(s, r)
  PROVE  ServerInv'
<1>1. CASE ReadFailed(s, r)
  BY <1>1, ReadFailedKeeps
<1>2. CASE ~r.aborted /\ r.line /\ GotLine(s, [r EXCEPT !.line = FALSE])
  <2> DEFINE g == [r EXCEPT !.line = FALSE]
  <2>1. g \in Slot
    BY DEF Underway, Slot
  <2>2. /\ g.depth = r.depth /\ g.state = r.state /\ g.cnum = r.cnum /\ g.held = r.held /\ g.sleep = r.sleep
        /\ g.command = r.command /\ g.execute = r.execute /\ g.aborted = r.aborted /\ g.eof = r.eof /\ ~g.line
    BY DEF Underway, Slot
  <2>3. LateLines \/ ~r.eof
    BY <1>2 DEF Underway, Consistent
  <2> HIDE DEF g
  <2>4. Underway(s, g)
    BY <2>1, <2>2 DEF Underway, Consistent, Dismissed, Ruled
  <2> QED
    BY <1>2, <2>2, <2>3, <2>4, GotLineKeeps DEF g
<1>3. CASE \E ctld \in BOOLEAN :
             ReadFailed(s, [r EXCEPT !.line = FALSE, !.aborted = TRUE, !.ctld = @ \/ ctld])
  <2>1. PICK ctld \in BOOLEAN :
             ReadFailed(s, [r EXCEPT !.line = FALSE, !.aborted = TRUE, !.ctld = @ \/ ctld])
    BY <1>3
  <2> DEFINE a == [r EXCEPT !.line = FALSE, !.aborted = TRUE, !.ctld = @ \/ ctld]
  <2>2. a \in Slot
    <3>1. (r.ctld \/ ctld) \in BOOLEAN
      OBVIOUS
    <3> QED
      BY <3>1 DEF Underway, Slot
  <2>3. /\ a.depth = r.depth /\ a.state = r.state /\ a.cnum = r.cnum /\ a.held = r.held /\ a.sleep = r.sleep
        /\ a.command = r.command /\ a.execute = r.execute /\ a.aborted /\ a.eof = r.eof /\ ~a.line
    BY DEF Underway, Slot
  <2> HIDE DEF a
  <2>4. Underway(s, a)
    BY <2>2, <2>3 DEF Underway, Consistent, Dismissed, Ruled
  <2> QED
    BY <2>1, <2>4, ReadFailedKeeps DEF a
<1>4. CASE ~r.line /\ Input(s, r)
  BY <1>4, InputKeeps
<1>5. CASE ~r.line /\ Becomes(s, SleepAt(r, "out"))
  <2> DEFINE o == SleepAt(r, "out")
  <2>1. Underway(s, o)
    BY AnywhereUnderway DEF Places, SleepsAt
  <2>2. o.pc = "out" /\ ~o.line
    BY <1>5 DEF Underway, SleepAt, Slot
  <2>3. AtItsPlace(o)
    BY <2>1, <2>2 DEF Underway, AtItsPlace, PlaysAt
  <2> QED
    BY <1>5, <2>1, <2>2, <2>3, GoesOn
<1> QED
  BY <1>1, <1>2, <1>3, <1>4, <1>5 DEF Receive

-----------------------------------------------------------------------------
(* The actions of a player's thread. *)

LEMMA HereUnderway ==
  ASSUME ServerInv, NEW s \in Players, p[s].state = "playing", p[s].pc # "lock"
  PROVE  Underway(s, p[s])
<1>1. Fits(p[s])
  BY DEF ServerInv
<1>2. HeldBy(p[s]) = p[s].depth
  BY <1>1 DEF HeldBy, Fits, Slot
<1> QED
  BY <1>1, <1>2 DEF Underway, Fits

\* Who does not play fits in the loop of player_login().
LEMMA AskingFits ==
  ASSUME ServerInv, NEW s \in Players, NEW r \in Slot, Consistent(r), r.state # "playing",
         Becomes(s, SleepAt(r, "login"))
  PROVE  ServerInv'
<1> DEFINE l == SleepAt(r, "login")
<1>1. l \in Slot
  BY DEF SleepAt, Slot, Places, SleepsAt
<1>2. l.pc = "login" /\ l.state = r.state /\ l.depth = 0
  BY DEF SleepAt, Slot, Consistent
<1>3. Consistent(l)
  BY DEF SleepAt, Slot, Consistent
<1>4. AtItsPlace(l) /\ Dismissed(l) /\ Ruled(l, HeldBy(l))
  BY <1>2 DEF AtItsPlace, PlaysAt, Dismissed, Ruled, HeldBy
<1> QED
  BY <1>1, <1>2, <1>3, <1>4, FitsIn DEF Fits

\* Nobody begins to play a country that is played.
LEMMA PlayKeeps ==
  ASSUME ServerInv, NEW s \in Players, NEW r \in Slot, Consistent(r), r.state # "playing", r.depth = 0, 
         Play(s, r)
  PROVE  ServerInv'
<1>1. CASE Becomes(s, SleepAt(r, "login"))
  BY <1>1, AskingFits
<1>2. CASE /\ Other(s, r.cnum) = {} /\ ShutdownLock!MayRead
           /\ Becomes(s, [r EXCEPT !.state = "playing", !.held = @ + 1, !.pc = "main"])
  <2> DEFINE m == [r EXCEPT !.state = "playing", !.held = @ + 1, !.pc = "main"]
  <2>1. m \in Slot
    <3>1. r.held + 1 \in Nat
      BY DEF Slot
    <3> QED
      BY <3>1 DEF Slot, Places
  <2>2. /\ m.state = "playing" /\ m.held = r.held + 1 /\ m.pc = "main" /\ m.cnum = r.cnum /\ m.depth = 0
        /\ m.eof = r.eof /\ m.line = r.line /\ m.sleep = r.sleep /\ m.aborted = r.aborted
        /\ m.command = r.command /\ m.execute = r.execute /\ r.held \in Nat
    BY DEF Slot
  <2> HIDE DEF m
  <2>3. Consistent(m)
    BY <2>2 DEF Consistent
  <2>4. AtItsPlace(m) /\ Ruled(m, HeldBy(m))
    BY <2>2 DEF AtItsPlace, PlaysAt, Asleep, SleepsAt, Ruled, HeldBy
  <2>5. shut = "no"
    BY <1>2, SessionsGiveWay DEF ServerInv
  <2>6. Fits(m)
    BY <2>1, <2>3, <2>4, <2>5 DEF Fits, Dismissed
  <2> QED
    BY <1>2, <2>2, <2>6, FitsIn DEF m
<1>3. CASE Becomes(s, [r EXCEPT !.pc = "enter"])
  <2> DEFINE e == [r EXCEPT !.pc = "enter"]
  <2>1. e \in Slot
    BY DEF Slot, Places
  <2>2. e.pc = "enter" /\ e.state = r.state /\ e.depth = 0
    BY DEF Slot
  <2>3. Consistent(e)
    BY DEF Slot, Consistent
  <2>4. AtItsPlace(e) /\ Dismissed(e) /\ Ruled(e, HeldBy(e))
    BY <2>2 DEF AtItsPlace, PlaysAt, Dismissed, Ruled, HeldBy
  <2> QED
    BY <1>3, <2>1, <2>2, <2>3, <2>4, FitsIn DEF Fits
<1> QED
  BY <1>1, <1>2, <1>3 DEF Play

\* A player who is told to leave, wherever he is.
LEMMA KickedFits ==
  ASSUME NEW r, Fits(r), r.state = "playing"
  PROVE  /\ Kicked(r) \in Slot /\ Consistent(Kicked(r)) /\ AtItsPlace(Kicked(r))
         /\ Ruled(Kicked(r), HeldBy(Kicked(r)))
         /\ Kicked(r).state = "playing" /\ Kicked(r).cnum = r.cnum /\ Kicked(r).held = r.held
         /\ Kicked(r).eof /\ Kicked(r).sleep = Never
<1> DEFINE k == Kicked(r)
<1>1. k \in Slot
  BY DEF Kicked, Woken, SetEof, Asleep, Fits, Slot
<1>2. /\ k.pc = r.pc /\ k.state = r.state /\ k.cnum = r.cnum /\ k.held = r.held /\ k.depth = r.depth
      /\ k.command = r.command /\ k.execute = r.execute
      /\ k.aborted /\ k.sleep = Never /\ k.eof /\ ~k.line
  BY DEF Kicked, Woken, SetEof, Asleep, Fits, Slot
<1>3. ~Asleep(k)
  BY DEF Kicked, Woken, SetEof, Asleep, Fits, Slot
<1> HIDE DEF k
<1>4. HeldBy(k) = HeldBy(r)
  BY <1>2 DEF HeldBy
<1>5. Consistent(k) /\ AtItsPlace(k) /\ Ruled(k, HeldBy(k))
  BY <1>2, <1>3, <1>4 DEF Fits, Consistent, AtItsPlace, Ruled
<1> QED
  BY <1>1, <1>2, <1>5 DEF k

LEMMA KillKeeps ==
  ASSUME ServerInv, NEW s \in Players, p[s].pc = "login", NEW q \in Other(s, p[s].cnum), Kill(s, q)
  PROVE  ServerInv'
<1>1. q \in Players /\ p[q].state = "playing" /\ Fits(p[q]) /\ Fits(p[s]) /\ p[s].state # "playing"
  BY DEF Other, ServerInv, Fits, AtItsPlace
<1> DEFINE k == Kicked(p[q])
           l == SleepAt(p[s], "login")
<1>2. /\ Fits(k) /\ k.state = "playing" /\ k.cnum = p[q].cnum
  BY <1>1, KickedFits DEF Fits, Dismissed
<1>3. l \in Slot
  BY <1>1 DEF Fits, SleepAt, Slot, Places, SleepsAt
<1>4. l.pc = "login" /\ l.state = p[s].state /\ l.depth = 0
  BY <1>1 DEF Fits, SleepAt, Slot, Consistent
<1>5. Consistent(l)
  BY <1>1 DEF Fits, SleepAt, Slot, Consistent
<1>6. Fits(l)
  BY <1>1, <1>3, <1>4, <1>5 DEF Fits, AtItsPlace, PlaysAt, Dismissed, Ruled, HeldBy
<1>7. /\ p' \in [Players -> Slot]
      /\ \A t \in Players : p'[t] = IF t = s THEN l ELSE IF t = q THEN k ELSE p[t]
  BY <1>1, <1>2, <1>3 DEF Kill, ServerInv, Fits
<1>8. UNCHANGED <<upd, wanted, shut>>
  BY DEF Kill
<1>9. ASSUME NEW t \in Players PROVE Fits(p[t])'
  <2>1. Fits(p'[t])
    BY <1>2, <1>6, <1>7 DEF ServerInv
  <2> QED
    BY <2>1, <1>8 DEF Fits, Consistent, AtItsPlace, Asleep, HeldBy, Ruled, Dismissed
<1>10. OneSessionPerCountry'
  <2>1. \A t \in Players : p'[t].state = "playing" => p[t].state = "playing" /\ p'[t].cnum = p[t].cnum
    BY <1>1, <1>2, <1>4, <1>7
  <2> QED
    BY <2>1 DEF ServerInv, OneSessionPerCountry, Playing
<1> QED
  BY <1>7, <1>8, <1>9, <1>10 DEF ServerInv, TriggerNotLost

LEMMA LoginKeeps ==
  ASSUME ServerInv, NEW s \in Players, Login(s)
  PROVE  ServerInv'
<1> DEFINE r == p[s]
<1>1. r.pc = "login" /\ r \in Slot /\ Consistent(r) /\ r.state # "playing" /\ r.depth = 0
  BY DEF Login, Resumes, ServerInv, Fits, AtItsPlace, Consistent
<1>2. ASSUME NEW c \in Countries \cup {NoCountry}, NEW a \in BOOLEAN
      PROVE  LET n == [r EXCEPT !.cnum = c, !.authenticated = a]
             IN  n \in Slot /\ Consistent(n) /\ n.state # "playing" /\ n.depth = 0
  <2> DEFINE n == [r EXCEPT !.cnum = c, !.authenticated = a]
  <2>1. n \in Slot
    BY <1>1 DEF Slot
  <2>2. n.state = r.state /\ n.depth = 0
    BY <1>1 DEF Slot
  <2>3. Consistent(n)
    BY <1>1 DEF Slot, Consistent
  <2> QED
    BY <1>1, <2>1, <2>2, <2>3
<1>3. CASE Becomes(s, Left(r))
  BY <1>1, <1>3, LeavingFits
<1>4. CASE Becomes(s, SleepAt(r, "login"))
  BY <1>1, <1>4, AskingFits
<1>5. CASE \E c \in Countries : Becomes(s, SleepAt([r EXCEPT !.cnum = c, !.authenticated = FALSE], "login"))
  BY <1>2, <1>5, AskingFits
<1>6. CASE \E c \in Countries : Play(s, [r EXCEPT !.cnum = c, !.authenticated = TRUE])
  BY <1>2, <1>6, PlayKeeps
<1>7. CASE Becomes(s, SleepAt([r EXCEPT !.authenticated = TRUE], "login"))
  <2> DEFINE n == [r EXCEPT !.authenticated = TRUE]
  <2>1. n \in Slot
    BY <1>1 DEF Slot
  <2>2. Consistent(n) /\ n.state # "playing"
    BY <1>1 DEF Slot, Consistent
  <2> QED
    BY <1>7, <2>1, <2>2, AskingFits
<1>8. CASE Play(s, r)
  BY <1>1, <1>8, PlayKeeps
<1>9. CASE \E q \in Other(s, r.cnum) : Kill(s, q)
  BY <1>1, <1>9, KillKeeps
<1> QED
  BY <1>3, <1>4, <1>5, <1>6, <1>7, <1>8, <1>9 DEF Login

LEMMA ConnectKeeps ==
  ASSUME ServerInv, NEW s \in Players, Connect(s)
  PROVE  ServerInv'
<1> DEFINE i == [p[s] EXCEPT !.state = "init"]
<1>1. p[s] \in Slot /\ Consistent(p[s]) /\ p[s].state # "playing"
  BY DEF Connect, ServerInv, Fits, AtItsPlace
<1>2. i \in Slot /\ i.state = "init"
  BY <1>1 DEF Slot
<1>3. Consistent(i)
  BY <1>1 DEF Slot, Consistent
<1> QED
  BY <1>2, <1>3, AskingFits DEF Connect

\* The end of a command leaves the commands that nest it to run on.
LEMMA FinishKeeps ==
  ASSUME ServerInv, NEW s \in Players, Finish(s)
  PROVE  ServerInv'
<1> DEFINE r == p[s]
           done == [r EXCEPT !.depth = @ - 1, !.command = FALSE, !.sleep = SleepAfterCommand(r)]
<1>1. r.pc = "cmd" /\ r.state = "playing" /\ r.depth # 0 /\ Underway(s, r)
  <2>1. r.pc = "cmd"
    BY DEF Finish
  <2>2. Fits(r)
    BY DEF ServerInv
  <2> QED
    BY <2>1, <2>2, HereUnderway DEF Fits, AtItsPlace, PlaysAt
<1>2. r.depth \in {1, 2} /\ (r.depth = 2 => r.execute) /\ r.depth - 1 \in Nat
  BY <1>1 DEF Underway, Slot, Consistent
<1>3. SleepAfterCommand(r) \in {Never, Freely} /\ (SleepAfterCommand(r) = Never <=> r.sleep = Never /\ r.eof)
  BY <1>1 DEF Underway, Slot, SleepAfterCommand, Never, Freely
<1>4. done \in Slot
  BY <1>1, <1>2, <1>3 DEF Underway, Slot
<1>5. /\ done.depth = r.depth - 1 /\ ~done.command /\ done.sleep = SleepAfterCommand(r)
      /\ done.state = r.state /\ done.cnum = r.cnum /\ done.held = r.held /\ done.execute = r.execute
      /\ done.eof = r.eof /\ done.line = r.line /\ done.aborted = r.aborted
  BY <1>1 DEF Underway, Slot
<1>6. Becomes(s, Finished(r))
  BY DEF Finish
<1>7. Underway(s, done)
  <2> HIDE DEF done, r
  <2>1. Consistent(done)
    BY <1>1, <1>2, <1>3, <1>5 DEF Underway, Consistent
  <2>2. Dismissed(done) /\ Ruled(done, done.depth)
    BY <1>1, <1>2, <1>3, <1>5 DEF Underway, Dismissed, Ruled
  <2> QED
    BY <1>1, <1>4, <1>5, <2>1, <2>2 DEF Underway
<1>8. CASE done.depth # 0
  BY <1>6, <1>7, <1>8, RunsOn DEF Finished
<1>9. CASE done.depth = 0
  <2> DEFINE f == [done EXCEPT !.ctld = IF r.execute THEN FALSE ELSE @]
  <2>1. f \in Slot
    <3>1. (IF r.execute THEN FALSE ELSE done.ctld) \in BOOLEAN
      BY <1>4 DEF Slot
    <3> HIDE DEF done
    <3> QED
      BY <1>4, <3>1 DEF Slot
  <2>2. /\ f.depth = done.depth /\ f.state = done.state /\ f.cnum = done.cnum /\ f.held = done.held
        /\ f.sleep = done.sleep /\ f.command = done.command /\ f.execute = done.execute
        /\ f.aborted = done.aborted /\ f.eof = done.eof /\ f.line = done.line
    <3> HIDE DEF done
    <3> QED
      BY <1>4 DEF Slot
  <2>3. Underway(s, f) /\ f.depth = 0
    <3> HIDE DEF done, f
    <3> QED
      BY <1>7, <1>9, <2>1, <2>2 DEF Underway, Consistent, Dismissed, Ruled
  <2>4. Becomes(s, EndOfTurn(f))
    BY <1>6, <1>9 DEF Finished
  <2> HIDE DEF f
  <2> QED
    BY <2>3, <2>4, EndOfTurnUnderway, MainFits
<1> QED
  BY <1>8, <1>9

\* Going to sleep again where one slept, with the deadline one had.
LEMMA SentPartKeeps ==
  ASSUME ServerInv, NEW s \in Players, SentPart(s)
  PROVE  ServerInv'
<1> DEFINE r == p[s]
           a == SleepAt(r, r.pc)
<1>1. Fits(r)
  BY DEF ServerInv
<1>2. r.pc \in {"out", "pr", "bye"} /\ r.state = "playing"
  BY <1>1 DEF SentPart, Fits, AtItsPlace, PlaysAt
<1>3. Underway(s, r)
  BY <1>2, HereUnderway
<1>4. Underway(s, a)
  BY <1>2, <1>3, AnywhereUnderway DEF Places, SleepsAt
<1>5. a.pc = r.pc /\ a.depth = r.depth /\ a.eof = r.eof /\ a.sleep = r.sleep /\ a.line = r.line
  BY <1>3 DEF Underway, SleepAt, Slot
<1>6. r.pc = "bye" => r.sleep # Never
  BY <1>3 DEF SentPart, MaySleepOnInput, OnInput, Never, Underway, Slot
<1>7. AtItsPlace(a)
  BY <1>1, <1>2, <1>4, <1>5, <1>6 DEF Underway, Fits, AtItsPlace, PlaysAt
<1> QED
  BY <1>2, <1>4, <1>5, <1>7, GoesOn DEF SentPart

\* A player's record returns to what it was, but for a lock he still holds.
LEMMA ClosedKeeps ==
  ASSUME ServerInv, NEW s \in Players, Closed(s)
  PROVE  ServerInv'
<1> DEFINE n == [NoPlayer EXCEPT !.held = p[s].held]
<1>1. Fits(p[s]) /\ p[s].state # "playing"
  BY DEF Closed, Resumes, ServerInv, Fits, AtItsPlace
<1>2. n \in Slot
  BY <1>1 DEF Fits, Slot, NoPlayer, Places, Freely
<1>3. /\ n.pc = "free" /\ n.state = "none" /\ n.depth = 0 /\ ~n.command /\ n.sleep = Freely
      /\ ~n.eof /\ ~n.line /\ n.held = p[s].held
  BY DEF NoPlayer
<1> HIDE DEF n
<1>4. Consistent(n)
  BY <1>1, <1>3 DEF Fits, Consistent, Freely, Never
<1>5. AtItsPlace(n) /\ Dismissed(n) /\ Ruled(n, HeldBy(n))
  BY <1>3 DEF AtItsPlace, PlaysAt, Dismissed, Ruled, HeldBy
<1> QED
  BY <1>2, <1>3, <1>4, <1>5, FitsIn DEF Fits, Closed, n

\* Nothing changes for a thread that wakes up but that it is awake.
LEMMA SelectReturnsKeeps ==
  ASSUME ServerInv, NEW s \in Players, NEW how \in {"ready", "early"}, SelectReturns(s, how)
  PROVE  ServerInv'
<1> DEFINE r == p[s]
           w == [r EXCEPT !.wake = how]
<1>1. Fits(r)
  BY DEF ServerInv
<1>2. w \in Slot
  BY <1>1 DEF Fits, Slot
<1>3. /\ w.depth = r.depth /\ w.state = r.state /\ w.cnum = r.cnum /\ w.held = r.held /\ w.pc = r.pc
      /\ w.sleep = r.sleep /\ w.command = r.command /\ w.execute = r.execute
      /\ w.aborted = r.aborted /\ w.eof = r.eof /\ w.line = r.line /\ ~Asleep(w)
  BY <1>1 DEF Fits, Slot, Asleep
<1> HIDE DEF w
<1>4. HeldBy(w) = HeldBy(r)
  BY <1>3 DEF HeldBy
<1>5. Fits(w)
  BY <1>1, <1>2, <1>3, <1>4 DEF Fits, Consistent, AtItsPlace, Ruled, Dismissed
<1>6. w.state = "playing" => Other(s, w.cnum) \ {s} = {}
  BY <1>3, OwnSession
<1>7. Becomes(s, w)
  BY DEF SelectReturns, w
<1> QED
  BY <1>5, <1>6, <1>7, FitsIn

\* What a thread does next, wherever it is.
LEMMA StepKeeps ==
  ASSUME ServerInv, NEW s \in Players, Step(s)
  PROVE  ServerInv'
<1> DEFINE r == p[s]
<1>1. Fits(r)
  BY DEF ServerInv
<1>2. r.pc \in {"main", "prompt", "bye"} => r.state = "playing" /\ r.depth = 0 /\ Underway(s, r)
  BY <1>1, HereUnderway DEF Fits, AtItsPlace, PlaysAt
<1>3. r.pc \in {"out", "in"} => Underway(s, r) /\ ~r.line
  BY <1>1, HereUnderway DEF Fits, AtItsPlace, PlaysAt
<1>4. r.pc \in {"cmd", "pr", "execute"} => r.depth # 0 /\ Underway(s, r)
  BY <1>1, HereUnderway DEF Fits, AtItsPlace, PlaysAt
<1>5. CASE Login(s)
  BY <1>5, LoginKeeps
<1>6. CASE StatusFails(s)
  BY <1>2, <1>6, ByeKeeps DEF StatusFails
<1>7. CASE Status(s)
  <2> DEFINE m == [r EXCEPT !.pc = "prompt"]
  <2>1. Underway(s, m)
    BY <1>2, <1>7, AnywhereUnderway DEF Status, Places
  <2>2. m.depth = 0 /\ m.pc = "prompt"
    BY <1>2, <1>7 DEF Status, Underway, Slot
  <2> QED
    BY <1>7, <2>1, <2>2, MainFits DEF Status
<1>8. CASE Command(s)
  BY <1>2, <1>8, ReceiveKeeps DEF Command
<1>9. CASE OutputDone(s)
  BY <1>3, <1>9, InputKeeps DEF OutputDone, Resumes
<1>10. CASE InputDone(s)
  <2>1. Underway(s, r) /\ ~r.line
    BY <1>3, <1>10 DEF InputDone, Resumes
  <2>2. CASE ReadFailed(s, NoInput(r))
    BY <2>1, <2>2, NoInputUnderway, ReadFailedKeeps
  <2>3. CASE ReadFailed(s, NoInput([r EXCEPT !.eof = TRUE]))
    <3> DEFINE e == [r EXCEPT !.eof = TRUE]
    <3>1. e \in Slot
      BY <2>1 DEF Underway, Slot
    <3>2. /\ e.depth = r.depth /\ e.state = r.state /\ e.cnum = r.cnum /\ e.held = r.held
          /\ e.sleep = r.sleep /\ e.command = r.command /\ e.execute = r.execute
          /\ e.aborted = r.aborted /\ e.eof /\ e.line = r.line
      BY <2>1 DEF Underway, Slot
    <3> HIDE DEF e
    <3>3. Underway(s, e)
      BY <2>1, <3>1, <3>2 DEF Underway, Consistent, Dismissed, Ruled
    <3> QED
      BY <2>3, <3>3, NoInputUnderway, ReadFailedKeeps DEF e
  <2>4. CASE Receive(s, r)
    BY <2>1, <2>4, ReceiveKeeps
  <2>5. CASE (LateLines \/ ~r.eof) /\ Receive(s, [r EXCEPT !.line = TRUE])
    <3> DEFINE n == [r EXCEPT !.line = TRUE]
    <3>1. n \in Slot
      BY <2>1 DEF Underway, Slot
    <3>2. /\ n.depth = r.depth /\ n.state = r.state /\ n.cnum = r.cnum /\ n.held = r.held
          /\ n.sleep = r.sleep /\ n.command = r.command /\ n.execute = r.execute
          /\ n.aborted = r.aborted /\ n.eof = r.eof
      BY <2>1 DEF Underway, Slot
    <3> HIDE DEF n
    <3>3. Underway(s, n)
      BY <2>1, <2>5, <3>1, <3>2 DEF Underway, Consistent, Dismissed, Ruled
    <3> QED
      BY <2>5, <3>3, ReceiveKeeps DEF n
  <2> QED
    BY <1>10, <2>2, <2>3, <2>4, <2>5 DEF InputDone
<1>11. CASE StartCommand(s)
  <2>1. upd \notin {"wait", "run"}
    BY <1>11, CommandsGiveWay DEF StartCommand
  <2>2. Underway(s, r) /\ r.depth # 0
    BY <1>1, <1>11, <2>1 DEF StartCommand, Fits, AtItsPlace, PlaysAt, Underway, Ruled
  <2> QED
    BY <1>11, <2>1, <2>2, RunsOn DEF StartCommand
<1>12. CASE Finish(s)
  BY <1>12, FinishKeeps
<1>13. CASE Prompt(s)
  BY <1>4, <1>13, ReceiveKeeps DEF Prompt
<1>14. CASE PrintMore(s)
  <2> DEFINE m == SleepAt(r, "pr")
  <2>1. Underway(s, m)
    BY <1>4, <1>14, AnywhereUnderway DEF PrintMore, Places, SleepsAt
  <2>2. m.depth # 0 /\ m.pc = "pr"
    BY <1>4, <1>14 DEF PrintMore, SleepAt, Underway, Slot
  <2>3. AtItsPlace(m)
    BY <2>1, <2>2 DEF Underway, AtItsPlace, PlaysAt
  <2> QED
    BY <1>14, <2>1, <2>2, <2>3, GoesOn DEF PrintMore
<1>15. CASE AbortSelf(s)
  <2> DEFINE m == [r EXCEPT !.aborted = TRUE]
  <2>1. r.pc = "cmd" /\ r.depth # 0 /\ Underway(s, r)
    BY <1>4, <1>15 DEF AbortSelf
  <2>2. m \in Slot
    BY <2>1 DEF Underway, Slot
  <2>3. /\ m.depth = r.depth /\ m.state = r.state /\ m.cnum = r.cnum /\ m.held = r.held
        /\ m.sleep = r.sleep /\ m.command = r.command /\ m.execute = r.execute
        /\ m.aborted /\ m.eof = r.eof /\ m.line = r.line /\ m.pc = "cmd"
    BY <2>1 DEF Underway, Slot
  <2> HIDE DEF m
  <2>4. Underway(s, m)
    BY <2>1, <2>2, <2>3 DEF Underway, Consistent, Dismissed, Ruled
  <2>5. AtItsPlace(m)
    BY <2>1, <2>3 DEF Underway, AtItsPlace, PlaysAt, Asleep, SleepsAt
  <2> QED
    BY <1>15, <2>3, <2>4, <2>5, GoesOn DEF AbortSelf, m
<1>16. CASE Printed(s)
  BY <1>4, <1>16, RunsOn DEF Printed, Resumes
<1>17. CASE Execute(s)
  <2>1. r.depth = 1 /\ r.execute /\ Underway(s, r) /\ Dispatch(s, r)
    BY <1>1, <1>4, <1>17 DEF Execute, Fits, AtItsPlace
  <2> QED
    BY <2>1, DispatchKeeps
<1>18. CASE SaidBye(s)
  <2>1. r.eof /\ r.depth = 0 /\ Underway(s, r) /\ Leave(s, r)
    BY <1>1, <1>2, <1>18 DEF SaidBye, Resumes, Fits, AtItsPlace
  <2> QED
    BY <2>1, LeaveKeeps
<1>19. CASE SentPart(s)
  BY <1>19, SentPartKeeps
<1>20. CASE Closed(s)
  BY <1>20, ClosedKeeps
<1> QED
  BY <1>5, <1>6, <1>7, <1>8, <1>9, <1>10, <1>11, <1>12, <1>13, <1>14, <1>15, <1>16, <1>17, <1>18,
     <1>19, <1>20 DEF Step

-----------------------------------------------------------------------------
(* The update and the shutdown. *)

\* The update aborts the commands it has to wait for, and no others.
LEMMA AbortedFits ==
  ASSUME NEW r, Fits(r)
  PROVE  /\ Aborted(r) \in Slot /\ Consistent(Aborted(r)) /\ AtItsPlace(Aborted(r))
         /\ Dismissed(Aborted(r)) /\ HeldBy(Aborted(r)) = HeldBy(r)
         /\ Aborted(r).state = r.state /\ Aborted(r).cnum = r.cnum /\ Aborted(r).held = r.held
         /\ Aborted(r).execute = r.execute
         /\ HeldBy(r) # 0 /\ (r.execute => HeldBy(r) = 2) => Aborted(r).aborted /\ Aborted(r).sleep = Never
<1> DEFINE a == Aborted(r)
<1>1. a \in Slot
  <2> DEFINE n == [r EXCEPT !.aborted = TRUE, !.sleep = Never]
  <2>1. n \in Slot
    BY DEF Fits, Slot
  <2>2. Woken(n) \in Slot
    <3> HIDE DEF n
    <3> QED
      BY <2>1 DEF Woken, Slot
  <2> QED
    BY <2>2 DEF Aborted, Fits
<1>2. /\ a.pc = r.pc /\ a.state = r.state /\ a.cnum = r.cnum /\ a.held = r.held /\ a.depth = r.depth
      /\ a.command = r.command /\ a.execute = r.execute /\ a.eof = r.eof /\ a.line = r.line
  BY DEF Aborted, Woken, Asleep, Fits, Slot
<1>3. CASE r.state = "playing" /\ r.command
  <2>1. a.aborted /\ a.sleep = Never /\ ~Asleep(a)
    BY <1>3 DEF Aborted, Woken, Asleep, Fits, Slot
  <2> HIDE DEF a
  <2>2. HeldBy(a) = HeldBy(r)
    BY <1>2 DEF HeldBy
  <2>3. Consistent(a) /\ AtItsPlace(a) /\ Dismissed(a)
    BY <1>2, <1>3, <2>1 DEF Fits, Consistent, AtItsPlace, Dismissed
  <2> QED
    BY <1>1, <1>2, <2>1, <2>2, <2>3 DEF a
<1>4. CASE ~(r.state = "playing" /\ r.command)
  <2>1. a = r
    BY <1>4 DEF Aborted
  <2>2. ~(HeldBy(r) # 0 /\ (r.execute => HeldBy(r) = 2))
    BY <1>4 DEF Fits, Consistent, HeldBy, Slot, AtItsPlace, PlaysAt
  <2> QED
    BY <2>1, <2>2 DEF Fits
<1> QED
  BY <1>3, <1>4

LEMMA UpdateStartsKeeps ==
  ASSUME ServerInv, UpdateStarts
  PROVE  ServerInv'
<1>1. CASE p' = [s \in Players |-> Aborted(p[s])] /\ upd' = IF UpdateLock!MayWrite THEN "run" ELSE "wait"
  <2>1. ASSUME NEW s \in Players PROVE Fits(p[s])'
    <3> DEFINE a == Aborted(p[s])
    <3>1. p'[s] = a
      BY <1>1
    <3>2. Fits(p[s])
      BY DEF ServerInv
    <3>3. /\ a \in Slot /\ Consistent(a) /\ AtItsPlace(a) /\ Dismissed(a)
          /\ HeldBy(a) = HeldBy(p[s]) /\ a.execute = p[s].execute
          /\ HeldBy(a) # 0 /\ (a.execute => HeldBy(a) = 2) => a.aborted /\ a.sleep = Never
      BY <3>2, AbortedFits
    <3>4. upd' = "run" => HeldBy(a) = 0
      BY <1>1, <3>3, UpdateAlone DEF HeldBy, Holds
    <3> QED
      BY <3>1, <3>3, <3>4 DEF UpdateStarts, Fits, Consistent, AtItsPlace, Asleep, HeldBy, Ruled, Dismissed
  <2>2. OneSessionPerCountry' /\ p' \in [Players -> Slot]
    <3>1. \A s \in Players : p'[s] = Aborted(p[s])
      BY <1>1
    <3>2. \A s \in Players : p'[s] \in Slot /\ p'[s].state = p[s].state /\ p'[s].cnum = p[s].cnum
      BY <3>1, AbortedFits DEF ServerInv
    <3> QED
      BY <1>1, <3>2 DEF ServerInv, OneSessionPerCountry, Playing
  <2> QED
    BY <1>1, <2>1, <2>2 DEF UpdateStarts, ServerInv, TriggerNotLost
<1>2. CASE upd' = "asleep" /\ UNCHANGED p
  BY <1>2, ZenonT(60) DEF UpdateStarts, ServerInv, Fits, Consistent, AtItsPlace, Asleep, HeldBy, Ruled, Dismissed,
              OneSessionPerCountry, Playing, TriggerNotLost
<1> QED
  BY <1>1, <1>2 DEF UpdateStarts

LEMMA ShutdownStartsKeeps ==
  ASSUME ServerInv, ShutdownStarts
  PROVE  ServerInv'
<1> DEFINE k(s) == IF p[s].state = "playing" THEN Kicked(p[s]) ELSE p[s]
<1>1. ASSUME NEW s \in Players
      PROVE  /\ k(s) \in Slot /\ Consistent(k(s)) /\ AtItsPlace(k(s)) /\ Ruled(k(s), HeldBy(k(s)))
             /\ k(s).state = p[s].state /\ k(s).cnum = p[s].cnum
             /\ k(s).state = "playing" => k(s).eof /\ k(s).sleep = Never /\ p[s].held # 0
  <2>1. Fits(p[s])
    BY DEF ServerInv
  <2> QED
    BY <2>1, KickedFits DEF Fits, Consistent
<1>2. p' = [s \in Players |-> k(s)] /\ UNCHANGED <<upd, wanted>>
  BY DEF ShutdownStarts
<1>3. shut' = IF ShutdownLock!MayWrite THEN "held" ELSE "wait"
  BY DEF ShutdownStarts
<1> HIDE DEF k
<1>4. \A s \in Players : p'[s] = k(s)
  BY <1>2
<1>5. ASSUME NEW s \in Players PROVE Fits(p[s])'
  <2>1. shut' = "held" => k(s).state # "playing"
    BY <1>1, <1>3, ShutdownAlone
  <2> QED
    BY <1>1, <1>2, <1>4, <2>1 DEF Fits, Consistent, AtItsPlace, Asleep, HeldBy, Ruled, Dismissed
<1>6. OneSessionPerCountry' /\ p' \in [Players -> Slot]
  BY <1>1, <1>2, <1>4 DEF ServerInv, OneSessionPerCountry, Playing
<1> QED
  BY <1>2, <1>3, <1>5, <1>6 DEF ServerInv, TriggerNotLost

\* Who gets a lock finds nobody holding it.
LEMMA GetsLockKeeps ==
  ASSUME ServerInv, UpdateAwakes \/ UpdateGetsLock \/ UpdateEnds \/ ShutdownGetsLock
  PROVE  ServerInv'
<1>1. p' = p
  BY DEF UpdateAwakes, UpdateGetsLock, UpdateEnds, ShutdownGetsLock
<1>2. ASSUME NEW s \in Players PROVE Fits(p[s])'
  <2>1. Fits(p[s])
    BY DEF ServerInv
  <2>2. CASE UpdateAwakes \/ UpdateEnds
    BY <1>1, <2>1, <2>2 DEF UpdateAwakes, UpdateEnds, Fits, Consistent, AtItsPlace, Asleep, HeldBy, Ruled, Dismissed
  <2>3. CASE UpdateGetsLock
    <3>1. HeldBy(p[s]) = 0
      BY <2>3, UpdateAlone DEF UpdateGetsLock, HeldBy, Holds
    <3> QED
      BY <1>1, <2>1, <2>3, <3>1 DEF UpdateGetsLock, Fits, Consistent, AtItsPlace, Asleep, HeldBy, Ruled, Dismissed
  <2>4. CASE ShutdownGetsLock
    <3>1. p[s].state # "playing"
      BY <2>1, <2>4, ShutdownAlone DEF ShutdownGetsLock, Fits, Consistent
    <3> QED
      BY <1>1, <2>1, <2>4, <3>1 DEF ShutdownGetsLock, Fits, Consistent, AtItsPlace, Asleep, HeldBy, Ruled, Dismissed
  <2> QED
    BY <2>2, <2>3, <2>4
<1> QED
  BY <1>1, <1>2 DEF ServerInv, OneSessionPerCountry, Playing, TriggerNotLost,
                    UpdateAwakes, UpdateGetsLock, UpdateEnds, ShutdownGetsLock

LEMMA InitFits == Init => ServerInv
<1> SUFFICES ASSUME Init PROVE ServerInv
  OBVIOUS
<1>1. NoPlayer \in Slot
  BY DEF NoPlayer, Slot, Places, Freely
<1>2. Fits(NoPlayer)
  BY <1>1 DEF Init, NoPlayer, Fits, Consistent, AtItsPlace, PlaysAt, Asleep, HeldBy, Ruled, Dismissed, Freely, Never
<1>3. p \in [Players -> Slot] /\ \A s \in Players : p[s] = NoPlayer
  BY <1>1 DEF Init
<1>4. NoPlayer.state # "playing"
  BY DEF NoPlayer
<1> QED
  BY <1>2, <1>3, <1>4 DEF Init, ServerInv, OneSessionPerCountry, Playing, TriggerNotLost

\* Every step of every thread keeps the invariant.
LEMMA NextKeeps == ServerInv /\ [Next]_vars => ServerInv'
<1> SUFFICES ASSUME ServerInv, [Next]_vars PROVE ServerInv'
  OBVIOUS
<1>1. ASSUME NEW s \in Players, Connect(s) PROVE ServerInv'
  BY <1>1, ConnectKeeps
<1>2. ASSUME NEW s \in Players, Step(s) PROVE ServerInv'
  BY <1>2, StepKeeps
<1>3. ASSUME NEW s \in Players, SelectReturns(s, "ready") \/ SelectReturns(s, "early") PROVE ServerInv'
  BY <1>3, SelectReturnsKeeps
<1>4. CASE UpdateStarts
  BY <1>4, UpdateStartsKeeps
<1>5. CASE ShutdownStarts
  BY <1>5, ShutdownStartsKeeps
<1>6. CASE UpdateAwakes \/ UpdateGetsLock \/ UpdateEnds \/ ShutdownGetsLock
  BY <1>6, GetsLockKeeps
<1>7. CASE UNCHANGED vars
  BY <1>7 DEF vars, ServerInv, Fits, Consistent, AtItsPlace, Asleep, HeldBy, Ruled, Dismissed,
              OneSessionPerCountry, Playing, TriggerNotLost
<1> QED
  BY <1>1, <1>2, <1>3, <1>4, <1>5, <1>6, <1>7 DEF Next

-----------------------------------------------------------------------------
(* The theorems. *)

\* What every reachable state keeps.
THEOREM Invariance == Spec => []ServerInv
BY InitFits, NextKeeps, PTL DEF Spec

LEMMA SlotsInOrder == ServerInv => TypeOK
BY DEF ServerInv, TypeOK, Slot, Places

\* However many connections try at once: no country is played twice.
THEOREM SoleSession == Spec => []OneSessionPerCountry
<1>1. ServerInv => OneSessionPerCountry
  BY DEF ServerInv
<1> QED
  BY <1>1, Invariance, PTL

\* A request for an update is not lost, and comes from a command only while the
\* update thread does not wait for commands.
THEOREM NoTriggerLost == Spec => []TriggerNotLost
<1>1. ServerInv => TriggerNotLost
  BY DEF ServerInv
<1> QED
  BY <1>1, Invariance, PTL

\* No command runs during an update, and all an update waits for were aborted
\* and will not sleep, but for those that execute nests.
THEOREM UpdateIsAlone == Spec => []UpdateRulesCommands
<1>1. ServerInv => UpdateRulesCommands
  <2> SUFFICES ASSUME ServerInv, NEW s \in Players
               PROVE  /\ upd = "run" => Holds(s) = 0
                      /\ upd = "wait" => (Holds(s) # 0 /\ ~p[s].execute => p[s].aborted /\ p[s].sleep = Never)
    BY DEF UpdateRulesCommands
  <2> QED
    BY DEF ServerInv, Fits, Ruled, HeldBy, Holds
<1> QED
  BY <1>1, Invariance, PTL

(***************************************************************************)
(* Whoever was told to stop by the update, by "kill" or by the shutdown    *)
(* stays told.  That needs one thing of the connections, which the code    *)
(* does not make sure of: no whole line comes in after the end of input    *)
(* was set.                                                                *)
(***************************************************************************)
THEOREM AbortsStand == ASSUME ~LateLines PROVE Spec => []AbortsHold
<1>1. ServerInv => AbortsHold
  <2> SUFFICES ASSUME ServerInv PROVE ShutdownDisconnects /\ AbortedStaysAwake /\ AbortedIsNotIdle
    BY SlotsInOrder DEF AbortsHold
  <2>1. \A s \in Players : Fits(p[s])
    BY DEF ServerInv
  <2>2. ShutdownDisconnects
    BY <2>1 DEF ShutdownDisconnects, Playing, Fits, Dismissed
  <2>3. AbortedStaysAwake
    BY <2>1 DEF AbortedStaysAwake, Playing, Fits, AtItsPlace
  <2>4. AbortedIsNotIdle
    BY <2>1 DEF AbortedIsNotIdle, Fits, Consistent
  <2> QED
    BY <2>2, <2>3, <2>4
<1> QED
  BY <1>1, Invariance, PTL

\* Those who play, and nobody else, hold shutdown_lock once.
LEMMA PlayersHold == ASSUME ~LateLines PROVE ServerInv => PlayingHoldsShutdownLock
BY DEF PlayingHoldsShutdownLock, Playing, ServerInv, Fits, Consistent

-----------------------------------------------------------------------------
(***************************************************************************)
(* The refinement: what a step of EmpServer is to each of the two locks.   *)
(***************************************************************************)

\* What the other players, the update and the shutdown see of a player's step.
Apart(s) ==
  /\ \A t \in Players \ {s} : p'[t] = p[t]
  /\ shut' = shut
  /\ upd' = upd \/ (upd = "asleep" /\ upd' = "awake")

\* What the locks see of it, when r is where the player comes from: a place
\* where the locks are held as before, the end of his session, a new command.
Stays(s, r)  == p'[s].depth = r.depth /\ p'[s].held = r.held /\ p'[s].pc \notin {"lock", "enter"}
Ceases(s, r) == p'[s].depth = r.depth /\ p'[s].held = r.held - 1 /\ p'[s].pc = "close"
Starts(s, r) == /\ p'[s].depth = r.depth + 1 /\ p'[s].held = r.held
                /\ p'[s].pc = "lock" \/ (p'[s].pc = "cmd" /\ CommandMayRun)

Passes(s, r) == Apart(s) /\ (Stays(s, r) \/ Ceases(s, r) \/ Starts(s, r))

LEMMA BecomesPasses ==
  ASSUME ServerInv, NEW s \in Players, NEW x, Becomes(s, x) \/ Trigger(s, x)
  PROVE  Apart(s) /\ p'[s] = x
BY DEF ServerInv, Becomes, Trigger, Apart

LEMMA StaysAt ==
  ASSUME ServerInv, NEW s \in Players, NEW r \in Slot, NEW x \in Slot, Becomes(s, x) \/ Trigger(s, x),
         x.depth = r.depth, x.held = r.held, x.pc \notin {"lock", "enter"}
  PROVE  Passes(s, r)
BY BecomesPasses DEF Passes, Stays

\* A place to go to, or to sleep at.
LEMMA SomewherePasses ==
  ASSUME ServerInv, NEW s \in Players, NEW r \in Slot, NEW where \in Places \ {"lock", "enter"},
         \/ Becomes(s, SleepAt(r, where))
         \/ Becomes(s, [r EXCEPT !.pc = where])
         \/ Trigger(s, [r EXCEPT !.pc = where])
  PROVE  Passes(s, r)
<1>1. /\ SleepAt(r, where) \in Slot /\ [r EXCEPT !.pc = where] \in Slot
  BY DEF SleepAt, Slot
<1>2. /\ SleepAt(r, where).depth = r.depth /\ SleepAt(r, where).held = r.held /\ SleepAt(r, where).pc = where
      /\ [r EXCEPT !.pc = where].depth = r.depth /\ [r EXCEPT !.pc = where].held = r.held
      /\ [r EXCEPT !.pc = where].pc = where
  BY DEF SleepAt, Slot
<1> QED
  BY <1>1, <1>2, StaysAt

LEMMA EndOfTurnPasses ==
  ASSUME ServerInv, NEW s \in Players, NEW r \in Slot, Becomes(s, EndOfTurn(r))
  PROVE  Passes(s, r)
<1>1. EndOfTurn(r) \in Slot
  BY DEF EndOfTurn, SetEof, Slot, Places
<1>2. EndOfTurn(r).depth = r.depth /\ EndOfTurn(r).held = r.held /\ EndOfTurn(r).pc = "main"
  BY DEF EndOfTurn, SetEof, Slot
<1> QED
  BY <1>1, <1>2, StaysAt

\* Without a late line there is nothing left to read for who leaves.
LEMMA LeavePasses ==
  ASSUME ServerInv, NEW s \in Players, NEW r, Underway(s, r), r.eof, ~LateLines, Leave(s, r)
  PROVE  Passes(s, r)
<1>1. Becomes(s, Left(r))
  BY DEF Leave, Underway, Consistent
<1>2. Left(r).depth = r.depth /\ Left(r).held = r.held - 1 /\ Left(r).pc = "close"
  BY DEF Underway, Left, SleepAt, Slot
<1> QED
  BY <1>1, <1>2, BecomesPasses DEF Passes, Ceases

LEMMA ByePasses ==
  ASSUME ServerInv, NEW s \in Players, NEW r, Underway(s, r), ~LateLines, Bye(s, r)
  PROVE  Passes(s, r)
<1> DEFINE e == IF r.eof THEN r ELSE SetEof(r)
<1>1. e \in Slot /\ e.depth = r.depth /\ e.eof /\ e.state = r.state /\ e.cnum = r.cnum /\ e.held = r.held
  BY DEF Underway, SetEof, Slot
<1>2. Consistent(e)
  BY DEF Underway, SetEof, Slot, Consistent
<1>3. Dismissed(e) /\ Ruled(e, e.depth)
  BY DEF Underway, SetEof, Slot, Dismissed, Ruled
<1>4. Underway(s, e)
  BY <1>1, <1>2, <1>3 DEF Underway
<1> HIDE DEF e
<1>5. Becomes(s, SleepAt(e, "bye")) \/ Leave(s, e)
  BY DEF Bye, e
<1>6. Passes(s, e)
  BY <1>1, <1>4, <1>5, SomewherePasses, LeavePasses DEF Places, SleepsAt
<1> QED
  BY <1>1, <1>6 DEF Passes, Stays, Ceases, Starts

LEMMA DispatchPasses ==
  ASSUME ServerInv, NEW s \in Players, NEW r \in Slot, Dispatch(s, r)
  PROVE  Passes(s, r)
<1>1. PICK sleep \in {OnInput, Freely}, execute \in BOOLEAN :
        LET d == [r EXCEPT !.sleep = sleep, !.command = TRUE, !.depth = @ + 1,
                           !.execute = IF r.depth = 0 THEN execute ELSE @]
        IN  IF CommandMayRun THEN GoOn(s, d) ELSE Becomes(s, [d EXCEPT !.pc = "lock"])
  BY DEF Dispatch
<1> DEFINE d == [r EXCEPT !.sleep = sleep, !.command = TRUE, !.depth = @ + 1,
                          !.execute = IF r.depth = 0 THEN execute ELSE @]
           l == [d EXCEPT !.pc = "lock"]
           c == [d EXCEPT !.pc = "cmd"]
<1>2. /\ l.depth = r.depth + 1 /\ l.held = r.held /\ l.pc = "lock"
      /\ c.depth = r.depth + 1 /\ c.held = r.held /\ c.pc = "cmd"
  BY DEF Slot
<1>3. \/ CommandMayRun /\ (Becomes(s, c) \/ Trigger(s, c))
      \/ Becomes(s, l)
  BY <1>1 DEF GoOn
<1> HIDE DEF l, c
<1>4. Apart(s) /\ (p'[s] = l \/ (p'[s] = c /\ CommandMayRun))
  BY <1>3, BecomesPasses
<1> QED
  BY <1>2, <1>4 DEF Passes, Starts

LEMMA ReadFailedPasses ==
  ASSUME ServerInv, NEW s \in Players, NEW r \in Slot, ReadFailed(s, r)
  PROVE  Passes(s, r)
BY EndOfTurnPasses, SomewherePasses DEF ReadFailed, Places

LEMMA NoInputPasses ==
  ASSUME ServerInv, NEW s \in Players, NEW r \in Slot, ReadFailed(s, NoInput(r))
  PROVE  Passes(s, r)
<1>1. NoInput(r) \in Slot
  BY ZenonT(60) DEF NoInput, SetEof, Slot
<1>2. NoInput(r).depth = r.depth /\ NoInput(r).held = r.held
  BY DEF NoInput, SetEof, Slot
<1>3. Passes(s, NoInput(r))
  BY <1>1, ReadFailedPasses
<1> QED
  BY <1>2, <1>3 DEF Passes, Stays, Ceases, Starts

LEMMA InputPasses ==
  ASSUME ServerInv, NEW s \in Players, NEW r \in Slot, Input(s, r)
  PROVE  Passes(s, r)
BY SomewherePasses, NoInputPasses DEF Input, Places, SleepsAt

LEMMA GotLinePasses ==
  ASSUME ServerInv, NEW s \in Players, NEW r, Underway(s, r), ~LateLines, GotLine(s, r)
  PROVE  Passes(s, r)
<1>1. r \in Slot
  BY DEF Underway
<1>2. CASE Dispatch(s, r)
  BY <1>1, <1>2, DispatchPasses
<1>3. CASE Becomes(s, EndOfTurn(r))
  BY <1>1, <1>3, EndOfTurnPasses
<1>4. CASE Bye(s, r)
  BY <1>4, ByePasses
<1>5. CASE Becomes(s, [r EXCEPT !.pc = "execute"]) \/ GoOn(s, r)
  BY <1>1, <1>5, SomewherePasses DEF GoOn, Places
<1> QED
  BY <1>2, <1>3, <1>4, <1>5 DEF GotLine

LEMMA ReceivePasses ==
  ASSUME ServerInv, NEW s \in Players, NEW r, Underway(s, r), ~LateLines, Receive(s, r)
  PROVE  Passes(s, r)
<1>1. r \in Slot
  BY DEF Underway
<1>2. CASE ReadFailed(s, r)
  BY <1>1, <1>2, ReadFailedPasses
<1>3. CASE GotLine(s, [r EXCEPT !.line = FALSE])
  <2> DEFINE g == [r EXCEPT !.line = FALSE]
  <2>1. g \in Slot
    BY <1>1 DEF Slot
  <2>2. /\ g.depth = r.depth /\ g.state = r.state /\ g.cnum = r.cnum /\ g.held = r.held /\ g.sleep = r.sleep
        /\ g.command = r.command /\ g.execute = r.execute /\ g.aborted = r.aborted /\ g.eof = r.eof /\ ~g.line
    BY <1>1 DEF Slot
  <2> HIDE DEF g
  <2>3. Underway(s, g)
    BY <2>1, <2>2 DEF Underway, Consistent, Dismissed, Ruled
  <2>4. Passes(s, g)
    BY <1>3, <2>3, GotLinePasses DEF g
  <2> QED
    BY <2>2, <2>4 DEF Passes, Stays, Ceases, Starts
<1>4. CASE \E ctld \in BOOLEAN :
             ReadFailed(s, [r EXCEPT !.line = FALSE, !.aborted = TRUE, !.ctld = @ \/ ctld])
  <2>1. PICK ctld \in BOOLEAN :
             ReadFailed(s, [r EXCEPT !.line = FALSE, !.aborted = TRUE, !.ctld = @ \/ ctld])
    BY <1>4
  <2> DEFINE a == [r EXCEPT !.line = FALSE, !.aborted = TRUE, !.ctld = @ \/ ctld]
  <2>2. a \in Slot
    <3>1. (r.ctld \/ ctld) \in BOOLEAN
      OBVIOUS
    <3> QED
      BY <1>1, <3>1 DEF Slot
  <2>3. a.depth = r.depth /\ a.held = r.held
    BY <1>1 DEF Slot
  <2> HIDE DEF a
  <2>4. Passes(s, a)
    BY <2>1, <2>2, ReadFailedPasses DEF a
  <2> QED
    BY <2>3, <2>4 DEF Passes, Stays, Ceases, Starts
<1>5. CASE Input(s, r)
  BY <1>1, <1>5, InputPasses
<1>6. CASE Becomes(s, SleepAt(r, "out"))
  BY <1>1, <1>6, SomewherePasses DEF Places, SleepsAt
<1> QED
  BY <1>2, <1>3, <1>4, <1>5, <1>6 DEF Receive

\* The two modes of a player.
RMode(r) == IF HeldBy(r) # 0 THEN "rd" ELSE IF r.pc = "lock" THEN "rdwait" ELSE "idle"
SMode(r) == IF r.held # 0 THEN "rd" ELSE IF r.pc = "enter" THEN "rdwait" ELSE "idle"

\* What a reader may do to a lock.
Uses(old, new, may) ==
  \/ old = new
  \/ old = "idle" /\ (new = "rdwait" \/ (new = "rd" /\ may))
  \/ old = "rdwait" /\ new = "rd" /\ may
  \/ old = "rd" /\ new = "idle"

UsesLocks(s) ==
  /\ shut' = shut
  /\ upd' = upd \/ (upd = "asleep" /\ upd' = "awake")
  /\ \A t \in Players \ {s} : RMode(p'[t]) = RMode(p[t]) /\ SMode(p'[t]) = SMode(p[t])
  /\ Uses(RMode(p[s]), RMode(p'[s]), CommandMayRun)
  /\ Uses(SMode(p[s]), SMode(p'[s]), ShutdownLock!MayRead)

\* Wherever a player's way goes on to, the locks are used as they should be.
LEMMA WayUsesLocks ==
  ASSUME ServerInv, ~LateLines, NEW s \in Players, p[s].state = "playing", p[s].pc \notin {"lock", "enter"},
         Passes(s, p[s])
  PROVE  UsesLocks(s)
<1>0. p[s].held = 1 /\ p[s].depth \in Nat
  BY DEF ServerInv, Fits, Consistent, Slot
<1>1. CASE Stays(s, p[s])
  BY <1>0, <1>1 DEF Passes, Apart, Stays, UsesLocks, Uses, RMode, SMode, HeldBy
<1>2. CASE Ceases(s, p[s])
  BY <1>0, <1>2 DEF Passes, Apart, Ceases, UsesLocks, Uses, RMode, SMode, HeldBy
<1>3. CASE Starts(s, p[s])
  BY <1>0, <1>3 DEF Passes, Apart, Starts, UsesLocks, Uses, RMode, SMode, HeldBy
<1> QED
  BY <1>1, <1>2, <1>3 DEF Passes

\* So they are where a player's record changes in other ways.
LEMMA LoginUsesLocks ==
  ASSUME ServerInv, ~LateLines, NEW s \in Players, Login(s)
  PROVE  UsesLocks(s)
<1> DEFINE r == p[s]
<1>1. r.pc = "login" /\ r \in Slot /\ r.state # "playing" /\ r.depth = 0 /\ r.held = 0
  BY DEF Login, Resumes, ServerInv, Fits, AtItsPlace, Consistent
<1>2. ASSUME NEW n \in Slot, n.depth = 0, n.held = 0, Becomes(s, SleepAt(n, "login"))
      PROVE  UsesLocks(s)
  <2>1. SleepAt(n, "login").depth = 0 /\ SleepAt(n, "login").held = 0 /\ SleepAt(n, "login").pc = "login"
    BY <1>2 DEF SleepAt, Slot
  <2>2. Apart(s) /\ p'[s] = SleepAt(n, "login")
    BY <1>2, BecomesPasses
  <2> QED
    BY <1>1, <2>1, <2>2 DEF Apart, UsesLocks, Uses, RMode, SMode, HeldBy
<1>3. ASSUME NEW n \in Slot, n.depth = 0, n.held = 0, Play(s, n)
      PROVE  UsesLocks(s)
  <2> DEFINE m == [n EXCEPT !.state = "playing", !.held = @ + 1, !.pc = "main"]
             e == [n EXCEPT !.pc = "enter"]
  <2>1. /\ m.held = 1 /\ m.pc = "main" /\ m.depth = 0
        /\ e.held = 0 /\ e.pc = "enter" /\ e.depth = 0
    BY <1>3 DEF Slot
  <2> HIDE DEF m, e
  <2>2. CASE Becomes(s, SleepAt(n, "login"))
    BY <1>2, <1>3, <2>2
  <2>3. CASE ShutdownLock!MayRead /\ Becomes(s, m)
    <3>1. Apart(s) /\ p'[s] = m
      BY <2>3, BecomesPasses
    <3> QED
      BY <1>1, <2>1, <2>3, <3>1 DEF Apart, UsesLocks, Uses, RMode, SMode, HeldBy
  <2>4. CASE Becomes(s, e)
    <3>1. Apart(s) /\ p'[s] = e
      BY <2>4, BecomesPasses
    <3> QED
      BY <1>1, <2>1, <3>1 DEF Apart, UsesLocks, Uses, RMode, SMode, HeldBy
  <2> QED
    BY <1>3, <2>2, <2>3, <2>4 DEF Play, m, e
<1>4. CASE Becomes(s, Left(r))
  <2>1. Left(r).depth = 0 /\ Left(r).held = 0 /\ Left(r).pc = "close"
    BY <1>1 DEF Left, SleepAt, Slot
  <2>2. Apart(s) /\ p'[s] = Left(r)
    BY <1>4, BecomesPasses
  <2> QED
    BY <1>1, <2>1, <2>2 DEF Apart, UsesLocks, Uses, RMode, SMode, HeldBy
<1>5. CASE Becomes(s, SleepAt(r, "login"))
  BY <1>1, <1>2, <1>5
<1>6. ASSUME NEW c \in Countries, NEW a \in BOOLEAN
      PROVE  LET n == [r EXCEPT !.cnum = c, !.authenticated = a]
             IN  n \in Slot /\ n.depth = 0 /\ n.held = 0
  BY <1>1 DEF Slot
<1>7. CASE \E c \in Countries : Becomes(s, SleepAt([r EXCEPT !.cnum = c, !.authenticated = FALSE], "login"))
  BY <1>2, <1>6, <1>7
<1>8. CASE \E c \in Countries : Play(s, [r EXCEPT !.cnum = c, !.authenticated = TRUE])
  BY <1>3, <1>6, <1>8
<1>9. CASE Becomes(s, SleepAt([r EXCEPT !.authenticated = TRUE], "login"))
  <2> DEFINE n == [r EXCEPT !.authenticated = TRUE]
  <2>1. n \in Slot
    BY <1>1 DEF Slot
  <2>2. n.depth = 0 /\ n.held = 0
    BY <1>1 DEF Slot
  <2> QED
    BY <1>2, <1>9, <2>1, <2>2
<1>10. CASE Play(s, r)
  BY <1>1, <1>3, <1>10
<1>11. CASE \E q \in Other(s, r.cnum) : Kill(s, q)
  <2>1. PICK q \in Other(s, r.cnum) : Kill(s, q)
    BY <1>11
  <2> DEFINE k == Kicked(p[q])
             l == SleepAt(r, "login")
  <2>2. q \in Players /\ q # s /\ Fits(p[q])
    BY <1>1 DEF Other, ServerInv
  <2>3. k.pc = p[q].pc /\ k.depth = p[q].depth /\ k.held = p[q].held
    BY <2>2 DEF Kicked, Woken, SetEof, Asleep, Fits, Slot
  <2>4. l.pc = "login" /\ l.depth = 0 /\ l.held = 0
    BY <1>1 DEF SleepAt, Slot
  <2>5. \A t \in Players : p'[t] = IF t = s THEN l ELSE IF t = q THEN k ELSE p[t]
    BY <2>1, <2>2 DEF Kill, ServerInv
  <2> HIDE DEF k, l
  <2>6. UNCHANGED <<upd, shut>>
    BY <2>1 DEF Kill
  <2> QED
    BY <1>1, <2>2, <2>3, <2>4, <2>5, <2>6 DEF UsesLocks, Uses, RMode, SMode, HeldBy
<1> QED
  BY <1>4, <1>5, <1>7, <1>8, <1>9, <1>10, <1>11 DEF Login

\* Whatever a player does.
LEMMA PlayerUsesLocks ==
  ASSUME ServerInv, ~LateLines, NEW s \in Players,
         Connect(s) \/ Step(s) \/ SelectReturns(s, "ready") \/ SelectReturns(s, "early")
  PROVE  UsesLocks(s)
<1> DEFINE r == p[s]
<1>0. Fits(r) /\ r \in Slot
  BY DEF ServerInv, Fits
<1>1. r.pc \in PlaysAt \ {"lock"} => Underway(s, r)
  BY <1>0, HereUnderway DEF Fits, AtItsPlace, PlaysAt
<1>2. Underway(s, r) /\ r.pc \in PlaysAt \ {"lock"} /\ Passes(s, r) => UsesLocks(s)
  BY WayUsesLocks DEF Underway, PlaysAt
<1>3. ASSUME NEW x, Becomes(s, x) \/ Trigger(s, x), Uses(RMode(r), RMode(x), CommandMayRun),
             Uses(SMode(r), SMode(x), ShutdownLock!MayRead)
      PROVE  UsesLocks(s)
  <2>1. Apart(s) /\ p'[s] = x
    BY <1>3, BecomesPasses
  <2> QED
    BY <1>3, <2>1 DEF Apart, UsesLocks
<1>4. CASE Connect(s)
  <2> DEFINE x == SleepAt([r EXCEPT !.state = "init"], "login")
  <2>1. x.depth = r.depth /\ x.held = r.held /\ x.pc = "login" /\ r.pc = "free"
    BY <1>0, <1>4 DEF Connect, SleepAt, Slot
  <2> HIDE DEF x
  <2>2. RMode(x) = RMode(r) /\ SMode(x) = SMode(r)
    BY <2>1 DEF RMode, SMode, HeldBy
  <2> QED
    BY <1>3, <1>4, <2>2 DEF Connect, Uses, x
<1>5. CASE SelectReturns(s, "ready") \/ SelectReturns(s, "early")
  <2>1. PICK how \in {"ready", "early"} : Becomes(s, [r EXCEPT !.wake = how])
    BY <1>5 DEF SelectReturns
  <2> DEFINE x == [r EXCEPT !.wake = how]
  <2>2. x.depth = r.depth /\ x.held = r.held /\ x.pc = r.pc
    BY <1>0 DEF Slot
  <2> HIDE DEF x
  <2>3. RMode(x) = RMode(r) /\ SMode(x) = SMode(r)
    BY <2>2 DEF RMode, SMode, HeldBy
  <2> QED
    BY <1>3, <2>1, <2>3 DEF Uses, x
<1>6. CASE Login(s)
  BY <1>6, LoginUsesLocks
<1>7. CASE StatusFails(s)
  BY <1>1, <1>2, <1>7, ByePasses DEF StatusFails, PlaysAt
<1>8. CASE Status(s)
  BY <1>0, <1>1, <1>2, <1>8, SomewherePasses DEF Status, PlaysAt, Places
<1>9. CASE Command(s) \/ Prompt(s)
  BY <1>1, <1>2, <1>9, ReceivePasses DEF Command, Prompt, PlaysAt
<1>10. CASE OutputDone(s)
  BY <1>0, <1>1, <1>2, <1>10, InputPasses DEF OutputDone, Resumes, PlaysAt
<1>11. CASE InputDone(s)
  <2>1. r.pc = "in" /\ Underway(s, r) /\ (Passes(s, r) => UsesLocks(s))
    BY <1>1, <1>2, <1>11 DEF InputDone, Resumes, PlaysAt
  <2>2. CASE ReadFailed(s, NoInput(r))
    BY <1>0, <2>1, <2>2, NoInputPasses
  <2>3. CASE ReadFailed(s, NoInput([r EXCEPT !.eof = TRUE]))
    <3> DEFINE e == [r EXCEPT !.eof = TRUE]
    <3>1. e \in Slot
      BY <1>0 DEF Slot
    <3>2. e.depth = r.depth /\ e.held = r.held
      BY <1>0 DEF Slot
    <3> HIDE DEF e
    <3>3. Passes(s, e)
      BY <2>3, <3>1, NoInputPasses DEF e
    <3> QED
      BY <2>1, <3>2, <3>3 DEF Passes, Stays, Ceases, Starts
  <2>4. CASE Receive(s, r)
    BY <2>1, <2>4, ReceivePasses
  <2>5. CASE ~r.eof /\ Receive(s, [r EXCEPT !.line = TRUE])
    <3> DEFINE n == [r EXCEPT !.line = TRUE]
    <3>1. n \in Slot
      BY <2>1 DEF Underway, Slot
    <3>2. /\ n.depth = r.depth /\ n.state = r.state /\ n.cnum = r.cnum /\ n.held = r.held
          /\ n.sleep = r.sleep /\ n.command = r.command /\ n.execute = r.execute
          /\ n.aborted = r.aborted /\ n.eof = r.eof
      BY <2>1 DEF Underway, Slot
    <3> HIDE DEF n
    <3>3. Underway(s, n)
      BY <2>1, <2>5, <3>1, <3>2 DEF Underway, Consistent, Dismissed, Ruled
    <3>4. Passes(s, n)
      BY <2>5, <3>3, ReceivePasses DEF n
    <3> QED
      BY <2>1, <3>2, <3>4 DEF Passes, Stays, Ceases, Starts
  <2> QED
    BY <1>11, <2>2, <2>3, <2>4, <2>5 DEF InputDone
<1>12. CASE StartCommand(s)
  <2> DEFINE x == [r EXCEPT !.pc = "cmd"]
  <2>1. x.depth = r.depth /\ x.held = r.held /\ x.pc = "cmd" /\ r.pc = "lock" /\ r.depth \in Nat \ {0}
    BY <1>0, <1>12 DEF StartCommand, Slot, Fits, AtItsPlace
  <2>2. Becomes(s, x) \/ Trigger(s, x)
    BY <1>12 DEF StartCommand, GoOn
  <2>3. CommandMayRun
    BY <1>12 DEF StartCommand
  <2> HIDE DEF x
  <2>4. SMode(x) = SMode(r) /\ Uses(RMode(r), RMode(x), CommandMayRun)
    BY <2>1, <2>3 DEF RMode, SMode, HeldBy, Uses
  <2> QED
    BY <1>3, <2>2, <2>4 DEF Uses
<1>13. CASE Finish(s)
  <2> DEFINE x == Finished(r)
  <2>1. r.pc = "cmd" /\ r.depth \in Nat \ {0}
    BY <1>0, <1>13 DEF Finish, Fits, AtItsPlace, Slot
  <2>2. x.depth = r.depth - 1 /\ x.held = r.held /\ x.pc \in {"cmd", "main"}
    <3> DEFINE done == [r EXCEPT !.depth = @ - 1, !.command = FALSE, !.sleep = SleepAfterCommand(r)]
               f == [done EXCEPT !.ctld = IF r.execute THEN FALSE ELSE @]
    <3>1. /\ done.depth = r.depth - 1 /\ done.held = r.held
          /\ [done EXCEPT !.pc = "cmd"].depth = r.depth - 1 /\ [done EXCEPT !.pc = "cmd"].held = r.held
          /\ [done EXCEPT !.pc = "cmd"].pc = "cmd"
      BY <1>0 DEF Slot
    <3>2. EndOfTurn(f).depth = r.depth - 1 /\ EndOfTurn(f).held = r.held /\ EndOfTurn(f).pc = "main"
      BY <1>0 DEF EndOfTurn, SetEof, Slot
    <3> QED
      BY <3>1, <3>2 DEF Finished
  <2> HIDE DEF x
  <2>3. SMode(x) = SMode(r) /\ Uses(RMode(r), RMode(x), CommandMayRun)
    BY <2>1, <2>2 DEF RMode, SMode, HeldBy, Uses
  <2> QED
    BY <1>3, <1>13, <2>3 DEF Finish, Uses, x
<1>14. CASE PrintMore(s)
  BY <1>0, <1>1, <1>2, <1>14, SomewherePasses DEF PrintMore, PlaysAt, Places, SleepsAt
<1>15. CASE AbortSelf(s)
  <2> DEFINE x == [r EXCEPT !.aborted = TRUE]
  <2>1. x.depth = r.depth /\ x.held = r.held /\ x.pc = r.pc
    BY <1>0 DEF Slot
  <2> HIDE DEF x
  <2>2. RMode(x) = RMode(r) /\ SMode(x) = SMode(r)
    BY <2>1 DEF RMode, SMode, HeldBy
  <2> QED
    BY <1>3, <1>15, <2>2 DEF AbortSelf, Uses, x
<1>16. CASE Printed(s)
  BY <1>0, <1>1, <1>2, <1>16, SomewherePasses DEF Printed, Resumes, PlaysAt, Places
<1>17. CASE Execute(s)
  BY <1>0, <1>1, <1>2, <1>17, DispatchPasses DEF Execute, PlaysAt
<1>18. CASE SaidBye(s)
  <2>1. r.pc = "bye" /\ Underway(s, r) /\ r.eof
    BY <1>0, <1>1, <1>18 DEF SaidBye, Resumes, PlaysAt, Fits, AtItsPlace
  <2> QED
    BY <1>2, <1>18, <2>1, LeavePasses DEF SaidBye, PlaysAt
<1>19. CASE SentPart(s)
  BY <1>0, <1>1, <1>2, <1>19, SomewherePasses DEF SentPart, PlaysAt, Places, SleepsAt
<1>20. CASE Closed(s)
  <2> DEFINE x == [NoPlayer EXCEPT !.held = r.held]
  <2>1. x.depth = 0 /\ x.held = r.held /\ x.pc = "free" /\ r.depth = 0 /\ r.pc = "close"
    BY <1>0, <1>20 DEF Closed, Resumes, NoPlayer, Fits, AtItsPlace, Consistent
  <2> HIDE DEF x
  <2>2. RMode(x) = RMode(r) /\ SMode(x) = SMode(r)
    BY <2>1 DEF RMode, SMode, HeldBy
  <2> QED
    BY <1>3, <1>20, <2>2 DEF Closed, Uses, x
<1> QED
  BY <1>4, <1>5, <1>6, <1>7, <1>8, <1>9, <1>10, <1>11, <1>12, <1>13, <1>14, <1>15, <1>16, <1>17, <1>18,
     <1>19, <1>20 DEF Step

\* The locks' modes are those of the players and of the thread that writes.
LEMMA ModesAre ==
  /\ \A t \in Players : UpdateMode(t) = RMode(p[t]) /\ ShutdownMode(t) = SMode(p[t])
  /\ UpdateMode(Update) = IF upd = "wait" THEN "wrwait" ELSE IF upd = "run" THEN "wr" ELSE "idle"
  /\ ShutdownMode(Shutdown) = IF shut = "wait" THEN "wrwait" ELSE IF shut = "no" THEN "idle" ELSE "wr"
  /\ \A t \in Players : UpdateMode(t)' = RMode(p'[t]) /\ ShutdownMode(t)' = SMode(p'[t])
  /\ UpdateMode(Update)' = IF upd' = "wait" THEN "wrwait" ELSE IF upd' = "run" THEN "wr" ELSE "idle"
  /\ ShutdownMode(Shutdown)' = IF shut' = "wait" THEN "wrwait" ELSE IF shut' = "no" THEN "idle" ELSE "wr"
BY EmpServerAssumption DEF UpdateMode, ShutdownMode, RMode, SMode, HeldBy, Holds

UpdateModes == [t \in Players \cup {Update} |-> UpdateMode(t)]
ShutdownModes == [t \in Players \cup {Shutdown} |-> ShutdownMode(t)]

\* One thread's mode changes as the lock allows.
LEMMA UpdateLockStep ==
  ASSUME NEW s \in Players \cup {Update},
         \A t \in Players \cup {Update} : t # s => UpdateMode(t)' = UpdateMode(t),
         \/ Uses(UpdateMode(s), UpdateMode(s)', UpdateLock!MayRead)
         \/ UpdateMode(s) \in {"idle", "wrwait"} /\ UpdateMode(s)' = "wr" /\ UpdateLock!MayWrite
         \/ UpdateMode(s) = "idle" /\ UpdateMode(s)' = "wrwait"
         \/ UpdateMode(s) = "wr" /\ UpdateMode(s)' = "idle"
  PROVE  UpdateLock!Next \/ UNCHANGED UpdateLock!vars
<1>1. UpdateModes' = [UpdateModes EXCEPT ![s] = UpdateMode(s)']
  BY DEF UpdateModes
<1>2. UpdateModes[s] = UpdateMode(s)
  BY DEF UpdateModes
<1> QED
  BY <1>1, <1>2 DEF UpdateLock!Next, UpdateLock!vars, UpdateLock!RdLock, UpdateLock!WrLock,
     UpdateLock!GetRd, UpdateLock!GetWr, UpdateLock!Unlock, Uses, UpdateModes

LEMMA ShutdownLockStep ==
  ASSUME NEW s \in Players \cup {Shutdown},
         \A t \in Players \cup {Shutdown} : t # s => ShutdownMode(t)' = ShutdownMode(t),
         \/ Uses(ShutdownMode(s), ShutdownMode(s)', ShutdownLock!MayRead)
         \/ ShutdownMode(s) \in {"idle", "wrwait"} /\ ShutdownMode(s)' = "wr" /\ ShutdownLock!MayWrite
         \/ ShutdownMode(s) = "idle" /\ ShutdownMode(s)' = "wrwait"
  PROVE  ShutdownLock!Next \/ UNCHANGED ShutdownLock!vars
<1>1. ShutdownModes' = [ShutdownModes EXCEPT ![s] = ShutdownMode(s)']
  BY DEF ShutdownModes
<1>2. ShutdownModes[s] = ShutdownMode(s)
  BY DEF ShutdownModes
<1> QED
  BY <1>1, <1>2 DEF ShutdownLock!Next, ShutdownLock!vars, ShutdownLock!RdLock, ShutdownLock!WrLock,
     ShutdownLock!GetRd, ShutdownLock!GetWr, ShutdownLock!Unlock, Uses, ShutdownModes

\* Being told to stop changes nothing of what a player holds.
LEMMA ToldHoldsOn ==
  ASSUME NEW r \in Slot
  PROVE  /\ RMode(Aborted(r)) = RMode(r) /\ SMode(Aborted(r)) = SMode(r)
         /\ RMode(Kicked(r)) = RMode(r) /\ SMode(Kicked(r)) = SMode(r)
<1>1. Aborted(r).pc = r.pc /\ Aborted(r).held = r.held /\ Aborted(r).depth = r.depth
  BY DEF Aborted, Woken, Asleep, Slot
<1>2. Kicked(r).pc = r.pc /\ Kicked(r).held = r.held /\ Kicked(r).depth = r.depth
  BY DEF Kicked, Woken, SetEof, Asleep, Slot
<1> QED
  BY <1>1, <1>2 DEF RMode, SMode, HeldBy

\* Every step is one of update_lock, and one of shutdown_lock, or leaves them alone.
LEMMA LocksUsed ==
  ASSUME ServerInv, ~LateLines, [Next]_vars
  PROVE  /\ UpdateLock!Next \/ UNCHANGED UpdateLock!vars
         /\ ShutdownLock!Next \/ UNCHANGED ShutdownLock!vars
<1> DEFINE Kept == \A t \in Players : RMode(p'[t]) = RMode(p[t]) /\ SMode(p'[t]) = SMode(p[t])
<1>1. ASSUME NEW s \in Players, UsesLocks(s)
      PROVE  /\ UpdateLock!Next \/ UNCHANGED UpdateLock!vars
             /\ ShutdownLock!Next \/ UNCHANGED ShutdownLock!vars
  <2>1. \A t \in Players \cup {Update} : t # s => UpdateMode(t)' = UpdateMode(t)
    BY <1>1, ModesAre DEF UsesLocks
  <2>2. \A t \in Players \cup {Shutdown} : t # s => ShutdownMode(t)' = ShutdownMode(t)
    BY <1>1, ModesAre DEF UsesLocks
  <2>3. Uses(UpdateMode(s), UpdateMode(s)', UpdateLock!MayRead)
    BY <1>1, ModesAre DEF UsesLocks, CommandMayRun
  <2>4. Uses(ShutdownMode(s), ShutdownMode(s)', ShutdownLock!MayRead)
    BY <1>1, ModesAre DEF UsesLocks
  <2> QED
    BY <2>1, <2>2, <2>3, <2>4, UpdateLockStep, ShutdownLockStep
<1>2. ASSUME Kept, shut' = shut,
             \/ upd \in {"asleep", "awake"} /\ upd' \in {"asleep", "awake", "wait"}
             \/ upd \in {"awake", "wait"} /\ upd' = "run" /\ UpdateLock!MayWrite
             \/ upd = "run" /\ upd' = "asleep"
             \/ upd' = upd
      PROVE  /\ UpdateLock!Next \/ UNCHANGED UpdateLock!vars
             /\ ShutdownLock!Next \/ UNCHANGED ShutdownLock!vars
  <2>1. \A t \in Players \cup {Update} : t # Update => UpdateMode(t)' = UpdateMode(t)
    BY <1>2, ModesAre
  <2>2. \A t \in Players \cup {Shutdown} : ShutdownMode(t)' = ShutdownMode(t)
    BY <1>2, ModesAre
  <2>3. UpdateLock!Next \/ UNCHANGED UpdateLock!vars
    BY <1>2, <2>1, ModesAre, UpdateLockStep DEF Uses
  <2>4. ShutdownLock!Next \/ UNCHANGED ShutdownLock!vars
    BY <2>2, ShutdownLockStep DEF Uses
  <2> QED
    BY <2>3, <2>4
<1>3. ASSUME Kept, upd' = upd,
             \/ shut = "no" /\ shut' = "wait"
             \/ shut \in {"no", "wait"} /\ shut' = "held" /\ ShutdownLock!MayWrite
      PROVE  /\ UpdateLock!Next \/ UNCHANGED UpdateLock!vars
             /\ ShutdownLock!Next \/ UNCHANGED ShutdownLock!vars
  <2>1. \A t \in Players \cup {Shutdown} : t # Shutdown => ShutdownMode(t)' = ShutdownMode(t)
    BY <1>3, ModesAre
  <2>2. \A t \in Players \cup {Update} : UpdateMode(t)' = UpdateMode(t)
    BY <1>3, ModesAre
  <2>3. ShutdownLock!Next \/ UNCHANGED ShutdownLock!vars
    BY <1>3, <2>1, ModesAre, ShutdownLockStep
  <2>4. UpdateLock!Next \/ UNCHANGED UpdateLock!vars
    BY <2>2, UpdateLockStep DEF Uses
  <2> QED
    BY <2>3, <2>4
<1>4. CASE \E s \in Players : Connect(s) \/ Step(s) \/ SelectReturns(s, "ready") \/ SelectReturns(s, "early")
  BY <1>1, <1>4, PlayerUsesLocks
<1>5. CASE UpdateAwakes \/ UpdateGetsLock \/ UpdateEnds \/ UNCHANGED vars
  BY <1>2, <1>5 DEF UpdateAwakes, UpdateGetsLock, UpdateEnds, vars
<1>6. CASE UpdateStarts
  <2>1. Kept
    BY <1>6, ToldHoldsOn DEF UpdateStarts, ServerInv
  <2> QED
    BY <1>2, <1>6, <2>1 DEF UpdateStarts
<1>7. CASE ShutdownStarts
  <2>1. Kept
    BY <1>7, ToldHoldsOn DEF ShutdownStarts, ServerInv
  <2> QED
    BY <1>3, <1>7, <2>1 DEF ShutdownStarts
<1>8. CASE ShutdownGetsLock
  BY <1>3, <1>8 DEF ShutdownGetsLock
<1> QED
  BY <1>4, <1>5, <1>6, <1>7, <1>8 DEF Next

LEMMA LocksUnused == Init => UpdateLock!Init /\ ShutdownLock!Init
<1> SUFFICES ASSUME Init PROVE UpdateLock!Init /\ ShutdownLock!Init
  OBVIOUS
<1>1. \A t \in Players : RMode(p[t]) = "idle" /\ SMode(p[t]) = "idle"
  BY DEF Init, NoPlayer, RMode, SMode, HeldBy
<1>2. /\ \A t \in Players \cup {Update} : UpdateMode(t) = "idle"
      /\ \A t \in Players \cup {Shutdown} : ShutdownMode(t) = "idle"
  BY <1>1, ModesAre DEF Init
<1> QED
  BY <1>2 DEF UpdateLock!Init, ShutdownLock!Init

(***************************************************************************)
(* The server's threads implement the contract of each of the two locks:   *)
(* each of their steps locks or unlocks as the contract allows, or leaves  *)
(* the lock alone; and who plays holds shutdown_lock, once (main.c).  This *)
(* too needs that no whole line comes in late: player_login() would take   *)
(* it for a second "play", and lock again.                                 *)
(***************************************************************************)
THEOREM LocksAreKept == ASSUME ~LateLines PROVE Spec => LocksKept
<1>1. Init => UpdateLock!Init /\ ShutdownLock!Init
  BY LocksUnused
<1>2. ServerInv /\ [Next]_vars => [UpdateLock!Next]_UpdateLock!vars
  BY LocksUsed
<1>3. ServerInv /\ [Next]_vars => [ShutdownLock!Next]_ShutdownLock!vars
  BY LocksUsed
<1>4. ServerInv => PlayingHoldsShutdownLock
  BY PlayersHold
<1> QED
  BY <1>1, <1>2, <1>3, <1>4, Invariance, PTL DEF Spec, LocksKept, UpdateLock!Spec, ShutdownLock!Spec

=============================================================================

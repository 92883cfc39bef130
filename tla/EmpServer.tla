------------------------------ MODULE EmpServer ------------------------------
(***************************************************************************)
(* The server's threads: one per connection (lib/player: login.c,          *)
(* player.c, dispatch.c, recvclient.c), the update (server/update.c) and   *)
(* the shutdown (server/main.c), as they abort, wake up and wait for each  *)
(* other through struct player, update_lock and shutdown_lock.             *)
(*                                                                         *)
(* Threads do not preempt each other: they change places where one sleeps  *)
(* or yields.  An action is what a thread does from one such place to the  *)
(* next; pc names the place.  The locks are those of EmpRWLock; they have  *)
(* no variables of their own, because what a thread holds follows from     *)
(* where it is.                                                            *)
(***************************************************************************)
EXTENDS Naturals, FiniteSets

CONSTANTS
  Players,      \* slots for connections
  Countries,
  NoCountry,    \* NATID_BAD
  Update,       \* the update thread
  Shutdown,     \* the thread that runs shutdwn()
  LateLines     \* whether a whole line may come in with the data that woke a
                \* thread which another one disconnects before it gets to read

ASSUME EmpServerAssumption ==
  /\ NoCountry \notin Countries
  /\ Update \notin Players /\ Shutdown \notin Players
  /\ LateLines \in BOOLEAN

VARIABLES
  p,            \* struct player and the thread of each connection
  upd,          \* where the update thread is
  wanted,       \* update_wanted
  shut          \* where the thread in shutdwn() is

vars == <<p, upd, wanted, shut>>

\* may_sleep
Never   == 0    \* PLAYER_SLEEP_NEVER
OnInput == 1    \* PLAYER_SLEEP_ON_INPUT
Freely  == 2    \* PLAYER_SLEEP_FREELY

-----------------------------------------------------------------------------
(***************************************************************************)
(* The two locks.  depth counts the nested calls of dispatch(): each holds *)
(* update_lock shared, but for one that still waits for it.                *)
(***************************************************************************)
Holds(s) == p[s].depth - (IF p[s].pc = "lock" THEN 1 ELSE 0)

UpdateMode(t) ==
  IF t = Update THEN (IF upd = "wait" THEN "wrwait" ELSE IF upd = "run" THEN "wr" ELSE "idle")
  ELSE IF Holds(t) # 0 THEN "rd" ELSE IF p[t].pc = "lock" THEN "rdwait" ELSE "idle"

ShutdownMode(t) ==
  IF t = Shutdown THEN (IF shut = "wait" THEN "wrwait" ELSE IF shut = "no" THEN "idle" ELSE "wr")
  ELSE IF p[t].held # 0 THEN "rd" ELSE IF p[t].pc = "enter" THEN "rdwait" ELSE "idle"

UpdateLock ==
  INSTANCE EmpRWLock WITH
    Threads <- Players \cup {Update},
    mode <- [t \in Players \cup {Update} |-> UpdateMode(t)]

ShutdownLock ==
  INSTANCE EmpRWLock WITH
    Threads <- Players \cup {Shutdown},
    mode <- [t \in Players \cup {Shutdown} |-> ShutdownMode(t)]

-----------------------------------------------------------------------------
(***************************************************************************)
(* Sleeping.  wake is "asleep" while empth_select() has not returned, then *)
(* "ready", or "early" for a timeout or a wakeup by another thread: once   *)
(* it is one of these the thread is ready to run, and nothing changes it   *)
(* until it does.                                                          *)
(***************************************************************************)
SleepsAt == {"login", "out", "in", "pr", "bye", "close"}

Asleep(r) == r.pc \in SleepsAt /\ r.wake = "asleep"

SleepAt(r, where) == [r EXCEPT !.pc = where, !.wake = "asleep"]

\* empth_wakeup(); a thread that waits for a lock does not notice.
Woken(r) == IF Asleep(r) THEN [r EXCEPT !.wake = "early"] ELSE r

\* player_io_deadline() # 0
MaySleepOnInput(r)  == r.sleep >= OnInput
MaySleepOnOutput(r) == r.sleep >= Freely

SetEof(r) == [r EXCEPT !.eof = TRUE, !.line = FALSE]

\* What kill_cmd() and shutdwn() do to another player.
Kicked(r) == Woken([SetEof(r) EXCEPT !.aborted = TRUE, !.sleep = Never])

\* Mutant: the abort leaves may_sleep alone.
AbortedMaySleep(r) == IF r.state = "playing" /\ r.command THEN Woken([r EXCEPT !.aborted = TRUE]) ELSE r

\* Mutant: only players who can be put to sleep are aborted.
AbortedIfAsleep(r) ==
  IF r.state = "playing" /\ r.command /\ Asleep(r)
  THEN Woken([r EXCEPT !.aborted = TRUE, !.sleep = Never]) ELSE r

\* What update_run() does to each player.
Aborted(r) ==
  IF r.state = "playing" /\ r.command
  THEN Woken([r EXCEPT !.aborted = TRUE, !.sleep = Never]) ELSE r

-----------------------------------------------------------------------------

NoPlayer == [pc |-> "free", wake |-> "asleep", state |-> "none", cnum |-> NoCountry,
             authenticated |-> FALSE, sleep |-> Freely, aborted |-> FALSE, ctld |-> FALSE,
             command |-> FALSE, execute |-> FALSE, depth |-> 0, held |-> 0,
             eof |-> FALSE, line |-> FALSE]

Init == /\ p = [s \in Players |-> NoPlayer]
        /\ upd = "asleep" /\ wanted = FALSE
        /\ shut = "no"

Becomes(s, r) == p' = [p EXCEPT ![s] = r] /\ UNCHANGED <<upd, wanted, shut>>

\* update_trigger(), called by the command of the player that becomes r.
\* Mutant: the update thread is not woken.
TriggerQuietly(s, r) ==
  /\ p' = [p EXCEPT ![s] = r]
  /\ wanted' = TRUE
  /\ UNCHANGED <<upd, shut>>

Trigger(s, r) ==
  /\ p' = [p EXCEPT ![s] = r]
  /\ wanted' = TRUE
  /\ upd' = IF upd = "asleep" THEN "awake" ELSE upd
  /\ UNCHANGED shut

-----------------------------------------------------------------------------
(* Leaving: from the return of player_main() to the end of player_login(). *)

\* Out of the loop of player_login(), into io_close().
Left(r) ==
  SleepAt([r EXCEPT !.state = "shutdown",
                    !.held = IF r.state = "playing" THEN @ - 1 ELSE @], "close")

Other(s, c) == {q \in Players : p[q].cnum = c /\ p[q].state = "playing"}

(***************************************************************************)
(* Back in the loop of player_login(), with the output sent as far as it   *)
(* goes.  A line left in the input queue is taken for a login command:     *)
(* only "play" with a country and its password matters here.               *)
(***************************************************************************)
Leave(s, r) ==
  \/ Becomes(s, Left(r))
  \/ /\ r.line
     /\ \E c \in Countries :
          LET again == [r EXCEPT !.line = FALSE, !.cnum = c, !.authenticated = TRUE]
          IN  /\ Other(s, c) \ {s} = {} /\ c # r.cnum
              /\ IF ShutdownLock!MayRead
                 THEN Becomes(s, Left([again EXCEPT !.held = @ + 1]))
                 ELSE Becomes(s, [again EXCEPT !.pc = "enter"])

\* play_cmd() after player_main(), and the loop's next turn.
Bye(s, r0) ==
  LET r == IF r0.eof THEN r0 ELSE SetEof(r0)
  IN  IF MaySleepOnInput(r) THEN Becomes(s, SleepAt(r, "bye")) ELSE Leave(s, r)

-----------------------------------------------------------------------------
(* Commands: player_main(), dispatch(), recvclient().                      *)

\* The end of a turn of the loop in player_main(), up to its empth_yield().
\* Mutant: the next command is not told that the last one was aborted.
EndOfTurnAborted(r) ==
  [(IF r.ctld THEN SetEof(r) ELSE r) EXCEPT !.pc = "main"]

EndOfTurn(r) ==
  [(IF r.ctld THEN SetEof(r) ELSE r) EXCEPT !.aborted = FALSE, !.pc = "main"]

\* The command returned to dispatch(), which returns.
SleepAfterCommand(r) == IF r.sleep # Never \/ ~r.eof THEN Freely ELSE Never

Finished(r) ==
  LET done == [r EXCEPT !.depth = @ - 1, !.command = FALSE, !.sleep = SleepAfterCommand(r)]
  IN  IF done.depth # 0 THEN [done EXCEPT !.pc = "cmd"]
      ELSE EndOfTurn([done EXCEPT !.ctld = IF r.execute THEN FALSE ELSE @])

\* The command's own code, as far as it goes without sleeping; that of "force"
\* and "zdone" calls update_trigger().
GoOn(s, r) ==
  LET running == [r EXCEPT !.pc = "cmd"]
  IN  Becomes(s, running) \/ Trigger(s, running)

\* Mutant: a waiting update does not hold up new commands.
CommandMayRunAhead == upd # "run"

\* empth_rwlock_rdlock(update_lock) does not sleep.
CommandMayRun == UpdateLock!MayRead

\* dispatch(), up to the command's own code or to the sleep on update_lock.
Dispatch(s, r) ==
  \E sleep \in {OnInput, Freely}, execute \in BOOLEAN :
    LET d == [r EXCEPT !.sleep = sleep, !.command = TRUE, !.depth = @ + 1,
                       !.execute = IF r.depth = 0 THEN execute ELSE @]
    IN  /\ execute => r.depth = 0 /\ sleep = Freely
        /\ IF CommandMayRun THEN GoOn(s, d) ELSE Becomes(s, [d EXCEPT !.pc = "lock"])

\* recvclient() returned -1.
ReadFailed(s, r) ==
  Becomes(s, IF r.depth = 0 THEN EndOfTurn(r) ELSE [r EXCEPT !.pc = "cmd"])

\* recvclient() returned a line: a command, or the answer to a prompt.
GotLine(s, r) ==
  \/ r.depth = 0 /\ (Dispatch(s, r) \/ Becomes(s, EndOfTurn(r)) \/ Bye(s, r))
  \/ r.depth = 1 /\ r.execute /\ Becomes(s, [r EXCEPT !.pc = "execute"])
  \/ r.depth # 0 /\ ~(r.depth = 1 /\ r.execute) /\ GoOn(s, r)

\* The tail of the loop's body in recvclient(): io_input() has nothing more to say.
\* Mutant: whoever gets no input is idle.
NoInputMeansIdle(r) == [SetEof(r) EXCEPT !.aborted = TRUE]

NoInput(r) ==
  IF r.eof THEN [r EXCEPT !.aborted = TRUE]
  ELSE IF ~r.aborted THEN [SetEof(r) EXCEPT !.aborted = TRUE]
  ELSE r

\* The second half of the loop's body, up to the sleep in io_input().
\* Mutant: io_input() gets the deadline computed before io_output().
InputAsBefore(s, r) ==
  IF r.eof THEN ReadFailed(s, NoInput(r)) ELSE Becomes(s, SleepAt(r, "in"))

Input(s, r) ==
  IF ~r.eof /\ MaySleepOnInput(r) THEN Becomes(s, SleepAt(r, "in"))
  ELSE ReadFailed(s, NoInput(r))

\* The next turn of the loop, up to the sleep in io_output() if output is queued.
Receive(s, r) ==
  \/ r.aborted /\ ReadFailed(s, r)
  \/ ~r.aborted /\ r.line
     /\ \/ GotLine(s, [r EXCEPT !.line = FALSE])
        \/ \E ctld \in BOOLEAN :     \* the line is "ctld" or "aborted"
             ReadFailed(s, [r EXCEPT !.line = FALSE, !.aborted = TRUE, !.ctld = @ \/ ctld])
  \/ ~r.aborted /\ ~r.line
     /\ \/ Input(s, r)
        \/ MaySleepOnInput(r) /\ Becomes(s, SleepAt(r, "out"))

-----------------------------------------------------------------------------
(* What a player's thread does next, by the place where it is.             *)

\* player_accept() and the greeting of player_login().
Connect(s) ==
  /\ p[s].pc = "free"
  /\ Becomes(s, SleepAt([p[s] EXCEPT !.state = "init"], "login"))

Resumes(s, where) == p[s].pc = where /\ p[s].wake # "asleep"

\* play_cmd(), up to player_main() or to the sleep on shutdown_lock, which only
\* the end of the server ends: shutdwn() does not unlock it.
\* Mutant: a country's other session is not looked for.
PlayAnyway(s, r) ==
  IF ShutdownLock!MayRead
  THEN Becomes(s, [r EXCEPT !.state = "playing", !.held = @ + 1, !.pc = "main"])
  ELSE Becomes(s, [r EXCEPT !.pc = "enter"])

Play(s, r) ==
  IF Other(s, r.cnum) # {} THEN Becomes(s, SleepAt(r, "login"))
  ELSE IF ShutdownLock!MayRead
  THEN Becomes(s, [r EXCEPT !.state = "playing", !.held = @ + 1, !.pc = "main"])
  ELSE Becomes(s, [r EXCEPT !.pc = "enter"])

\* kill_cmd()
Kill(s, q) ==
  /\ p' = [p EXCEPT ![q] = Kicked(@), ![s] = SleepAt(@, "login")]
  /\ UNCHANGED <<upd, wanted, shut>>

\* The loop of player_login() before the player plays.
Login(s) ==
  /\ Resumes(s, "login")
  /\ LET r == p[s]
         mayPlay == r.cnum # NoCountry /\ r.authenticated
     IN  \/ Becomes(s, Left(r))        \* timeout, EOF, error or "quit"
         \/ /\ r.wake = "ready"
            /\ \/ Becomes(s, SleepAt(r, "login"))      \* nothing or no full line yet
               \/ \E c \in Countries :
                    \/ Becomes(s, SleepAt([r EXCEPT !.cnum = c, !.authenticated = FALSE], "login"))
                    \/ Play(s, [r EXCEPT !.cnum = c, !.authenticated = TRUE])
               \/ r.cnum # NoCountry /\ Becomes(s, SleepAt([r EXCEPT !.authenticated = TRUE], "login"))
               \/ mayPlay /\ Play(s, r)
               \/ mayPlay /\ \E q \in Other(s, r.cnum) : Kill(s, q)

\* status(): EOF, an error, or the country may not play now.
StatusFails(s) == p[s].pc = "main" /\ Bye(s, p[s])

\* Mutant: a player who was told to leave goes on.
StatusOfAnyone(s) == p[s].pc = "main" /\ Becomes(s, [p[s] EXCEPT !.pc = "prompt"])

Status(s) == p[s].pc = "main" /\ ~p[s].eof /\ Becomes(s, [p[s] EXCEPT !.pc = "prompt"])

Command(s) == p[s].pc = "prompt" /\ Receive(s, p[s])

\* io_output() in recvclient() returns: with the queue sent, or nothing.
OutputDone(s) == Resumes(s, "out") /\ Input(s, p[s])

\* io_input() in recvclient() returns: without input; at the connection's end;
\* with part of a line; or with a line.
InputDone(s) ==
  /\ Resumes(s, "in")
  /\ LET r == p[s]
     IN  IF r.wake = "early" THEN ReadFailed(s, NoInput(r))
         ELSE \/ ReadFailed(s, NoInput([r EXCEPT !.eof = TRUE]))
              \/ Receive(s, r)
              \/ (LateLines \/ ~r.eof) /\ Receive(s, [r EXCEPT !.line = TRUE])

\* dispatch() gets update_lock.
StartCommand(s) ==
  /\ p[s].pc = "lock"
  /\ CommandMayRun
  /\ GoOn(s, p[s])

Finish(s) == p[s].pc = "cmd" /\ Becomes(s, Finished(p[s]))

\* A running command prompts, prints more than it may without sleeping, or
\* aborts itself.  c_execute() asks for its next line, if status() lets it.
Prompt(s) ==
  /\ p[s].pc = "cmd"
  /\ p[s].depth = 1 /\ p[s].execute => ~p[s].eof /\ ~p[s].ctld
  /\ Receive(s, p[s])

PrintMore(s) ==
  /\ p[s].pc = "cmd"
  /\ MaySleepOnOutput(p[s])
  /\ Becomes(s, SleepAt(p[s], "pr"))

AbortSelf(s) ==
  /\ p[s].pc = "cmd" /\ ~p[s].aborted
  /\ Becomes(s, [p[s] EXCEPT !.aborted = TRUE])

\* player_output_some() returns.
Printed(s) == Resumes(s, "pr") /\ Becomes(s, [p[s] EXCEPT !.pc = "cmd"])

\* c_execute() dispatches the line it read.
Execute(s) == p[s].pc = "execute" /\ Dispatch(s, p[s])

\* The last output is sent, or cannot be.
SaidBye(s) == Resumes(s, "bye") /\ Leave(s, p[s])

(***************************************************************************)
(* io_output() sent part of the queue, and its caller calls it again.  The *)
(* loop of player_login() computes the deadline anew, those of             *)
(* recvclient() and player_output_some() do not.                           *)
(***************************************************************************)
SentPart(s) ==
  /\ p[s].pc \in {"out", "pr", "bye"} /\ p[s].wake = "ready"
  /\ p[s].pc = "bye" => MaySleepOnInput(p[s])
  /\ Becomes(s, SleepAt(p[s], p[s].pc))

\* io_close() and the rest of player_delete(); a lock still held remains so.
Closed(s) == Resumes(s, "close") /\ Becomes(s, [NoPlayer EXCEPT !.held = p[s].held])

\* A descriptor becomes ready, or the sleep's time is over.
SelectReturns(s, how) == Asleep(p[s]) /\ Becomes(s, [p[s] EXCEPT !.wake = how])

-----------------------------------------------------------------------------
(* The update thread, and the thread in shutdwn().                         *)

\* The scheduled time comes, or update_reschedule() is called.
UpdateAwakes ==
  /\ upd = "asleep"
  /\ upd' = "awake"
  /\ UNCHANGED <<p, wanted, shut>>

\* update_sched() after its empth_sleep(), up to the sleep on update_lock.
\* due: the scheduled time has come, and nothing speaks against the update.
UpdateStarts ==
  /\ upd = "awake"
  /\ \E due \in BOOLEAN :
       IF wanted \/ due
       THEN /\ p' = [s \in Players |-> Aborted(p[s])]
            /\ upd' = IF UpdateLock!MayWrite THEN "run" ELSE "wait"
       ELSE upd' = "asleep" /\ UNCHANGED p
  /\ wanted' = FALSE
  /\ UNCHANGED shut

UpdateGetsLock ==
  /\ upd = "wait"
  /\ UpdateLock!MayWrite
  /\ upd' = "run"
  /\ UNCHANGED <<p, wanted, shut>>

\* The end of update_run(), whether the pre-update hook failed or not.
UpdateEnds ==
  /\ upd = "run"
  /\ upd' = "asleep"
  /\ UNCHANGED <<p, wanted, shut>>

\* shutdwn(), up to the sleep on shutdown_lock.
ShutdownStarts ==
  /\ shut = "no"
  /\ p' = [s \in Players |-> IF p[s].state = "playing" THEN Kicked(p[s]) ELSE p[s]]
  /\ shut' = IF ShutdownLock!MayWrite THEN "held" ELSE "wait"
  /\ UNCHANGED <<upd, wanted>>

\* It then gives the players three seconds to close their connections, and exits:
\* what the model does from there on may end at any time.
ShutdownGetsLock ==
  /\ shut = "wait"
  /\ ShutdownLock!MayWrite
  /\ shut' = "held"
  /\ UNCHANGED <<p, upd, wanted>>

Step(s) ==
  \/ Login(s) \/ StatusFails(s) \/ Status(s) \/ Command(s) \/ OutputDone(s)
  \/ InputDone(s) \/ StartCommand(s) \/ Finish(s) \/ Prompt(s) \/ PrintMore(s) \/ AbortSelf(s)
  \/ Printed(s) \/ Execute(s) \/ SaidBye(s) \/ SentPart(s) \/ Closed(s)

Next ==
  \/ \E s \in Players : Connect(s) \/ Step(s) \/ SelectReturns(s, "ready") \/ SelectReturns(s, "early")
  \/ UpdateAwakes \/ UpdateStarts \/ UpdateGetsLock \/ UpdateEnds
  \/ ShutdownStarts \/ ShutdownGetsLock

Spec == Init /\ [][Next]_vars

(***************************************************************************)
(* A thread that is ready runs, sleeps on descriptors end with their       *)
(* deadline, a queue of output is sent in the end, and a command comes to  *)
(* its end unless it prompts or prints for ever.  Updates leave waiting    *)
(* commands time to start.  Connections need not come, clients need not    *)
(* send, and a shutdown need not be asked for.                             *)
(***************************************************************************)
Runs(s) ==
  \/ Login(s) \/ StatusFails(s) \/ Status(s) \/ Command(s) \/ InputDone(s) \/ Execute(s) \/ Closed(s)

Sent(s) == OutputDone(s) \/ Printed(s) \/ SaidBye(s)

FairSpec ==
  /\ Spec
  /\ \A s \in Players : /\ WF_vars(Runs(s)) /\ SF_vars(Sent(s)) /\ WF_vars(Finish(s)) /\ SF_vars(StartCommand(s))
                        /\ WF_vars(SelectReturns(s, "early"))
  /\ WF_vars(UpdateStarts) /\ WF_vars(UpdateGetsLock) /\ WF_vars(UpdateEnds)
  /\ WF_vars(ShutdownGetsLock)

-----------------------------------------------------------------------------

Playing(s) == p[s].state = "playing"

\* The execute command spoils some of what holds without it, see
\* NobodyWaitsForHimself.
Executing == \E s \in Players : p[s].execute /\ p[s].depth # 0

TypeOK ==
  /\ p \in [Players ->
       [pc : SleepsAt \cup {"free", "enter", "main", "prompt", "lock", "cmd", "execute"},
        wake : {"asleep", "ready", "early"}, state : {"none", "init", "playing", "shutdown"},
        cnum : Countries \cup {NoCountry}, authenticated : BOOLEAN, sleep : {Never, OnInput, Freely},
        aborted : BOOLEAN, ctld : BOOLEAN, command : BOOLEAN, execute : BOOLEAN,
        depth : Nat, held : Nat, eof : BOOLEAN, line : BOOLEAN]]
  /\ upd \in {"asleep", "awake", "wait", "run"} /\ wanted \in BOOLEAN
  /\ shut \in {"no", "wait", "held"}

\* No two players play the same country, though play_cmd() may sleep between
\* its getplayer() and becoming PS_PLAYING.
OneSessionPerCountry ==
  \A s, t \in Players : Playing(s) /\ Playing(t) /\ p[s].cnum = p[t].cnum => s = t

(***************************************************************************)
(* "Update holds it exclusive, commands hold it shared" (main.c), and the  *)
(* commands the update waits for have been aborted and will not sleep:     *)
(* update_run() decides whom to abort by player->command, not by the lock. *)
(***************************************************************************)
UpdateRulesCommands ==
  /\ upd = "run" => \A s \in Players : Holds(s) = 0
  /\ upd = "wait" => \A s \in Players : Holds(s) # 0 /\ ~p[s].execute
                                          => p[s].aborted /\ p[s].sleep = Never

(***************************************************************************)
(* Nobody plays once the shutdown is through shutdown_lock; until then,    *)
(* all who still play were told to leave, and will not sleep (c_execute()  *)
(* may forget that he may not).                                            *)
(***************************************************************************)
ShutdownDisconnects ==
  /\ shut = "held" => \A s \in Players : ~Playing(s)
  /\ shut = "wait" => \A s \in Players : Playing(s) => p[s].eof /\ (p[s].sleep = Never \/ p[s].execute)

(***************************************************************************)
(* "Fix reading of player input not to block again after update or         *)
(* shutdown aborted it", "Fix shutdown not to let player threads block on  *)
(* output" (info/Empire4.3.t): who may not sleep does not go to sleep on   *)
(* his connection.  What holds of that: he does not begin to, but the      *)
(* loops over io_output() may go on with the deadline they started with.   *)
(***************************************************************************)
AbortedStaysAwake ==
  \A s \in Players :
    Playing(s) /\ p[s].sleep = Never /\ Asleep(p[s]) => p[s].pc \in {"out", "pr"}

\* recvclient() disconnects a player as idle if it gets no input and aborted is
\* not set: a player who must not sleep gets none, and must not be taken for idle.
AbortedIsNotIdle ==
  \A s \in Players : p[s].sleep = Never => p[s].aborted \/ p[s].eof

\* shutdown_lock: "player threads in state PS_PLAYING hold it shared" (main.c).
PlayingHoldsShutdownLock ==
  \A s \in Players : p[s].held = IF Playing(s) THEN 1 ELSE 0

\* Whoever is told to stop, by the update, by "kill" or by the shutdown, stays
\* told until it has stopped, wherever its thread is.
AbortsHold == TypeOK /\ ShutdownDisconnects /\ AbortedStaysAwake /\ AbortedIsNotIdle

\* Who wants an update finds the update thread asleep and wakes it, or it is on
\* its way to look: the request does not wait for some later wakeup.
TriggerNotLost == wanted => upd = "awake"

\* The threads use each lock as its contract has it.
LocksKept == UpdateLock!Spec /\ ShutdownLock!Spec /\ []PlayingHoldsShutdownLock

\* "New commands [...] are delayed until after the update" (info/Empire4.3.t): the
\* update does not wait for the command that is delayed.
NobodyWaitsForHimself == \A s \in Players : p[s].pc = "lock" => Holds(s) = 0

\* An update that waits for the commands it aborted gets to run.
UpdateRuns == upd = "wait" ~> upd = "run" \/ Executing

\* The shutdown gets shutdown_lock from the players.
ShutdownProceeds == shut = "wait" ~> shut = "held" \/ Executing

\* A player whom "kill" or the shutdown told to leave stops playing, whatever his
\* thread was at.
DisconnectedLeaves ==
  \A s \in Players : Playing(s) /\ p[s].eof /\ p[s].sleep = Never
                       ~> ~Playing(s) \/ Executing

\* Who is told to leave leaves, and so the shutdown comes to its end.
SessionsEnd == ShutdownProceeds /\ DisconnectedLeaves

=============================================================================

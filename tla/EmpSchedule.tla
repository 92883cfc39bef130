---------------------------- MODULE EmpSchedule ----------------------------
(***************************************************************************)
(* When the update runs, and when the server shuts down.                   *)
(*                                                                         *)
(* The update thread (server/update.c) sleeps until the next update of the *)
(* schedule that read_schedule() of lib/common/rdsched.c read, and reads   *)
(* the schedule again whenever it woke: because the time has come, because *)
(* a deity or a vote triggered an update (force, zdone), or because the    *)
(* schedule is to be reloaded (reload, SIGHUP).  The shutdown thread       *)
(* (server/shutdown.c) counts down the minutes of a requested shutdown.    *)
(* Either may wake late.                                                   *)
(*                                                                         *)
(* The unit of time is half a minute.  Left out: game hours, the hook that *)
(* may refuse an update, and the threads' wait for their locks (see        *)
(* EmpServer).                                                             *)
(***************************************************************************)
EXTENDS Integers, Sequences, SequencesExt, FiniteSetsExt

CONSTANTS Files,     \* schedule files; each a sequence of directives
                     \*   <<"at", t>>, <<"every", delta, until>>, <<"skip", t>>
          Entries,   \* size of update_time[]: it holds Entries - 1 updates
          Window,    \* update_window
          Horizon,   \* bound: the clock stops here
          Delays     \* the minutes deities ask for

ASSUME ScheduleAssumption ==
    Entries \in Nat \ {0, 1} /\ Window \in Nat /\ Horizon \in Nat /\ Delays \subseteq Nat

VARIABLES
    now,
    file,      \* the schedule file
    sched,     \* update_time[]
    anchor,    \* update_schedule_anchor
    next,      \* until when the update thread sleeps; 0 is for ever
    upd,       \* "asleep", "ready" when woken, "running"
    wanted,    \* update_wanted
    disabled,  \* updates_disabled()
    ran,       \* the scheduled updates that ran, in order
    pending,   \* shutdown_pending
    shut,      \* the shutdown thread: "none", "asleep" or "ready"
    shutAt,    \* when it wakes
    down,      \* whether the server is down
    request    \* when the last shutdown asked for is due; 0 when none is

updateVars == <<file, sched, anchor, next, upd, wanted, disabled, ran>>
shutdownVars == <<pending, shut, shutAt, down, request>>
scheduleVars == <<now, updateVars, shutdownVars>>

----------------------------------------------------------------------------
(* Reading the schedule.                                                   *)

Full(s) == Len(s) = Entries - 1
Cut(s) == SubSeq(s, 1, IF Len(s) < Entries THEN Len(s) ELSE Entries - 1)

\* insert_update(): before the first one at or after t
InsertUpdate(s, t, t0) ==
    IF t <= t0 THEN s
    ELSE Cut(SelectSeq(s, LAMBDA u : u < t) \o <<t>> \o SelectSeq(s, LAMBDA u : u >= t))

\* delete_update()
DeleteUpdate(s, t) == RemoveFirst(s, t)

\* every delta from the anchor until the time given or the table is full
EveryUpdate(s, a, delta, until, t0) ==
    FoldLeft(LAMBDA u, k : IF a + k * delta > until \/ (Full(u) /\ Last(u) < a + k * delta)
                           THEN u ELSE InsertUpdate(u, a + k * delta, t0),
             s, [k \in 1..(Horizon + Entries) |-> k])

\* parse_schedule_line()
Directive(state, d, t0) ==
    CASE d[1] = "at"    -> [anchor |-> d[2], sched |-> InsertUpdate(state.sched, d[2], t0)]
      [] d[1] = "every" -> [state EXCEPT !.sched =
                                EveryUpdate(state.sched, state.anchor, d[2], d[3], t0)]
      [] d[1] = "skip"  -> [state EXCEPT !.sched = DeleteUpdate(state.sched, d[2])]

ReadSchedule(f, t0, a) ==
    FoldLeft(LAMBDA state, d : Directive(state, d, t0), [sched |-> <<>>, anchor |-> a], f).sched

\* update_get_schedule(): from half a minute ahead
ReadAfter == now + 1

\* when the thread wakes for it: at a random time of the update window
Sleeps(s) ==
    next' \in IF s = <<>> THEN {0} ELSE (s[1])..(s[1] + Window)

----------------------------------------------------------------------------
(* The update thread.                                                      *)

ScheduleInit ==
    /\ now = 1 /\ file \in Files
    /\ anchor = 2
    /\ sched = ReadSchedule(file, 2, anchor)
    /\ next \in IF sched = <<>> THEN {0} ELSE (sched[1])..(sched[1] + Window)
    /\ upd = "asleep" /\ wanted = FALSE /\ disabled \in BOOLEAN /\ ran = <<>>
    /\ pending = 0 /\ shut = "none" /\ shutAt = 0 /\ down = FALSE /\ request = 0

Tick ==
    /\ now < Horizon
    /\ now' = now + 1
    /\ UNCHANGED <<updateVars, shutdownVars>>

Due == next # 0 /\ now >= next
Missed == now >= next + 2

\* mutant: the anchor is when the thread woke
AnchorNow == IF Due THEN now ELSE anchor
NewAnchor == IF Due THEN sched[1] ELSE anchor

\* the thread wakes, for a scheduled update or because it was woken
UpdateWakes ==
    /\ upd = "ready" \/ (upd = "asleep" /\ Due)
    /\ LET runs == wanted \/ (Due /\ ~Missed /\ ~disabled)
       IN  /\ upd' = IF runs THEN "running" ELSE "read"
           /\ ran' = IF Due /\ runs THEN Append(ran, sched[1]) ELSE ran
    /\ anchor' = NewAnchor
    /\ wanted' = FALSE
    /\ UNCHANGED <<now, file, sched, next, disabled, shutdownVars>>

\* after the update, or right away: the schedule is read again
ReadsSchedule ==
    /\ upd \in {"running", "read"}
    /\ sched' = ReadSchedule(file, ReadAfter, anchor)
    /\ Sleeps(sched')
    /\ upd' = "asleep"
    /\ UNCHANGED <<now, file, anchor, wanted, disabled, ran, shutdownVars>>

----------------------------------------------------------------------------
(* What deities do.                                                        *)

WakesUpdate == upd' = IF upd = "asleep" THEN "ready" ELSE upd

\* c_reload(), SIGHUP
Reload ==
    /\ upd = "asleep" /\ WakesUpdate
    /\ UNCHANGED <<now, file, sched, anchor, next, wanted, disabled, ran, shutdownVars>>

\* c_force(), and c_zdone() of the deciding vote
ForceUpdate ==
    /\ upd = "asleep" /\ pending = 0 /\ ~disabled
    /\ wanted' = TRUE /\ WakesUpdate
    /\ UNCHANGED <<now, file, sched, anchor, next, disabled, ran, shutdownVars>>

\* c_enable(), c_disable()
Able ==
    /\ disabled' = ~disabled
    /\ UNCHANGED <<now, file, sched, anchor, next, upd, wanted, ran, shutdownVars>>

\* shutdown_initiate(): the thread counts down from one more than asked for,
\* and is woken to begin at once
ShutdownInitiate(mins) ==
    /\ ~down
    /\ pending' = mins + 1
    /\ shut' = "ready"
    /\ request' = now + 2 * mins
    /\ UNCHANGED <<now, updateVars, shutAt, down>>

\* the same with a negative delay
ShutdownCancel ==
    /\ ~down /\ pending > 0
    /\ pending' = 0 /\ request' = 0
    /\ UNCHANGED <<now, updateVars, shut, shutAt, down>>

\* one turn of shutdown_sequence(): it ends when nothing is pending
ShutdownCounts ==
    /\ shut = "ready" \/ (shut = "asleep" /\ now >= shutAt)
    /\ ~down
    /\ IF pending = 0 THEN shut' = "none" /\ UNCHANGED <<pending, shutAt, down>>
       ELSE /\ pending' = pending - 1
            /\ down' = (pending = 1)
            /\ shut' = "asleep" /\ shutAt' = now + 2
    /\ UNCHANGED <<now, updateVars, request>>

ScheduleNext ==
    /\ ~down
    /\ \/ Tick \/ UpdateWakes \/ ReadsSchedule \/ Reload \/ ForceUpdate \/ Able
       \/ \E m \in Delays : ShutdownInitiate(m)
       \/ ShutdownCancel \/ ShutdownCounts

ScheduleSpec == ScheduleInit /\ [][ScheduleNext]_scheduleVars

----------------------------------------------------------------------------
(* What the schedule promises.                                             *)

\* No scheduled update runs twice, and none before one that is already over.
OncePerUpdate ==
    \A i \in 1..(Len(ran) - 1) : ran[i] < ran[i + 1]

\* However often it is read, and though the anchor moves with every update,
\* the schedule's updates that are more than half a minute away stay: all
\* that changes is what is over, and what follows at the end of the table; and
\* no update runs twice.
ScheduleStands ==
    /\ []OncePerUpdate
    /\ [][sched' # sched =>
            LET ahead(s) == SelectSeq(s, LAMBDA t : t > now + 1)
            IN  IsPrefix(ahead(sched), ahead(sched'))]_scheduleVars

\* The server is shut down when the last request says and not earlier, and
\* never for a request that was cancelled, however the requests follow one
\* another while the thread sleeps.
ShutdownAsAsked == down => request # 0 /\ now >= request

\* The two threads that sleep until a time do at that time what was planned.
PlansStand == ScheduleStands /\ []ShutdownAsAsked
=============================================================================

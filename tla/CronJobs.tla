--------------------------------- MODULE CronJobs ---------------------------------
(***************************************************************************)
(* Scheduled runs: the rows of cron_jobs, the requests that edit them, and  *)
(* the ticks (processDueCronJobs) that every server starts each half       *)
(* minute.  A tick reads the rows that are due once, then triggers and     *)
(* reschedules them one by one; other ticks, edits and the clock go on     *)
(* meanwhile, and it can stop anywhere.  Whoever reschedules a job computes *)
(* its next run first and writes it later, in an awaited call.             *)
(*                                                                         *)
(* The clock counts half minutes.  The length of an hour and of a day are  *)
(* parameters, in which the calculation of the next run is uniform.        *)
(*                                                                         *)
(* Left out: names, timezone and lastRunAt, which nothing reads, daylight  *)
(* saving, and the guards of the routes (owners and admins).               *)
(***************************************************************************)
EXTENDS Integers, FiniteSets

CONSTANTS
    Jobs,           \* the cron jobs, each of a workflow of its own
    Broken,         \* the jobs whose run can never be triggered
    Ticks,          \* the ticks that can overlap, on one server or several
    Expressions,    \* the cron expressions that jobs have
    MinutesPerHour,
    HoursPerDay,
    MaxTime,        \* bound: the clock stops here
    MaxEdits,       \* bound: edits of jobs and workflows
    MaxFaults       \* bound: crashes and failed calls, beyond those of Broken

Hour == 2 * MinutesPerHour
Day  == HoursPerDay * Hour

\* A field of an expression: "*" (or what does nothing: no number, a step of zero or less:
\* "any"), a number, a step "*/n", or a number that takes the date out of the range of
\* dates ("beyond").  A list or range is its first number.  Nothing bounds the numbers: the
\* schema of the requests only counts the fields.
Field == [form : {"any", "beyond"}, n : {0}] \cup [form : {"at"}, n : Int] \cup [form : {"every"}, n : Nat \ {0}]

ASSUME CronAssumption ==
    /\ Broken \subseteq Jobs
    /\ {MinutesPerHour, HoursPerDay} \subseteq Nat \ {0}
    /\ {MaxTime, MaxEdits, MaxFaults} \subseteq Nat
    /\ \A e \in Expressions : e.minute \in Field /\ e.hour \in Field

VARIABLES
    now,       \* the clock
    job,       \* job[j]: its row: state, expression and nextRunAt
    workflow,  \* workflow[j]: "bare" (live, no active version), "active" or "deleted"
    tick,      \* tick[p]: the rows that tick p has read and not yet handled
    pending,   \* the writes of requests that have computed the next run
    edits, faults, \* how many there have been
    fired,     \* history: the <<job, nextRunAt>> for which a run was triggered
    again,     \* history: those for which a second run was, without being excused
    excused    \* history: those that two ticks held at once, that were not rescheduled
               \* because of a fault, or that a write has brought back

history == <<fired, again, excused>>
vars == <<now, job, workflow, tick, pending, edits, faults, history>>

-----------------------------------------------------------------------------
(* calculateNextRunAt.  A time is a Date; its setters carry over.            *)

MinuteOf(t) == (t \div 2) % MinutesPerHour
HourOf(t)   == (t \div Hour) % HoursPerDay

\* Mutant: the seconds stay.
SetMinutes_KeepsSeconds(t, m) == t + 2 * m - 2 * MinuteOf(t)

\* setMinutes(m), seconds and milliseconds set to zero.
SetMinutes(t, m) == t + 2 * m - 2 * MinuteOf(t) - (t % 2)
SetHours(t, h)   == t + Hour * h - Hour * HourOf(t)

\* The next multiple of n after k.
NextStep(k, n) == k + (n - (k % n))

ApplyMinute(f, t) ==
    CASE f.form = "every" -> SetMinutes(t, NextStep(MinuteOf(t), f.n))
      [] f.form = "at"    -> SetMinutes(t, f.n)
      [] OTHER            -> t

ApplyHour(f, t) ==
    CASE f.form = "every" -> SetHours(t, NextStep(HourOf(t), f.n))
      [] f.form = "at"    -> SetHours(t, f.n)
      [] OTHER            -> t

\* Mutant: "in the past" leaves out the present.
NextRunAt_Present(e, t) ==
    LET next == ApplyHour(e.hour, ApplyMinute(e.minute, t))
    IN IF "beyond" \in {e.minute.form, e.hour.form} THEN t + Hour
       ELSE IF next < t THEN next + Day ELSE next

\* The minute's field, then the hour's; a day later if that is not in the future; an hour
\* from now if it is no date.
NextRunAt(e, t) ==
    LET next == ApplyHour(e.hour, ApplyMinute(e.minute, t))
    IN IF "beyond" \in {e.minute.form, e.hour.form} THEN t + Hour
       ELSE IF next <= t THEN next + Day ELSE next

-----------------------------------------------------------------------------
Idle == [phase |-> "idle"]

\* A row as a tick has read it; runnable: its workflow has an active version.
Row == [id : Jobs, expr : Expressions, next : Int, runnable : BOOLEAN]

\* A write under way, of the request with this number.
Put == [no : 1..MaxEdits, id : Jobs, state : {"on", "off", "same"}, expr : Expressions, next : Int]

Handling(q) == IF q.phase = "idle" THEN {} ELSE q.todo
Slot(x)     == <<x.id, x.next>>
IsDue(j)    == job[j].state = "on" /\ job[j].next <= now

\* Jobs that create has made; basis is history: the expression that next was computed from.
Init ==
    /\ now = 0 /\ edits = 0 /\ faults = 0 /\ pending = {} /\ fired = {} /\ again = {} /\ excused = {}
    /\ \E e \in [Jobs -> Expressions], s \in [Jobs -> {"none", "on"}] :
         job = [j \in Jobs |-> [state |-> s[j], expr |-> e[j], next |-> NextRunAt(e[j], 0), basis |-> e[j]]]
    /\ workflow \in [Jobs -> {"bare", "active"}]
    /\ tick = [p \in Ticks |-> Idle]

-----------------------------------------------------------------------------
(* Requests.  Each looks for the row first, which decides no more than the     *)
(* write by id that follows.  One whose write fails leaves nothing, or what    *)
(* the write has done.                                                         *)

\* The row of j is written, and its due time may be one that has had its run.
Store(j, row) ==
    /\ job' = [job EXCEPT ![j] = row]
    /\ excused' = excused \cup ({<<j, row.next>>} \cap fired)
    /\ UNCHANGED <<fired, again>>

\* A request computes the next run and sends its write.
Submit(j, state, e) ==
    /\ edits < MaxEdits
    /\ edits' = edits + 1
    /\ pending' = pending \cup {[no |-> edits', id |-> j, state |-> state, expr |-> e, next |-> NextRunAt(e, now)]}
    /\ UNCHANGED <<now, job, workflow, tick, faults, history>>

\* create, of a job that nobody knows before it is there ...
CreateJob(j, e) ==
    /\ job[j].state = "none" /\ workflow[j] # "deleted"
    /\ \A w \in pending : w.id # j
    /\ Submit(j, "on", e)

\* ... and update with a new expression, which sets isActive as well or leaves it.
Reschedule(j, state, e) ==
    /\ job[j].state \in {"on", "off"}
    /\ Submit(j, state, e)

\* Mutant: a new expression is stored without a new nextRunAt.
WriteRow_KeepsNext(w) ==
    /\ pending' = pending \ {w}
    /\ Store(w.id, [job[w.id] EXCEPT !.state = IF w.state = "same" THEN @ ELSE w.state, !.expr = w.expr])
    /\ UNCHANGED <<now, workflow, tick, edits, faults>>

\* The write, whatever has happened since; it is rejected if the row is gone.
WriteRow(w) ==
    /\ pending' = pending \ {w}
    /\ LET row == job[w.id]
       IN \/ /\ row.state # "removed"
             /\ Store(w.id, [state |-> IF w.state = "same" THEN row.state ELSE w.state,
                             expr |-> w.expr, next |-> w.next, basis |-> w.expr])
          \/ row.state = "removed" /\ UNCHANGED <<job, history>>
    /\ UNCHANGED <<now, workflow, tick, edits, faults>>

\* A request changes the state of the row, and nothing that it has computed.
Edit(j, row) ==
    /\ edits < MaxEdits
    /\ edits' = edits + 1
    /\ job' = [job EXCEPT ![j] = row]
    /\ UNCHANGED <<now, workflow, tick, pending, faults, history>>

\* update without an expression: nextRunAt stays what it was.
SetActive(j, state) ==
    /\ job[j].state \in {"on", "off"} \ {state}
    /\ Edit(j, [job[j] EXCEPT !.state = state])

RemoveJob(j) ==
    /\ job[j].state \in {"on", "off"}
    /\ Edit(j, [job[j] EXCEPT !.state = "removed"])

\* Versions are activated and workflows deleted (module Workflows).
ChangeWorkflow(j, w) ==
    /\ workflow[j] # "deleted" /\ w # workflow[j]
    /\ edits < MaxEdits
    /\ edits' = edits + 1
    /\ workflow' = [workflow EXCEPT ![j] = w]
    /\ UNCHANGED <<now, job, tick, pending, faults, history>>

-----------------------------------------------------------------------------
(* Ticks. *)

\* Tick p has rows left to handle, or ends.
Go(p, todo) ==
    tick' = [tick EXCEPT ![p] = IF todo = {} THEN Idle ELSE [phase |-> "rows", todo |-> todo]]

\* The rows that are due are read, with their workflows.  (Nothing due: nothing happens.)
StartTick(p) ==
    LET due == {[id |-> j, expr |-> job[j].expr, next |-> job[j].next, runnable |-> workflow[j] = "active"] :
                  j \in {i \in Jobs : IsDue(i)}}
        held == UNION {{Slot(x) : x \in Handling(tick[q])} : q \in Ticks \ {p}}
    IN /\ tick[p] = Idle /\ due # {}
       /\ Go(p, due)
       /\ excused' = excused \cup ({Slot(x) : x \in due} \cap held)
       /\ UNCHANGED <<now, job, workflow, pending, edits, faults, fired, again>>

\* A deleted workflow, or one without an active version: the row stays due.
SkipRow(p, x) ==
    /\ tick[p].phase = "rows" /\ x \in tick[p].todo /\ ~x.runnable
    /\ Go(p, tick[p].todo \ {x})
    /\ UNCHANGED <<now, job, workflow, pending, edits, faults, history>>

\* The row of a run is inserted, for this due time.
InsertRun(x) ==
    /\ fired' = fired \cup {Slot(x)}
    /\ again' = again \cup ({Slot(x)} \cap (fired \ excused))

\* Mutant: the row is taken off before it is rescheduled.
TriggerRow_TakesOff(p, x) ==
    /\ tick[p].phase = "rows" /\ x \in tick[p].todo /\ x.runnable /\ x.id \notin Broken
    /\ tick' = [tick EXCEPT ![p] = [phase |-> "triggered", todo |-> @.todo \ {x}, row |-> x]]
    /\ InsertRun(x)
    /\ UNCHANGED <<now, job, workflow, pending, edits, faults, excused>>

\* triggerRun: the run's row and its job in the queue.
TriggerRow(p, x) ==
    /\ tick[p].phase = "rows" /\ x \in tick[p].todo /\ x.runnable /\ x.id \notin Broken
    /\ tick' = [tick EXCEPT ![p] = [phase |-> "triggered", todo |-> @.todo, row |-> x]]
    /\ InsertRun(x)
    /\ UNCHANGED <<now, job, workflow, pending, edits, faults, excused>>

\* Mutant: no catch inside the loop.
TriggerFails_EndsTick(p, x) ==
    /\ tick[p].phase = "rows" /\ x \in tick[p].todo /\ x.runnable
    /\ \/ x.id \in Broken /\ UNCHANGED faults
       \/ x.id \notin Broken /\ faults < MaxFaults /\ faults' = faults + 1
    /\ Go(p, {})
    /\ UNCHANGED <<now, job, workflow, pending, edits, history>>

\* triggerRun throws, before it has inserted the run's row or after (queue.add is rejected,
\* or the answer lost): the error is caught, the row stays due, the loop goes on.
TriggerFails(p, x) ==
    /\ tick[p].phase = "rows" /\ x \in tick[p].todo /\ x.runnable
    /\ \/ x.id \in Broken /\ UNCHANGED faults
       \/ x.id \notin Broken /\ faults < MaxFaults /\ faults' = faults + 1
    /\ \/ UNCHANGED history
       \/ InsertRun(x) /\ excused' = excused \cup {Slot(x)}
    /\ Go(p, tick[p].todo \ {x})
    /\ UNCHANGED <<now, job, workflow, pending, edits>>

\* triggerRun has returned: the next run is computed from the expression that was read ...
ComputeNext(p) ==
    /\ tick[p].phase = "triggered"
    /\ tick' = [tick EXCEPT ![p] = [phase |-> "write", todo |-> @.todo, row |-> @.row,
                                    next |-> NextRunAt(@.row.expr, now)]]
    /\ UNCHANGED <<now, job, workflow, pending, edits, faults, history>>

\* Mutant: only lastRunAt is written.
UpdateRow_LastRunOnly(p) ==
    /\ tick[p].phase = "write"
    /\ Go(p, tick[p].todo \ {tick[p].row})
    /\ UNCHANGED <<now, job, workflow, pending, edits, faults, history>>

\* ... and written by id; a row that is gone makes the update fail, which is caught.
UpdateRow(p) ==
    /\ tick[p].phase = "write"
    /\ LET x == tick[p].row
       IN \/ /\ job[x.id].state # "removed"
             /\ Store(x.id, [job[x.id] EXCEPT !.next = tick[p].next, !.basis = x.expr])
          \/ job[x.id].state = "removed" /\ UNCHANGED <<job, history>>
    /\ Go(p, tick[p].todo \ {tick[p].row})
    /\ UNCHANGED <<now, workflow, pending, edits, faults>>

\* The update fails without effect: the run was triggered and the row stays due.
UpdateFails(p) ==
    /\ tick[p].phase = "write" /\ faults < MaxFaults
    /\ faults' = faults + 1
    /\ excused' = excused \cup {Slot(tick[p].row)}
    /\ Go(p, tick[p].todo \ {tick[p].row})
    /\ UNCHANGED <<now, job, workflow, pending, edits, fired, again>>

\* The server stops in the middle of a tick.
Crash(p) ==
    /\ tick[p] # Idle /\ faults < MaxFaults
    /\ faults' = faults + 1
    /\ excused' = IF tick[p].phase = "rows" THEN excused ELSE excused \cup {Slot(tick[p].row)}
    /\ tick' = [tick EXCEPT ![p] = Idle]
    /\ UNCHANGED <<now, job, workflow, pending, edits, fired, again>>

PassTime ==
    /\ now < MaxTime
    /\ now' = now + 1
    /\ UNCHANGED <<job, workflow, tick, pending, edits, faults, history>>

-----------------------------------------------------------------------------
TickStep(p) ==
    \/ StartTick(p) \/ ComputeNext(p) \/ UpdateRow(p)
    \/ \E x \in Handling(tick[p]) : SkipRow(p, x) \/ TriggerRow(p, x) \/ TriggerFails(p, x)

Request(j) ==
    \/ RemoveJob(j)
    \/ \E e \in Expressions : CreateJob(j, e) \/ \E s \in {"on", "off", "same"} : Reschedule(j, s, e)
    \/ \E s \in {"on", "off"} : SetActive(j, s)
    \/ \E w \in {"active", "deleted"} : ChangeWorkflow(j, w)

Next ==
    \/ PassTime
    \/ \E j \in Jobs : Request(j)
    \/ \E w \in pending : WriteRow(w)
    \/ \E p \in Ticks : TickStep(p) \/ UpdateFails(p) \/ Crash(p)

\* The scheduler starts a tick each half minute, and what a tick awaits returns or throws.
Spec == Init /\ [][Next]_vars /\ \A p \in Ticks : WF_vars(TickStep(p))

-----------------------------------------------------------------------------
(* Properties. *)

TickState ==
    {Idle} \cup [phase : {"rows"}, todo : SUBSET Row]
           \cup [phase : {"triggered"}, todo : SUBSET Row, row : Row]
           \cup [phase : {"write"}, todo : SUBSET Row, row : Row, next : Int]

\* Types of the variables; a tick holds one row per job at most, the one it handles among them.
TypeOK ==
    /\ now \in 0..MaxTime /\ edits \in 0..MaxEdits /\ faults \in 0..MaxFaults
    /\ workflow \in [Jobs -> {"bare", "active", "deleted"}]
    /\ job \in [Jobs -> [state : {"none", "on", "off", "removed"}, expr : Expressions,
                         next : Int, basis : Expressions]]
    /\ \A p \in Ticks :
         /\ \A x \in Handling(tick[p]) : x \in Row
         /\ \A x, y \in Handling(tick[p]) : x.id = y.id => x = y
         /\ tick[p].phase \in {"triggered", "write"} => tick[p].row \in tick[p].todo
         /\ tick[p].phase = "write" => tick[p].next \in Int
    /\ pending \subseteq Put
    /\ fired \subseteq Jobs \X Int /\ excused \subseteq Jobs \X Int

\* A run is triggered once for each due time of a job, unless two ticks held its row at
\* once, a crash or a failed call kept the row from being rescheduled, or a write brought
\* the due time back after its run: one that was computed before that time had come and
\* landed after it, or one of an expression with a negative field (NextRunIsAhead).
OneRunPerDueTime == again = {}

\* A job is scheduled by its own expression; only a tick that read the row before the
\* expression changed and writes it after can bring back the schedule of the old one.
ScheduleFollowsExpression ==
    [][\A j \in Jobs : job'[j].basis # job'[j].expr /\ job[j].basis = job[j].expr =>
         \E p \in Ticks : /\ tick[p].phase = "write" /\ tick[p].row.id = j
                          /\ tick[p].row.expr # job[j].expr]_vars

\* A field of the expression is a negative number.
Backward(e) == e.minute.n < 0 \/ e.hour.n < 0

\* A job that is due, enabled and of a workflow with an active version is triggered and
\* rescheduled, or changed, unless its expression has a negative field; a job that always
\* fails, or that such a field keeps due for ever, does not keep the others from it.
DueJobIsServed ==
    \A j \in Jobs \ Broken :
      LET waits == IsDue(j) /\ workflow[j] = "active" /\ ~Backward(job[j].expr)
      IN waits ~> ~waits

-----------------------------------------------------------------------------
(* What calculateNextRunAt computes, checked once: from every time of the day    *)
(* that begins with the initial state.                                           *)

\* The expression means this time.
Means(f, k)   == \/ f.form = "any"
                 \/ f.form = "at" /\ k = f.n
                 \/ f.form = "every" /\ k % f.n = 0
Matches(e, t) == t % 2 = 0 /\ Means(e.minute, MinuteOf(t)) /\ Means(e.hour, HourOf(t))

\* t is the first time after now that the expression means.
IsNextMatch(e, from, t) ==
    /\ from < t /\ Matches(e, t)
    /\ \A k \in (from + 1)..(t - 1) : ~Matches(e, k)

SampleTimes == 0..(Day - 1)
Minutes == {[form |-> "any", n |-> 0], [form |-> "beyond", n |-> 0]}
             \cup [form : {"at"}, n : (-2 * MinutesPerHour)..(2 * MinutesPerHour)]
             \cup [form : {"every"}, n : 1..(2 * MinutesPerHour)]
Hours   == {[form |-> "any", n |-> 0], [form |-> "beyond", n |-> 0]}
             \cup [form : {"at"}, n : (-2 * HoursPerDay)..(2 * HoursPerDay)]
             \cup [form : {"every"}, n : 1..(2 * HoursPerDay)]
AllExpressions == [minute : Minutes, hour : Hours]

\* The fields are numbers of the hour and of the day.
Proper(e) == e.minute.n \in 0..MinutesPerHour /\ e.hour.n \in 0..HoursPerDay

\* Whatever the fields carry over, the next run is in the future, unless one of them is
\* negative: then it can be in the past, and every tick finds the job due.  If the numbers
\* are those of an hour and of a day, it is within a day and an hour.
NextRunIsAhead ==
    Init => \A e \in AllExpressions, t \in SampleTimes :
      /\ NextRunAt(e, t) <= t => Backward(e)
      /\ Proper(e) => NextRunAt(e, t) \in (t + 1)..(t + Day + Hour)

\* Expressions whose next run is the next time they mean: a minute of an hour each day, and
\* every n minutes for an n that divides the hour.
Daily(e)    == /\ e.minute.form = "at" /\ e.minute.n \in 0..(MinutesPerHour - 1)
               /\ e.hour.form = "at" /\ e.hour.n \in 0..(HoursPerDay - 1)
Periodic(e) == e.minute.form = "every" /\ MinutesPerHour % e.minute.n = 0 /\ e.hour.form = "any"

\* For these the calculation is exact, across the ends of hours and days.
SimpleSchedulesAreExact ==
    Init => \A e \in AllExpressions, t \in SampleTimes :
      Daily(e) \/ Periodic(e) => IsNextMatch(e, t, NextRunAt(e, t))

\* "Calculate the next run time from a cron expression": the time of the next run is the
\* next one that the expression means.
NextRunIsNextMatch ==
    \A e \in Expressions : IsNextMatch(e, now, NextRunAt(e, now))
=============================================================================

------------------------------- MODULE MCCronJobs -------------------------------
(* Expressions for TLC. *)
EXTENDS CronJobs

Any      == [form |-> "any", n |-> 0]
At(n)    == [form |-> "at", n |-> n]
Every(n) == [form |-> "every", n |-> n]
Cron(minute, hour) == [minute |-> minute, hour |-> hour]

\* Every minute, so that several runs come due before the clock stops; and minute 0 of an
\* hour so far before the day's first that the next run is never ahead.
Schedules == {Cron(Every(1), Any), Cron(At(0), At(-HoursPerDay))}

\* "0 * * * *"
Hourly == {Cron(At(0), Any)}
=============================================================================

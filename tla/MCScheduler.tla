----------------------------- MODULE MCScheduler -----------------------------
(***************************************************************************)
(* Instances of Scheduler for TLC: a job that fires at every instant and   *)
(* one that fires at every other, either of which may be edited to be the  *)
(* other.                                                                  *)
(***************************************************************************)
EXTENDS Scheduler

EveryInstant == 1..(Horizon + 1)
EveryOther   == {t \in 1..(Horizon + 1) : (Horizon + 1 - t) % 2 = 0}

Expressions == {EveryInstant, EveryOther}

\* The first fires at every instant and the second at every other, until they are edited.
JobTables == {[j \in Jobs |-> IF j = 1 THEN EveryInstant ELSE EveryOther]}

Allow(kinds) == [e \in ScheduleEvents |-> IF e \in kinds THEN 1 ELSE 0]

Scenarios == {Allow({"edit", "error", "crash"}),
              Allow({"press", "error", "crash"})}

-----------------------------------------------------------------------------
(* The fields of a schedule. *)

C == INSTANCE CronDays WITH None <- Unset, Refused <- Unset

Bases  == {<< >>} \cup ((0 .. 7) \X (0 .. 7 \cup {Unset}))
Tokens == [base : Bases, step : 1 .. 8]

\* Every token of the field means the weekdays it means to crontab.  The exception is
\* 0-7: Sunday to Sunday is the whole week to crontab, and Sunday alone here.
ASSUME \A token \in Tokens :
    IF token.base = <<0, 7>>
    THEN C!WeekdayToken(token) = {0}
    ELSE C!WeekdayToken(token) = {d \in C!Weekdays : C!Selects(token, d)}

Fields == {C!Star} \cup {<<t>> : t \in [base : Bases \ {<<0, 7>>}, step : {1, 2}]}
Dates  == [day : 1 .. 3, weekday : C!Weekdays]

\* An accepted expression fires on the days crontab would fire on, and only one that
\* restricts both day fields is refused.
ASSUME \A day \in {Unset, {1}, {2, 3}}, field \in Fields :
    LET trigger == C!BuildTrigger(day, field)
    IN  IF trigger = Unset THEN day # Unset /\ field # C!Star
        ELSE \A date \in Dates : C!Fires(trigger, date) <=> C!Crontab(day, field, date)

=============================================================================

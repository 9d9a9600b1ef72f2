------------------------------ MODULE CronDays ------------------------------
(***************************************************************************)
(* The day-of-week field of a schedule (core/cron.py).  crontab numbers    *)
(* weekdays from Sunday and accepts 7 for it, APScheduler numbers them     *)
(* from Monday; and where both day fields are restricted crontab fires on  *)
(* either, APScheduler on both.  The field is translated into a set of     *)
(* weekdays and the second case is refused.                                *)
(*                                                                         *)
(* A token is [base, step]: base is << >> for "*", <<day, None>> for one   *)
(* weekday and <<from, to>> for a range, which may wrap round the week.    *)
(***************************************************************************)
EXTENDS Naturals, Sequences

CONSTANTS None, Refused

DaysPerWeek == 7
SundayAlias == 7
Weekdays    == 0 .. DaysPerWeek - 1        \* crontab's numbers, Sunday first
Star        == <<[base |-> << >>, step |-> 1]>>

Count(from, to) == [i \in 1 .. to - from + 1 |-> from + i - 1]

\* One weekday in crontab's numbers.
WeekdayValue(day) == IF day = SundayAlias THEN 0 ELSE day

\* The weekdays a token runs through, in order, before its step is applied.
Run(token) ==
    IF token.base = << >> THEN Count(0, DaysPerWeek - 1)
    ELSE LET from == WeekdayValue(token.base[1])
         IN  IF token.base[2] = None
             THEN Count(from, IF token.step > 1 THEN DaysPerWeek - 1 ELSE from)
             ELSE LET to == WeekdayValue(token.base[2])
                  IN  IF from <= to THEN Count(from, to)
                      ELSE Count(from, DaysPerWeek - 1) \o Count(0, to)

WeekdayToken(token) ==
    LET run == Run(token)
    IN  {run[i] : i \in {k \in DOMAIN run : (k - 1) % token.step = 0}}

Valid(token) ==
    /\ token.step >= 1
    /\ token.base = << >> \/ \A i \in {1, 2} : token.base[i] \in 0 .. SundayAlias \cup {None}

\* The weekdays of a field, a sequence of tokens.
TranslateDayOfWeek(field) == UNION {WeekdayToken(field[i]) : i \in DOMAIN field}

\* What the scheduler is given: the days of the month, None for any, and the weekdays.
BuildTrigger(day, field) ==
    IF \/ day # None /\ field # Star
       \/ \E i \in DOMAIN field : ~Valid(field[i])
    THEN Refused
    ELSE [day |-> day, weekdays |-> TranslateDayOfWeek(field)]

\* APScheduler fires when every field matches.
Fires(trigger, date) ==
    /\ trigger.day # None => date.day \in trigger.day
    /\ date.weekday \in trigger.weekdays

-----------------------------------------------------------------------------
(* The reference: how crontab reads the same fields. *)

\* Steps round the week from the first weekday, through midnight on Saturday.
Selects(token, d) ==
    LET from  == IF token.base = << >> THEN 0 ELSE token.base[1]
        after == (d + DaysPerWeek - (from % DaysPerWeek)) % DaysPerWeek
        span  == IF token.base = << >> THEN DaysPerWeek - 1
                 ELSE IF token.base[2] = None
                 THEN IF token.step > 1 THEN DaysPerWeek - 1 - (from % DaysPerWeek) ELSE 0
                 ELSE IF token.base = <<0, SundayAlias>> THEN DaysPerWeek - 1
                 ELSE (token.base[2] + DaysPerWeek - (from % DaysPerWeek)) % DaysPerWeek
    IN  after <= span /\ after % token.step = 0

\* Either day field suffices where both are restricted.
Crontab(day, field, date) ==
    LET today == \E i \in DOMAIN field : Selects(field[i], date.weekday)
    IN  IF day = None THEN today
        ELSE IF field = Star THEN date.day \in day
        ELSE date.day \in day \/ today

=============================================================================

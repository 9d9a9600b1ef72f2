------------------------------ MODULE MCOutbox ------------------------------
(***************************************************************************)
(* An instance of Outbox for TLC: one thing that happens once, the two     *)
(* alerts of the sampler, three rows, in seven scenarios.                  *)
(***************************************************************************)
EXTENDS Outbox, TLC

CONSTANTS run

OneRun == {run}

Allow(twice, once, fills) ==
    [e \in Events |-> IF e = "disk" THEN fills ELSE IF e \in twice THEN 2
                      ELSE IF e \in once THEN 1 ELSE 0]

\* Two pairs of lines, and a disk below both, between them in either way, and above them.
Percentages == {1, 2, 3, Unreadable}
Low         == [warning |-> 2, critical |-> 3]
High        == [warning |-> 3, critical |-> 4]
LinesSet    == {Low, High}

Starting(fills, pairs, lefts) == [disk : fills, lines : pairs, left : lefts]

\* Messages: a report under every fault; two requests to send it again, while answers are
\* lost and refused; two of a test.
Messages == {Allow({"report", "error"}, {"configure", "resend", "crash", "loss", "refuse"}, 0),
             Allow({"resend"}, {"report", "loss", "refuse", "error"}, 0),
             Allow({"resend"}, {"test"}, 0)}

\* Alarms, while Telegram refuses and the process dies, and while notifications are switched
\* and messages resent.
Alarms == {Allow({}, {"crash", "refuse"}, 2), Allow({}, {"configure", "resend"}, 2)}

\* The disk is healthy and may fill; it is full all along; the lines are moved around it.
Scenarios ==
    Starting({1}, {Low}, Messages \cup Alarms)
        \cup Starting({3}, {Low}, {Allow({"report"}, {"crash"}, 1)})
        \cup Starting({2}, {Low}, {Allow({"lines"}, {}, 2)})

-----------------------------------------------------------------------------
(* The figures the samples are turned into. *)

F == INSTANCE Reports

Points(n) == [1 .. n -> 0 .. 3]

\* The slope is the one of the least-squares line, and no later or earlier clock changes it.
ASSUME \A n \in 2 .. 3 : \A x, y \in Points(n) :
    LET slope == F!Slope(x, y)
        later == F!Slope([i \in 1 .. n |-> x[i] + 5], y)
    IN  IF \A i \in 1 .. n : x[i] = x[1] THEN slope[2] = 0
        ELSE slope[2] > 0 /\ later = slope /\ F!BestFit(x, y)

Samples(n) == {s \in [1 .. n -> [at : 0 .. 2, used : 0 .. 3, free : -1 .. 1]] :
                 \A i, j \in 1 .. n : i < j => s[i].at <= s[j].at}

\* A date is announced only for a disk that fills: with room left and more used by the
\* last sample than by the first when there are two; and what has no room is full now.
ASSUME \A n \in 0 .. 3 : \A s \in Samples(n) :
    LET forecast == F!LinearForecast(s)
        full     == n > 0 /\ s[IF n > 0 THEN n ELSE 1].free <= 0
    IN  /\ forecast.why = "full" <=> full
        /\ forecast.why = "grows" => forecast.days[1] > 0 /\ forecast.days[2] > 0
        /\ (n = 2 /\ ~full) => (forecast.why = "grows" <=> s[1].at < s[2].at /\ s[1].used < s[2].used)

\* A disk that reserves blocks, or reports more free than there is, stays within bounds.
ASSUME \A total \in 1 .. 6, free \in -2 .. 8 :
    LET percent == F!EffectiveUsedPercent(total, free)
    IN  /\ percent \in 0 .. 10000
        /\ percent = 10000 <=> free <= 0
        /\ free < 8 => percent >= F!EffectiveUsedPercent(total, free + 1)

\* One half of the page does not depend on whether the other can be had.
ASSUME \A enabled \in BOOLEAN, quota \in {None, "quota"} :
    F!Live([total |-> 4, free |-> 1], enabled, quota) =
        [local |-> [percent |-> 7500], remote |-> F!Live(None, enabled, quota).remote]

=============================================================================

------------------------------- MODULE Reports -------------------------------
(***************************************************************************)
(* What the dashboard works out from what it lists: the comparison of the  *)
(* host with the remote (services/sync_service.py) and the figures of the  *)
(* storage page (services/storage_service.py), down to the forecast of the *)
(* day the disk is full.  Everything here reads and nothing writes.        *)
(*                                                                         *)
(* A listing maps filenames to sizes; a sample is [at, used, free], a time *)
(* and two amounts; a fraction is a pair <<numerator, denominator>>.       *)
(***************************************************************************)
EXTENDS Integers, Sequences, FiniteSets, FiniteSetsExt

CONSTANTS None

States == {"in_sync", "local_only", "remote_only", "size_mismatch"}

CompareOne(f, local, remote) ==
    IF f \notin DOMAIN local THEN "remote_only"
    ELSE IF f \notin DOMAIN remote THEN "local_only"
    ELSE IF local[f] = remote[f] THEN "in_sync" ELSE "size_mismatch"

\* The remote as far as it is known: nothing of it when it is off or cannot be listed.
RemoteEntries(remote) == IF remote = None THEN << >> ELSE remote

Compare(local, remote) ==
    LET there    == RemoteEntries(remote)
        state    == [f \in DOMAIN local \cup DOMAIN there |-> CompareOne(f, local, there)]
        count(s) == Cardinality({f \in DOMAIN state : state[f] = s})
    IN  [entries |-> state, counts |-> [s \in States |-> count(s)]]

-----------------------------------------------------------------------------

\* Of the capacity, what a backup cannot use, in hundredths of a percent.
EffectiveUsedPercent(total, free) ==
    IF total <= 0 THEN None
    ELSE LET used == IF free > total THEN 0 ELSE IF free < 0 THEN total ELSE total - free
         IN  (2 * 10000 * used + total) \div (2 * total)

RemoteResponse(enabled, quota) ==
    [configured |-> enabled, quota |-> IF enabled THEN quota ELSE None]

\* Each half of the page is there whether or not the other can be had.
Live(local, enabled, quota) ==
    [local  |-> IF local = None THEN None
                ELSE [percent |-> EffectiveUsedPercent(local.total, local.free)],
     remote |-> RemoteResponse(enabled, quota)]

-----------------------------------------------------------------------------
(* The forecast. *)

Sum(s) == MapThenSumSet(LAMBDA i : s[i], DOMAIN s)

Xs(samples) == [i \in DOMAIN samples |-> samples[i].at - samples[1].at]
Ys(samples) == [i \in DOMAIN samples |-> samples[i].used]

\* The slope of the least-squares line through the points, as a fraction; the
\* denominator is 0 when all the samples were taken at once.
Slope(x, y) ==
    LET n == Len(x)
        products(a, b) == [i \in DOMAIN a |-> a[i] * b[i]]
    IN  <<n * Sum(products(x, y)) - Sum(x) * Sum(y), n * Sum(products(x, x)) - Sum(x) * Sum(x)>>

\* Why there is no date, or the days that are left, as a fraction.
LinearForecast(samples) ==
    IF samples = << >> THEN [why |-> "no_samples"]
    ELSE LET latest == samples[Len(samples)]
             slope  == Slope(Xs(samples), Ys(samples))
         IN  CASE latest.free <= 0 -> [why |-> "full", days |-> <<0, 1>>]
               [] latest.free > 0 /\ Len(samples) < 2 -> [why |-> "one_sample"]
               [] latest.free > 0 /\ Len(samples) >= 2 /\ slope[2] = 0 -> [why |-> "one_moment"]
               [] latest.free > 0 /\ Len(samples) >= 2 /\ slope[2] # 0 /\ slope[1] <= 0 ->
                    [why |-> "stable"]
               [] OTHER -> [why |-> "grows", days |-> <<latest.free * slope[2], slope[1]>>]

-----------------------------------------------------------------------------
(* The reference for the slope: no other fits better. *)

\* The squared distances to the line of slope a/b through the mean point, scaled.
Misfit(x, y, a, b) ==
    LET n == Len(x)
        off(i) == b * (n * y[i] - Sum(y)) - a * (n * x[i] - Sum(x))
    IN  Sum([i \in DOMAIN x |-> off(i) * off(i)])

BestFit(x, y) ==
    LET slope == Slope(x, y)
    IN  \A d \in {-1, 1} :
            Misfit(x, y, slope[1], slope[2]) < Misfit(x, y, slope[1] + d, slope[2])

=============================================================================

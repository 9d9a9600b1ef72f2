----------------------------- MODULE RunTargets -----------------------------
(***************************************************************************)
(* Which guests a run is about and with which options, as decided when the *)
(* run is created (services/backup_service.py): from the selector of a job *)
(* and the allow-list at that moment, or from the request of an operator.  *)
(*                                                                         *)
(* `inventory` maps each known guest to whether backups of it are enabled; *)
(* `named` is the list of guests of the job or of the request.             *)
(***************************************************************************)
EXTENDS Naturals, Sequences, FiniteSets

CONSTANTS None, Refused

Values(s) == {s[i] : i \in DOMAIN s}

EnabledGuests(inventory) == {g \in DOMAIN inventory : inventory[g]}

\* The targets and the guests reported as skipped.
ResolveJobTargets(selector, named, inventory) ==
    LET enabled   == EnabledGuests(inventory)
        usable(g) == g \in enabled
        idle(g)   == g \notin enabled
    IN  CASE selector = "all" ->
               [targets |-> enabled, skipped |-> <<>>]
          [] selector = "exclude" ->
               [targets |-> enabled \ Values(named), skipped |-> <<>>]
          [] selector = "include" ->
               [targets |-> Values(SelectSeq(named, usable)), skipped |-> SelectSeq(named, idle)]

\* Why a guest was skipped.
SkipReason(g, inventory) == IF g \in DOMAIN inventory THEN "disabled" ELSE "unknown"

\* An operator gets all of it or nothing.
ResolveExplicitTargets(requested, inventory) ==
    IF Values(requested) \subseteq EnabledGuests(inventory) THEN requested ELSE Refused

\* Zero and FALSE are values; an empty name says nothing.
Given(value, default)    == IF value # None THEN value ELSE default
NonEmpty(value, default) == IF value \notin {None, ""} THEN value ELSE default

\* The options of a run an operator starts; retention counts are always the global ones.
ManualOptions(request, settings) ==
    [mode    |-> NonEmpty(request.mode, settings.mode),
     storage |-> NonEmpty(request.storage, settings.storage),
     threads |-> Given(request.threads, settings.threads),
     bwlimit |-> Given(request.bwlimit, settings.bwlimit),
     upload  |-> Given(request.upload, settings.upload),
     keep    |-> settings.keep]

\* The run that results, or None.
RequestManualRun(request, inventory, settings) ==
    LET targets == ResolveExplicitTargets(request.targets, inventory)
    IN  IF targets = Refused THEN None
        ELSE [targets |-> targets, options |-> ManualOptions(request, settings)]

=============================================================================

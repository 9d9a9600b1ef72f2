--------------------------- MODULE RetentionProofs ---------------------------
(***************************************************************************)
(* Theorems about Retention, for every set of backups, guests and          *)
(* policies, every number of retries and every budget of events.           *)
(***************************************************************************)
EXTENDS Retention, FiniteSetTheorems, TLAPS

(***************************************************************************)
(* Finite sets of numbers                                                  *)
(***************************************************************************)
\* A non-empty finite set of numbers has a greatest element: of its final segments, one
\* has none below it.
LEMMA GreatestOf ==
    ASSUME NEW S \in SUBSET Nat, IsFiniteSet(S), S # {}
    PROVE  \E m \in S : \A n \in S : n <= m
<1> DEFINE From(n) == {x \in S : x >= n}
           T == {From(n) : n \in S}
<1>1. IsWellFoundedOn(StrictSubsetOrdering(S), FiniteSubsetsOf(S))
  BY FS_StrictSubsetOrderingWellFounded
<1>2. T \subseteq FiniteSubsetsOf(S)
  BY FS_Subset DEF FiniteSubsetsOf
<1>3. T # {}
  OBVIOUS
<1>4. PICK U \in T : \A V \in T : <<V, U>> \notin StrictSubsetOrdering(S)
  <2> HIDE DEF T
  <2>1. QED
    BY <1>1, <1>2, <1>3, WFMin
<1>5. PICK m \in S : U = From(m)
  BY <1>4
<1>6. ASSUME NEW n \in S, n > m PROVE FALSE
  <2>0. m \in Nat /\ n \in Nat /\ \A x \in S : x \in Nat
    OBVIOUS
  <2>1. \A x \in From(n) : x \in From(m)
    BY <1>6, <2>0
  <2>2. m \in From(m) /\ m \notin From(n)
    BY <1>6, <2>0
  <2>3. From(n) \subseteq From(m) /\ From(n) # From(m)
    BY <2>1, <2>2
  <2>4. <<From(n), From(m)>> \in StrictSubsetOrdering(S)
    BY <2>3 DEF StrictSubsetOrdering
  <2>5. QED
    BY <1>4, <1>5, <2>4
<1>7. QED
  BY <1>6

\* Of a finite set, the k greatest elements.
LEMMA TopOf ==
    ASSUME NEW S \in SUBSET Nat, IsFiniteSet(S), NEW k \in Nat, k <= Cardinality(S)
    PROVE  \E U \in SUBSET S : /\ Cardinality(U) = k
                               /\ \A u \in U : \A x \in S : x > u => x \in U
<1> DEFINE Top(U) == \A u \in U : \A x \in S : x > u => x \in U
           Good == {j \in 0..k : \E U \in SUBSET S : Cardinality(U) = j /\ Top(U)}
<1>1. IsFiniteSet(Good) /\ Good \in SUBSET Nat
  <2>1. IsFiniteSet(0..k)
    BY FS_Interval
  <2>2. QED
    BY <2>1, FS_Subset
<1>2. 0 \in Good
  <2>1. Cardinality({}) = 0 /\ Top({}) /\ {} \in SUBSET S
    BY FS_EmptySet
  <2>2. QED
    BY <2>1
<1>3. PICK m \in Good : \A j \in Good : j <= m
  <2> HIDE DEF Good
  <2>1. QED
    BY <1>1, <1>2, GreatestOf
<1>4. PICK U \in SUBSET S : Cardinality(U) = m /\ Top(U)
  BY <1>3
<1>5. ASSUME m # k PROVE FALSE
  <2>1. m < k /\ m \in Nat /\ m + 1 \in 0..k
    BY <1>3, <1>5
  <2>2. IsFiniteSet(U) /\ IsFiniteSet(S \ U) /\ S \ U \in SUBSET Nat
    BY FS_Subset
  <2>3. S \ U # {}
    <3>1. U # S
      <4> HIDE DEF Good
      <4>1. Cardinality(S) \in Nat
        BY FS_CardinalityType
      <4>2. QED
        BY <1>4, <2>1, <4>1
    <3>2. QED
      BY <3>1
  <2> DEFINE R == S \ U
  <2>4. PICK b \in R : \A x \in R : x <= b
    <3> HIDE DEF R
    <3>1. QED
      BY <2>2, <2>3, GreatestOf DEF R
  <2>5. Cardinality(U \cup {b}) = m + 1
    BY <1>4, <2>2, <2>4, FS_AddElement
  <2>6. Top(U \cup {b})
    <3>1. ASSUME NEW x \in S, x > b PROVE x \in U
      <4>1. b \in Nat /\ x \in Nat
        BY <2>4
      <4>2. QED
        BY <2>4, <3>1, <4>1
    <3>2. QED
      BY <1>4, <3>1
  <2>7. U \cup {b} \in SUBSET S
    BY <2>4
  <2>8. m + 1 \in Good
    BY <2>1, <2>5, <2>6, <2>7
  <2>9. QED
    BY <1>3, <2>1, <2>8
<1>6. QED
  BY <1>4, <1>5

(***************************************************************************)
(* What is planned                                                         *)
(***************************************************************************)
LEMMA Parameters ==
    /\ Backups \subseteq Nat /\ None \notin Backups /\ None \notin Backups \X Places
    /\ MaxRetries \in Nat /\ Guest \in [Backups -> Guests]
  BY BackupsAssumption, RetriesAssumption, GuestAssumption

\* The policy of a pass is the settings, but for the counts, which are numbers.
LEMMA PolicyType ==
    ASSUME settings \in Policies, NEW c, Policy(c) # Unresolved
    PROVE  /\ Policy(c).local \in Nat /\ Policy(c).remote \in Nat
           /\ Policy(c).dry = settings.dry /\ Policy(c).deletes = settings.deletes
<1> DEFINE global == [local |-> settings.local, remote |-> settings.remote]
           pair == ResolvePolicy(Run[c], global)
<1>1. settings \in [local : Nat \ {0}, remote : Nat, deletes : BOOLEAN, dry : BOOLEAN]
  BY PoliciesAssumption
<1>2. \A r : Counts(r) = None \/ (Counts(r).local \in Nat /\ Counts(r).remote \in Nat)
  BY DEF Counts
<1>3. global.local \in Nat /\ global.remote \in Nat
  BY <1>1
<1>4. pair = None \/ (pair.local \in Nat /\ pair.remote \in Nat)
  <2> HIDE DEF global
  <2>1. QED
    BY <1>2, <1>3 DEF ResolvePolicy, RawCounts, LinkedCounts, Unresolved
<1>5. pair # None /\ Policy(c) = [settings EXCEPT !.local = pair.local, !.remote = pair.remote]
  BY DEF Policy, Unresolved
<1> HIDE DEF pair
<1>6. QED
  BY <1>1, <1>4, <1>5

LEMMA PlannedCopy ==
    ASSUME NEW c, NEW k \in Plan(c)
    PROVE  /\ c # None /\ Policy(c) # Unresolved /\ ~Policy(c).dry
           /\ k \in Made \X Places /\ k = <<k[1], k[2]>>
           /\ k[1] \in Rankable(Guest[c], k[2]) /\ k[1] \notin pinned \cup restoring
           /\ Rank(k[1], k[2]) >= Keep(k[2], Policy(c))
           /\ k[2] = "host" => Safe(k[1]) /\ Replaced(Guest[c], Policy(c).local)
           /\ k[2] = "drive" => Policy(c).deletes
<1>1. c # None /\ Policy(c) # Unresolved /\ ~Policy(c).dry
      /\ k \in LocalPlan(Guest[c], Policy(c)) \X {"host"}
               \cup RemotePlan(Guest[c], Policy(c)) \X {"drive"}
  BY DEF Plan, Unresolved
<1>2. CASE k \in LocalPlan(Guest[c], Policy(c)) \X {"host"}
  <2>1. k = <<k[1], k[2]>> /\ k[2] = "host" /\ k[1] \in LocalPlan(Guest[c], Policy(c))
    BY <1>2
  <2>2. QED
    BY <1>1, <2>1 DEF LocalPlan, Rankable, HasActiveRestore, Keep, Places
<1>3. CASE k \in RemotePlan(Guest[c], Policy(c)) \X {"drive"}
  <2>1. k = <<k[1], k[2]>> /\ k[2] = "drive" /\ k[1] \in RemotePlan(Guest[c], Policy(c))
    BY <1>3
  <2>2. QED
    BY <1>1, <2>1 DEF RemotePlan, Rankable, HasActiveRestore, Keep, Places
<1>4. QED
  BY <1>1, <1>2, <1>3

\* A copy that is planned has as many newer ones as its policy keeps, and, if it is a
\* local one, these need no upload any more.
LEMMA EnoughKept ==
    ASSUME TypeOK, RecordsAgree, NEW c \in Backups, NEW k \in Plan(c)
    PROVE  \E enough \in SUBSET {a \in Newer(k) : Recorded(a, k[2])} :
              /\ Cardinality(enough) = Keep(k[2], Policy(c))
              /\ k[2] = "host" => \A a \in enough \cup {k[1]} : Safe(a)
<1> DEFINE b == k[1]
           place == k[2]
           g == Guest[c]
           R == Rankable(g, place)
           S == {a \in R : a > b}
           n == Keep(place, Policy(c))
<1>1. /\ Policy(c) # Unresolved /\ b \in R /\ place \in Places /\ b \in Made
      /\ Rank(b, place) >= n
      /\ place = "host" => Safe(b) /\ Replaced(g, Policy(c).local)
  BY PlannedCopy
<1>2. R \subseteq Made /\ Made \subseteq Nat /\ IsFiniteSet(Made) /\ Guest[b] = g
      /\ \A a \in R : Guest[a] = g
  BY <1>1, Parameters DEF Rankable, Made, RecordsAgree
<1>3. n \in Nat
  BY <1>1, PolicyType DEF Keep, TypeOK
<1>4. S \in SUBSET Nat /\ IsFiniteSet(S) /\ Rank(b, place) = Cardinality(S)
  <2>1. S \subseteq Made
    BY <1>2
  <2>2. QED
    BY <1>2, <2>1, FS_Subset DEF Rank
<1>5. PICK U \in SUBSET S : Cardinality(U) = n /\ \A u \in U : \A x \in S : x > u => x \in U
  <2>1. n <= Cardinality(S)
    <3>1. Cardinality(S) \in Nat
      BY <1>4, FS_CardinalityType
    <3> HIDE DEF n, S
    <3>2. QED
      BY <1>1, <1>3, <1>4, <3>1
  <2> HIDE DEF n, S
  <2>2. QED
    BY <1>3, <1>4, <2>1, TopOf
<1>6. U \subseteq {a \in Newer(k) : Recorded(a, place)}
  BY <1>2 DEF Newer, Rankable
<1>7. ASSUME place = "host", NEW u \in U PROVE Safe(u)
  <2> DEFINE X == {a \in Rankable(Guest[u], place) : a > u}
  <2>1. u \in R /\ u > b /\ Guest[u] = g /\ u \in Nat /\ b \in Nat
    BY <1>1, <1>2
  <2>2. X \subseteq U \ {u}
    <3>1. ASSUME NEW x \in X PROVE x \in U /\ x # u
      <4>1. x \in R /\ x > u /\ x \in Nat
        BY <1>2, <2>1
      <4>2. x > b /\ x # u
        BY <2>1, <4>1
      <4>3. x \in S
        BY <4>1, <4>2
      <4>4. QED
        BY <1>5, <4>1, <4>2, <4>3
    <3>2. QED
      BY <3>1
  <2>3. IsFiniteSet(U) /\ IsFiniteSet(U \ {u})
    BY <1>4, FS_Subset
  <2>4. Cardinality(U \ {u}) = n - 1
    BY <1>5, <2>3, FS_RemoveElement
  <2>5. Cardinality(X) <= n - 1 /\ Cardinality(X) \in Nat
    BY <2>2, <2>3, <2>4, FS_Subset, FS_CardinalityType
  <2>6. Rank(u, "host") = Cardinality(X)
    BY <1>7 DEF Rank
  <2>7. n = Policy(c).local
    BY <1>7 DEF Keep
  <2> HIDE DEF X, n
  <2>8. Rank(u, "host") < Policy(c).local
    BY <1>3, <2>5, <2>6, <2>7
  <2>9. QED
    BY <1>1, <1>7, <2>1, <2>8 DEF Replaced
<1>8. QED
  BY <1>1, <1>5, <1>6, <1>7
(***************************************************************************)
(* What the plan depends on                                                *)
(***************************************************************************)
\* What retention knows of the backups of g is the same after the step.
Alike(g) ==
    \A b \in Backups : Guest[b] = g =>
        /\ upload'[b] = upload[b] /\ (b \in pinned' <=> b \in pinned)
        /\ (b \in restoring' <=> b \in restoring)
        /\ \A p \in Places : (Recorded(b, p))' <=> Recorded(b, p)

LEMMA AlikeSets ==
    ASSUME NEW g, Alike(g)
    PROVE  /\ Existing(g)' = Existing(g) /\ Newest(g)' = Newest(g)
           /\ \A p \in Places : Rankable(g, p)' = Rankable(g, p)
           /\ \A b \in Backups, p \in Places : Guest[b] = g => Rank(b, p)' = Rank(b, p)
           /\ \A b \in Backups : Guest[b] = g => (Safe(b)' <=> Safe(b))
<1>1. Existing(g)' = Existing(g)
  BY DEF Alike, Existing, Exists, Made
<1>2. Newest(g)' = Newest(g)
  BY <1>1 DEF Newest
<1>3. ASSUME NEW p \in Places PROVE Rankable(g, p)' = Rankable(g, p)
  BY DEF Alike, Rankable, Made
<1>4. ASSUME NEW b \in Backups, NEW p \in Places, Guest[b] = g PROVE Rank(b, p)' = Rank(b, p)
  BY <1>3, <1>4 DEF Rank
<1>5. ASSUME NEW b \in Backups, Guest[b] = g PROVE Safe(b)' <=> Safe(b)
  BY <1>5 DEF Alike, Safe
<1>6. QED
  BY <1>1, <1>2, <1>3, <1>4, <1>5

LEMMA AlikePlan ==
    ASSUME NEW c \in Backups, Alike(Guest[c]), settings' = settings
    PROVE  Policy(c)' = Policy(c) /\ Plan(c)' = Plan(c)
<1> DEFINE g == Guest[c]
<1>p. Policy(c)' = Policy(c)
  BY DEF Policy
<1>r. \A p \in Places : Rankable(g, p)' = Rankable(g, p) /\ Rankable(g, p) \subseteq Backups
      /\ \A b \in Rankable(g, p) : Guest[b] = g
  BY AlikeSets DEF Rankable, Made
<1>k. /\ \A p \in Places : \A b \in Rankable(g, p) : Rank(b, p)' = Rank(b, p)
      /\ \A p \in Places : \A b \in Rankable(g, p) : Safe(b)' <=> Safe(b)
      /\ \A p \in Places : \A b \in Rankable(g, p) : b \in restoring' <=> b \in restoring
  BY <1>r, AlikeSets DEF Alike
<1>h. "host" \in Places /\ "drive" \in Places
  BY DEF Places
<1>1. ASSUME NEW policy PROVE LocalPlan(g, policy)' = LocalPlan(g, policy)
  <2>1. Replaced(g, policy.local)' <=> Replaced(g, policy.local)
    BY <1>r, <1>k, <1>h DEF Replaced
  <2>2. QED
    BY <1>r, <1>k, <1>h, <2>1 DEF LocalPlan, HasActiveRestore
<1>2. ASSUME NEW policy PROVE RemotePlan(g, policy)' = RemotePlan(g, policy)
  BY <1>r, <1>k, <1>h DEF RemotePlan, HasActiveRestore
<1>3. PICK policy : policy = Policy(c)
  OBVIOUS
<1>4. LocalPlan(g, Policy(c))' = LocalPlan(g, Policy(c))
      /\ RemotePlan(g, Policy(c))' = RemotePlan(g, Policy(c))
  <2>1. policy = Policy(c)'
    BY <1>p, <1>3
  <2>2. LocalPlan(g, Policy(c))' = LocalPlan(g, policy)'
        /\ RemotePlan(g, Policy(c))' = RemotePlan(g, policy)'
    BY <2>1 DEF LocalPlan, RemotePlan
  <2>3. QED
    BY <1>1, <1>2, <1>3, <2>2
<1>5. QED
  BY <1>p, <1>4 DEF Plan

LEMMA PlanOfNone == Plan(None) = {} /\ Plan(None)' = {}
  BY DEF Plan, Unresolved

\* The newest backup of g, if it has any.
LEMMA MaxIs ==
    ASSUME NEW E \in SUBSET Nat, NEW m \in E, \A a \in E : a <= m
    PROVE  (CHOOSE b \in E : \A a \in E : a <= b) = m
<1>1. \A b \in E : (\A a \in E : a <= b) => b = m
  <2>1. SUFFICES ASSUME NEW b \in E, \A a \in E : a <= b PROVE b = m
    OBVIOUS
  <2>2. m <= b /\ b <= m /\ m \in Nat /\ b \in Nat
    BY <2>1
  <2>3. QED
    BY <2>2
<1>2. QED
  BY <1>1

LEMMA NewestIs ==
    ASSUME RecordsAgree, NEW g
    PROVE  /\ Existing(g) \subseteq Made /\ Made \subseteq Backups /\ Backups \subseteq Nat
           /\ \/ Existing(g) = {} /\ Newest(g) = None
              \/ /\ Newest(g) \in Existing(g) /\ Guest[Newest(g)] = g /\ Newest(g) # None
                 /\ \A a \in Existing(g) : a <= Newest(g)
<1>1. Existing(g) \subseteq Made /\ Made \subseteq Backups /\ Backups \subseteq Nat
  BY Parameters DEF Existing, Made
<1>2. CASE Existing(g) = {}
  BY <1>1, <1>2 DEF Newest
<1>3. CASE Existing(g) # {}
  <2>1. IsFiniteSet(Existing(g)) /\ Existing(g) \in SUBSET Nat
    BY <1>1, FS_Subset DEF RecordsAgree
  <2>2. \E m \in Existing(g) : \A a \in Existing(g) : a <= m
    BY <1>3, <2>1, GreatestOf
  <2>3. Newest(g) \in Existing(g) /\ \A a \in Existing(g) : a <= Newest(g)
    BY <1>3, <2>2 DEF Newest
  <2>4. Guest[Newest(g)] = g /\ Newest(g) # None
    BY <1>1, <2>3, Parameters DEF Existing
  <2>5. QED
    BY <1>1, <2>3, <2>4
<1>4. QED
  BY <1>2, <1>3
(***************************************************************************)
(* Steps that change what retention knows                                  *)
(***************************************************************************)
FactsStay ==
    /\ UNCHANGED <<upload, linked, gone, ended, pinned, restoring, settings>>
    /\ files' \subseteq files

\* A change that concerns one backup.
ChangeOf(b) ==
    \/ Finish(b) \/ Uploaded(b) \/ Doubt(b) \/ Reopened(b) \/ Pin(b) \/ OperatorDeletes(b)
    \/ RestoreBegins(b) \/ Fetch(b) \/ RestoreEnds(b)

LEMMA FactEffect ==
    ASSUME [Next]_vars
    PROVE  FactsStay \/ Mark \/ Configure \/ \E b \in Backups : ChangeOf(b)
<1>1. CASE Changes
  BY <1>1 DEF Changes, ChangeOf
<1>2. CASE Boot \/ \E k \in Keys : TimerFires(k)
  BY <1>2 DEF Boot, TimerFires, FactsStay, factVars
<1>3. CASE Worker
  <2>1. CASE Drain \/ Scan \/ Revalidate \/ EndPass \/ WorkDone
    BY <2>1 DEF Drain, Scan, Revalidate, EndPass, WorkDone, FactsStay, factVars
  <2>2. ASSUME NEW raw \in Backups, RunQueued(raw) \/ Sweep(raw) \/ PassOver(raw)
        PROVE  FactsStay
    BY <2>2 DEF RunQueued, Sweep, ApplyOne, PassOver, FactsStay, factVars
  <2>3. CASE AgentDeletes
    BY <2>3 DEF AgentDeletes, FactsStay
  <2>4. QED
    BY <1>3, <2>1, <2>2, <2>3 DEF Worker
<1>4. CASE Failure
  <2>1. CASE AgentFails
    BY <2>1 DEF AgentFails, FactsStay
  <2>2. CASE Crash \/ ScanFails \/ PassFails \/ \E raw \in Backups : TakeFails(raw)
    BY <2>2 DEF Crash, ScanFails, PassFails, TakeFails, FactsStay, factVars
  <2>3. QED
    BY <1>4, <2>1, <2>2 DEF Failure
<1>5. CASE UNCHANGED vars
  BY <1>5 DEF vars, FactsStay, factVars
<1>6. QED
  BY <1>1, <1>2, <1>3, <1>4, <1>5 DEF Next

LEMMA StaysAlike ==
    ASSUME FactsStay, NEW g
    PROVE  Alike(g) /\ settings' = settings
  BY DEF FactsStay, Alike, Recorded, Made

\* Nothing changes but for the guest of the backup.
LEMMA OthersAlike ==
    ASSUME TypeOK, NEW b \in Backups, ChangeOf(b), NEW g, Guest[b] # g
    PROVE  Alike(g) /\ settings' = settings
<1>t. upload \in [Backups -> {"none", "not_required", "wanted", "uploaded"}]
  BY DEF TypeOK
<1>1. settings' = settings
  BY DEF ChangeOf, Finish, Uploaded, Doubt, Reopened, Pin, OperatorDeletes, RestoreBegins, Fetch,
     RestoreEnds
<1>2. SUFFICES ASSUME NEW a \in Backups, a # b
               PROVE  /\ upload'[a] = upload[a] /\ (a \in pinned' <=> a \in pinned)
                      /\ (a \in restoring' <=> a \in restoring)
                      /\ \A p \in Places : (Recorded(a, p))' <=> Recorded(a, p)
  BY <1>1 DEF Alike
<1>3. /\ upload'[a] = upload[a] /\ (a \in ended' <=> a \in ended)
      /\ (a \in pinned' <=> a \in pinned) /\ (a \in restoring' <=> a \in restoring)
      /\ \A p \in Places : <<a, p>> \in gone' <=> <<a, p>> \in gone
  <2>1. CASE Finish(b) \/ Uploaded(b) \/ Doubt(b) \/ Reopened(b)
    BY <1>2, <1>t, <2>1 DEF Finish, Uploaded, Doubt, Reopened
  <2>2. CASE Pin(b) \/ RestoreBegins(b) \/ RestoreEnds(b)
    BY <1>2, <1>t, <2>2 DEF Pin, RestoreBegins, RestoreEnds
  <2>3. CASE Fetch(b) \/ OperatorDeletes(b)
    BY <1>2, <1>t, <2>3 DEF Fetch, OperatorDeletes
  <2>4. QED
    BY <2>1, <2>2, <2>3 DEF ChangeOf
<1>4. \A p \in Places : (Recorded(a, p))' <=> Recorded(a, p)
  BY <1>3 DEF Recorded, Made
<1>5. QED
  BY <1>3, <1>4

(***************************************************************************)
(* Types                                                                   *)
(***************************************************************************)
Uploads   == {"none", "not_required", "wanted", "uploaded"}
Stations  == {"down", "scan", "next", "pass", "delete", "mark", "idle"}

FactsType ==
    /\ upload \in [Backups -> Uploads]
    /\ linked \subseteq Made /\ ended \subseteq Made /\ pinned \subseteq Made
    /\ restoring \subseteq Made
    /\ gone \subseteq Made \X Places /\ files \subseteq Made \X Places
    /\ settings \in Policies

BellType ==
    /\ sweep \in BOOLEAN /\ pending \subseteq Made
    /\ attempts \in [Keys -> 0..MaxRetries] /\ timers \subseteq Made \cup {None}

QueueType ==
    sweeping \in BOOLEAN /\ work \subseteq Made /\ processed \subseteq Made

PassType ==
    /\ pc \in Stations /\ booting \in BOOLEAN /\ failed \in BOOLEAN
    /\ trigger \in Made \cup {None} /\ (trigger = None <=> ~Passing)
    /\ cand \subseteq Made \X Places
    /\ hand \in (Made \X Places) \cup {None} /\ (hand = None <=> pc \notin {"delete", "mark"})

LEMMA TypeParts ==
    /\ TypeOK <=> /\ FactsType /\ BellType /\ QueueType /\ PassType
                  /\ lapsed \subseteq Guests /\ left \in [Events -> Nat]
    /\ TypeOK' <=> /\ FactsType' /\ BellType' /\ QueueType' /\ PassType'
                   /\ lapsed' \subseteq Guests /\ left' \in [Events -> Nat]
  BY DEF TypeOK, FactsType, BellType, QueueType, PassType, Uploads, Stations

LEMMA Marked ==
    ASSUME TypeOK, Mark
    PROVE  /\ hand \in Made \X Places /\ hand[1] \in Made /\ hand[2] \in Places
           /\ hand = <<hand[1], hand[2]>> /\ gone' = gone \cup {hand}
           /\ \A a : a # hand[1] => (a \in ended' <=> a \in ended)
           /\ hand[1] \in ended' => <<hand[1], "host">> \in gone'
           /\ ended' \subseteq ended \cup {hand[1]}
           /\ UNCHANGED <<upload, linked, pinned, restoring, settings, files>>
<1>1. hand \in Made \X Places
  BY DEF Mark, TypeOK
<1>2. RefreshStatus(hand[1]) /\ gone' = gone \cup {hand}
      /\ UNCHANGED <<upload, linked, pinned, restoring, settings, files>>
  BY DEF Mark
<1>3. "host" \in Places
  BY DEF Places
<1>4. hand[1] \in ended' => <<hand[1], "host">> \in gone'
  BY <1>2, <1>3 DEF RefreshStatus
<1>5. /\ \A a : a # hand[1] => (a \in ended' <=> a \in ended)
      /\ ended' \subseteq ended \cup {hand[1]}
  BY <1>2 DEF RefreshStatus
<1>6. QED
  BY <1>1, <1>2, <1>4, <1>5

LEMMA FactsStep ==
    ASSUME TypeOK, [Next]_vars PROVE FactsType' /\ Made \subseteq Made'
<1>t. FactsType
  BY TypeParts
<1> USE DEF FactsType, Uploads, Made
<1>1. CASE FactsStay
  BY <1>1, <1>t DEF FactsStay
<1>2. CASE Configure
  BY <1>2, <1>t DEF Configure
<1>3. CASE Mark
  BY <1>3, <1>t, Marked DEF Mark
<1>4. ASSUME NEW b \in Backups, ChangeOf(b) PROVE FactsType' /\ Made \subseteq Made'
  <2>p. "host" \in Places /\ "drive" \in Places
    BY DEF Places
  <2>1. CASE Finish(b)
    BY <1>t, <2>1, <2>p DEF Finish
  <2>2. CASE Uploaded(b)
    BY <1>t, <2>2, <2>p DEF Uploaded
  <2>3. CASE Doubt(b) \/ Reopened(b)
    BY <1>t, <2>3 DEF Doubt, Reopened
  <2>4. CASE Pin(b) \/ RestoreBegins(b) \/ RestoreEnds(b)
    BY <1>t, <2>4 DEF Pin, RestoreBegins, RestoreEnds
  <2>5. CASE Fetch(b)
    BY <1>t, <2>5, <2>p DEF Fetch
  <2>6. CASE OperatorDeletes(b)
    <3>1. <<b, "host">> \in files
      BY <2>6 DEF OperatorDeletes
    <3>2. b \in Made
      BY <1>t, <3>1
    <3>3. QED
      BY <1>t, <2>6, <2>p, <3>2 DEF OperatorDeletes
  <2>7. QED
    BY <1>4, <2>1, <2>2, <2>3, <2>4, <2>5, <2>6 DEF ChangeOf
<1>5. QED
  BY <1>1, <1>2, <1>3, <1>4, FactEffect

\* The rows go on agreeing.
LEMMA RecordsStep == ASSUME TypeOK, RecordsAgree, InHand \subseteq Plan(trigger), [Next]_vars
                     PROVE  RecordsAgree'
<1>t. FactsType /\ FactsType' /\ Made \subseteq Made'
  BY TypeParts, FactsStep
<1>1. ASSUME Made' = Made, \A b \in ended' : <<b, "host">> \in gone' /\ b \notin restoring'
      PROVE  RecordsAgree'
  BY <1>1 DEF RecordsAgree
<1>2. CASE FactsStay
  BY <1>1, <1>2 DEF FactsStay, RecordsAgree, Made
<1>3. CASE Configure
  BY <1>1, <1>3 DEF Configure, RecordsAgree, Made
<1>4. CASE Mark
  <2>1. hand \in Plan(trigger)
    BY <1>4 DEF Mark, InHand
  <2>2. hand[1] \notin restoring
    BY <2>1, PlannedCopy
  <2>3. Made' = Made
    BY <1>4, Marked DEF Made
  <2>4. QED
    BY <1>1, <1>4, <2>2, <2>3, Marked DEF RecordsAgree
<1>5. ASSUME NEW b \in Backups, ChangeOf(b) PROVE RecordsAgree'
  <2>1. CASE Finish(b)
    <3>1. Made' = Made \cup {b}
      BY <1>t, <2>1 DEF Finish, FactsType, Made, Uploads
    <3>2. IsFiniteSet(Made')
      BY <3>1, FS_AddElement DEF RecordsAgree
    <3>3. \A x \in Made' : \A a \in Backups : a < x => a \in Made'
      BY <2>1, <3>1 DEF Finish, RecordsAgree
    <3>4. \A x \in ended' : <<x, "host">> \in gone' /\ x \notin restoring'
      BY <2>1 DEF Finish, RecordsAgree
    <3>5. QED
      BY <3>2, <3>3, <3>4 DEF RecordsAgree
  <2>2. CASE Uploaded(b) \/ Doubt(b) \/ Reopened(b)
    <3>1. Made' = Made
      BY <1>t, <2>2 DEF Uploaded, Doubt, Reopened, FactsType, Made
    <3>2. QED
      BY <1>1, <2>2, <3>1 DEF Uploaded, Doubt, Reopened, RecordsAgree
  <2>3. CASE Pin(b) \/ RestoreBegins(b) \/ RestoreEnds(b)
    BY <1>1, <2>3 DEF Pin, RestoreBegins, RestoreEnds, RecordsAgree, Made
  <2>4. CASE Fetch(b)
    BY <1>1, <2>4 DEF Fetch, RecordsAgree, Made
  <2>5. CASE OperatorDeletes(b)
    BY <1>1, <2>5 DEF OperatorDeletes, RecordsAgree, Made
  <2>6. QED
    BY <1>5, <2>1, <2>2, <2>3, <2>4, <2>5 DEF ChangeOf
<1>6. QED
  BY <1>2, <1>3, <1>4, <1>5, FactEffect
\* What an action on one backup is about has succeeded.
LEMMA ChangeIsMade ==
    ASSUME TypeOK, FactsType', NEW b \in Backups, ChangeOf(b)
    PROVE  b \in Made'
<1>t. FactsType
  BY TypeParts
<1> USE DEF FactsType, Uploads, Made
<1>1. CASE Finish(b) \/ Uploaded(b) \/ Doubt(b) \/ Reopened(b)
  BY <1>t, <1>1 DEF Finish, Uploaded, Doubt, Reopened
<1>2. CASE Pin(b) \/ RestoreBegins(b) \/ RestoreEnds(b)
  BY <1>t, <1>2 DEF Pin, RestoreBegins, RestoreEnds
<1>3. CASE Fetch(b)
  BY <1>t, <1>3 DEF Fetch
<1>4. CASE OperatorDeletes(b)
  BY <1>t, <1>4 DEF OperatorDeletes
<1>5. QED
  BY <1>1, <1>2, <1>3, <1>4 DEF ChangeOf

\* The retries of a guest with a backup.
Most(g) == CHOOSE n \in 0..MaxRetries :
              /\ \E b \in Backups : Guest[b] = g /\ attempts[b] = n
              /\ \A b \in Backups : Guest[b] = g => attempts[b] <= n

LEMMA MostType ==
    ASSUME BellType, NEW g, \E b \in Backups : Guest[b] = g
    PROVE  Most(g) \in 0..MaxRetries
<1> DEFINE A == {n \in 0..MaxRetries : \E b \in Backups : Guest[b] = g /\ attempts[b] = n}
<1>1. IsFiniteSet(A) /\ A \in SUBSET Nat
  <2>1. IsFiniteSet(0..MaxRetries) /\ MaxRetries \in Nat
    BY Parameters, FS_Interval
  <2>2. QED
    BY <2>1, FS_Subset
<1>2. \A b \in Backups : Guest[b] = g => attempts[b] \in A
  BY DEF BellType, Keys
<1>3. A # {}
  BY <1>2
<1>4. \E n \in A : \A m \in A : m <= n
  <2> HIDE DEF A
  <2>1. QED
    BY <1>1, <1>3, GreatestOf
<1>5. \E n \in 0..MaxRetries : /\ \E b \in Backups : Guest[b] = g /\ attempts[b] = n
                               /\ \A b \in Backups : Guest[b] = g => attempts[b] <= n
  BY <1>2, <1>4
<1>6. QED
  BY <1>5 DEF Most

LEMMA NotifyType ==
    ASSUME BellType, Made \subseteq Made', NEW b \in Made', Notify(b) PROVE BellType'
<1>1. 0 \in 0..MaxRetries
  BY Parameters
<1>2. QED
  BY <1>1 DEF BellType, Notify, Keys

LEMMA ScheduleType ==
    ASSUME BellType, Made' = Made, NEW k \in Made \cup {None}, ScheduleRetry(k)
    PROVE  BellType'
<1>1. k \in Keys
  BY DEF Keys, Made
<1>2. CASE k \in timers \/ Spent(k)
  BY <1>2 DEF BellType, ScheduleRetry
<1>3. CASE ~(k \in timers \/ Spent(k))
  <2>1. attempts[k] + 1 \in 0..MaxRetries
    BY <1>1, <1>3, Parameters DEF BellType, Spent
  <2>2. QED
    BY <1>1, <1>3, <2>1 DEF BellType, ScheduleRetry
<1>4. QED
  BY <1>2, <1>3

LEMMA ClearType ==
    ASSUME BellType, Made' = Made, NEW k \in Made, ClearRetry(k) PROVE BellType'
<1>1. 0 \in 0..MaxRetries
  BY Parameters
<1>2. QED
  BY <1>1 DEF BellType, ClearRetry, Keys, Made

LEMMA NewestIsMade ==
    ASSUME RecordsAgree, NEW g PROVE Newest(g) \in Made \cup {None}
  BY NewestIs

\* The beginning of a pass: with the newest backup of the guest.
LEMMA Applies ==
    ASSUME TypeOK, RecordsAgree, NEW raw \in Backups, RunQueued(raw) \/ Sweep(raw)
    PROVE  \E c \in Made :
              /\ c = Newest(Guest[raw]) /\ Guest[c] = Guest[raw] /\ raw \in work
              /\ pc = "next" /\ pc' = "pass" /\ work' = work \ {raw}
              /\ attempts' = Migrated(raw, c) /\ trigger' = c /\ cand' = Plan(c)
              /\ failed' = FALSE /\ lapsed' = lapsed \ {Guest[c]}
              /\ processed' \in {processed, processed \cup {c}}
              /\ timers' \subseteq timers /\ timers \ {raw, c} \subseteq timers'
              /\ UNCHANGED <<factVars, booting, pending, sweep, sweeping, hand, left>>
<1>1. PICK c : c = Newest(Guest[raw])
  OBVIOUS
<1>2. ApplyOne(raw, c)
  BY <1>1 DEF RunQueued, Sweep
<1>3. c \in Made /\ Guest[c] = Guest[raw]
  BY <1>1, <1>2, NewestIs DEF ApplyOne
<1>4. /\ processed' \in {processed, processed \cup {c}}
      /\ timers' \subseteq timers /\ timers \ {raw, c} \subseteq timers'
  BY <1>1 DEF RunQueued, Sweep
<1>5. raw \in work
  BY <1>2 DEF ApplyOne, Turn
<1>6. QED
  BY <1>1, <1>2, <1>3, <1>4, <1>5 DEF ApplyOne

LEMMA BellStep == ASSUME TypeOK, RecordsAgree, [Next]_vars PROVE BellType'
<1>t. /\ FactsType /\ BellType /\ QueueType /\ PassType /\ FactsType'
      /\ Made \subseteq Made' /\ MaxRetries \in Nat
  BY TypeParts, FactsStep, Parameters
<1>m. UNCHANGED upload => Made' = Made
  BY DEF Made
<1>0. CASE UNCHANGED bellVars
  BY <1>t, <1>0 DEF bellVars, BellType
<1>1. CASE Configure
  BY <1>t, <1>1 DEF Configure, NotifyAll, BellType
<1>2. ASSUME NEW b \in Backups, ChangeOf(b) PROVE BellType'
  <2>1. UNCHANGED bellVars \/ Notify(b)
    BY <1>2 DEF ChangeOf, Finish, Uploaded, Doubt, Reopened, Pin, OperatorDeletes, RestoreBegins,
       Fetch, RestoreEnds
  <2>2. b \in Made'
    BY <1>2, <1>t, ChangeIsMade
  <2>3. QED
    BY <1>0, <1>t, <2>1, <2>2, NotifyType
<1>3. ASSUME NEW k \in Keys, TimerFires(k) PROVE BellType'
  BY <1>t, <1>m, <1>3 DEF TimerFires, factVars, BellType
<1>4. CASE Crash \/ Drain
  <2>1. CASE Crash
    <3>1. attempts' = [k \in Keys |-> 0] /\ 0 \in 0..MaxRetries
      BY <1>t, <2>1 DEF Crash
    <3>2. QED
      BY <2>1, <3>1 DEF Crash, BellType
  <2>2. CASE Drain
    BY <1>t, <1>m, <2>2 DEF Drain, factVars, BellType
  <2>3. QED
    BY <1>4, <2>1, <2>2
<1>5. CASE Scan
  <2>1. /\ attempts' = [k \in Keys |-> IF k \in NewestTriggers THEN Most(Guest[k]) ELSE 0]
        /\ timers' = timers \cap NewestTriggers /\ UNCHANGED <<pending, sweep, upload>>
    BY <1>5 DEF Scan, Most, factVars
  <2>2. \A k \in NewestTriggers : k \in Backups
    BY NewestIs DEF NewestTriggers
  <2>3. \A k \in NewestTriggers : Most(Guest[k]) \in 0..MaxRetries
    BY <1>t, <2>2, MostType
  <2>4. QED
    BY <1>t, <1>m, <2>1, <2>3 DEF BellType
<1>6. CASE ScanFails
  BY <1>t, <1>m, <1>6, ScheduleType DEF ScanFails, factVars
<1>7. ASSUME NEW raw \in Backups, RunQueued(raw) \/ Sweep(raw) PROVE BellType'
  <2>1. PICK c \in Made : /\ raw \in work /\ attempts' = Migrated(raw, c)
                          /\ timers' \subseteq timers /\ UNCHANGED <<upload, pending, sweep>>
    BY <1>7, Applies DEF factVars
  <2>2. raw \in Keys /\ c \in Keys
    BY DEF Keys, Made
  <2>3. attempts' \in [Keys -> 0..MaxRetries]
    BY <1>t, <2>1, <2>2 DEF Migrated, BellType
  <2>4. QED
    BY <1>t, <1>m, <2>1, <2>3 DEF BellType
<1>8. ASSUME NEW raw \in Backups, PassOver(raw) \/ TakeFails(raw) PROVE BellType'
  <2>1. raw \in Made /\ Made' = Made
    BY <1>t, <1>m, <1>8 DEF PassOver, TakeFails, Turn, QueueType, factVars
  <2>2. QED
    BY <1>t, <1>8, <2>1, ClearType, ScheduleType DEF PassOver, TakeFails
<1>9. CASE EndPass \/ PassFails
  <2>1. trigger \in Made /\ Made' = Made
    BY <1>t, <1>m, <1>9 DEF EndPass, PassFails, Passing, PassType, factVars
  <2>2. QED
    BY <1>t, <1>9, <2>1, ClearType, ScheduleType DEF EndPass, PassFails, FinishAttempt
<1>10. CASE Boot \/ Revalidate \/ AgentDeletes \/ AgentFails \/ Mark \/ WorkDone \/ UNCHANGED vars
  BY <1>0, <1>10 DEF Boot, Revalidate, AgentDeletes, AgentFails, Mark, WorkDone, vars
<1>11. QED
  BY <1>1, <1>2, <1>3, <1>4, <1>5, <1>6, <1>7, <1>8, <1>9, <1>10
     DEF Next, Changes, ChangeOf, Worker, Failure
LEMMA QueueStep == ASSUME TypeOK, RecordsAgree, [Next]_vars PROVE QueueType'
<1>t. /\ BellType /\ QueueType /\ Made \subseteq Made'
  BY TypeParts, FactsStep
<1>0. CASE UNCHANGED queueVars
  BY <1>t, <1>0 DEF queueVars, QueueType
<1>1. CASE Crash \/ Drain \/ WorkDone
  <2>1. CASE Crash \/ WorkDone
    BY <1>t, <2>1 DEF Crash, WorkDone, QueueType
  <2>2. CASE Drain
    BY <1>t, <2>2 DEF Drain, queueVars, QueueType, BellType
  <2>3. QED
    BY <1>1, <2>1, <2>2
<1>2. CASE Scan
  <2>1. NewestTriggers \subseteq Made
    BY NewestIsMade DEF NewestTriggers
  <2>2. work' = NewestTriggers /\ sweeping' = TRUE /\ processed' = {}
    BY <1>2 DEF Scan
  <2>3. QED
    BY <1>t, <2>1, <2>2 DEF QueueType
<1>3. ASSUME NEW raw \in Backups, RunQueued(raw) \/ Sweep(raw) PROVE QueueType'
  <2>1. PICK c \in Made : /\ work' = work \ {raw} /\ UNCHANGED sweeping
                          /\ processed' \in {processed, processed \cup {c}}
    BY <1>3, Applies
  <2>2. QED
    BY <1>t, <2>1 DEF QueueType
<1>4. ASSUME NEW raw \in Backups, PassOver(raw) \/ TakeFails(raw) PROVE QueueType'
  BY <1>t, <1>4 DEF PassOver, TakeFails, QueueType
<1>5. CASE \/ Configure \/ Boot \/ ScanFails \/ Revalidate \/ AgentDeletes \/ AgentFails
           \/ Mark \/ EndPass \/ PassFails \/ UNCHANGED vars
           \/ (\E b \in Backups : ChangeOf(b)) \/ \E k \in Keys : TimerFires(k)
  <2>1. CASE Configure \/ \E b \in Backups : ChangeOf(b)
    BY <1>0, <2>1 DEF Configure, ChangeOf, Finish, Uploaded, Doubt, Reopened, Pin, OperatorDeletes,
       RestoreBegins, Fetch, RestoreEnds, Change
  <2>2. QED
    BY <1>0, <1>5, <2>1 DEF Boot, ScanFails, Revalidate, AgentDeletes, AgentFails, Mark,
       EndPass, PassFails, TimerFires, vars
<1>6. QED
  BY <1>1, <1>2, <1>3, <1>4, <1>5 DEF Next, Changes, ChangeOf, Worker, Failure

\* The copy that is deleted next is one of the candidates: the newest local one, or else
\* the newest on the drive.
LEMMA FirstOf ==
    ASSUME RecordsAgree, NEW keys \in SUBSET (Made \X Places), keys # {}
    PROVE  First(keys) \in keys
<1> DEFINE At(p) == {b \in Made : <<b, p>> \in keys}
<1>1. Made \subseteq Nat
  BY Parameters DEF Made
<1>2. \A p : IsFiniteSet(At(p)) /\ At(p) \in SUBSET Nat
  BY <1>1, FS_Subset DEF RecordsAgree
<1>3. \A k \in keys : k = <<k[1], k[2]>> /\ k[1] \in At(k[2]) /\ k[2] \in {"host", "drive"}
  BY DEF Places
<1>p. \E p \in {"host", "drive"} : /\ At(p) # {}
                                   /\ \A k \in keys : k[2] = p \/ (p = "host" /\ k[2] = "drive")
  <2>1. CASE At("host") # {}
    BY <1>3, <2>1
  <2>2. CASE At("host") = {}
    <3>1. \A k \in keys : k[2] = "drive"
      BY <1>3, <2>2
    <3>2. At("drive") # {}
      BY <1>3, <3>1
    <3>3. QED
      BY <3>1, <3>2
  <2>3. QED
    BY <2>1, <2>2
<1>4. PICK p \in {"host", "drive"} :
         /\ At(p) # {}
         /\ \A k \in keys : k[2] = p \/ (p = "host" /\ k[2] = "drive")
  BY <1>p
<1>5. PICK b \in At(p) : \A a \in At(p) : a <= b
  <2> HIDE DEF At
  <2>1. QED
    BY <1>2, <1>4, GreatestOf
<1>6. <<b, p>> \in keys
  BY <1>5
<1>7. ASSUME NEW j \in keys \ {<<b, p>>} PROVE Before(<<b, p>>, j)
  <2>1. j = <<j[1], j[2]>> /\ j[1] \in At(j[2])
    BY <1>3
  <2>2. CASE j[2] = p
    <3>1. j[1] # b /\ j[1] <= b /\ j[1] \in Nat /\ b \in Nat
      BY <1>2, <1>5, <1>7, <2>1, <2>2
    <3>2. b > j[1]
      BY <3>1
    <3>3. QED
      BY <2>2, <3>2 DEF Before
  <2>3. CASE j[2] # p
    BY <1>4, <2>3 DEF Before
  <2>4. QED
    BY <2>2, <2>3
<1>8. QED
  BY <1>6, <1>7 DEF First

LEMMA PlanIsMade == \A c : Plan(c) \subseteq Made \X Places
  BY PlannedCopy

\* A pass takes up one of its candidates, or drops it.
LEMMA Revalidates ==
    ASSUME TypeOK, RecordsAgree, Revalidate
    PROVE  \E k \in cand :
              /\ k \in Made \X Places /\ k # None /\ pc = "pass" /\ cand' = cand \ {k}
              /\ \/ k \in Plan(trigger) /\ pc' = "delete" /\ hand' = k
                 \/ k \notin Plan(trigger) /\ UNCHANGED <<pc, hand>>
              /\ UNCHANGED <<factVars, booting, bellVars, queueVars, trigger, failed, lapsed, left>>
<1>1. cand \in SUBSET (Made \X Places) /\ cand # {}
  BY DEF TypeOK, Revalidate
<1>2. First(cand) \in cand
  BY <1>1, FirstOf
<1>3. First(cand) # None
  BY <1>1, <1>2, Parameters DEF Made
<1>4. QED
  BY <1>1, <1>2, <1>3 DEF Revalidate, StillPlanned

LEMMA PassStep == ASSUME TypeOK, RecordsAgree, [Next]_vars
                  PROVE  PassType' /\ lapsed' \subseteq Guests
<1>t. /\ PassType /\ QueueType /\ lapsed \subseteq Guests /\ Made \subseteq Made'
      /\ Made \X Places \subseteq Made' \X Places
      /\ \A b \in Backups : Guest[b] \in Guests
  BY TypeParts, FactsStep, Parameters
<1> USE DEF PassType, Stations, Passing
<1>0. CASE UNCHANGED <<pc, booting, failed, trigger, cand, hand, lapsed>>
  BY <1>t, <1>0
<1>1. CASE Configure
  BY <1>0, <1>1 DEF Configure, Change, passVars
<1>2. ASSUME NEW b \in Backups, ChangeOf(b) PROVE PassType' /\ lapsed' \subseteq Guests
  <2>1. UNCHANGED <<pc, booting, failed, trigger, cand, hand>>
    BY <1>2 DEF ChangeOf, Finish, Uploaded, Doubt, Reopened, Pin, OperatorDeletes, RestoreBegins,
       Fetch, RestoreEnds, Change, passVars
  <2>2. lapsed' = lapsed \/ lapsed' = lapsed \cup {Guest[b]}
    BY <1>2 DEF ChangeOf, Finish, Uploaded, Doubt, Reopened, Pin, OperatorDeletes, RestoreBegins,
       Fetch, RestoreEnds
  <2>3. QED
    BY <1>t, <2>1, <2>2
<1>3. CASE Boot \/ Drain \/ Scan \/ WorkDone
  BY <1>t, <1>3 DEF Boot, Drain, Scan, WorkDone, passVars
<1>4. CASE Crash \/ ScanFails
  BY <1>t, <1>4 DEF Crash, ScanFails, NoPass, passVars
<1>5. CASE EndPass \/ PassFails
  BY <1>t, <1>5 DEF EndPass, PassFails, NoPass
<1>6. ASSUME NEW raw \in Backups, RunQueued(raw) \/ Sweep(raw)
      PROVE  PassType' /\ lapsed' \subseteq Guests
  <2>1. PICK c \in Made : /\ pc = "next" /\ pc' = "pass" /\ trigger' = c /\ cand' = Plan(c)
                          /\ failed' = FALSE /\ lapsed' = lapsed \ {Guest[c]}
                          /\ UNCHANGED <<booting, hand>>
    BY <1>6, Applies
  <2>2. c # None
    BY Parameters DEF Made
  <2>3. QED
    BY <1>t, <2>1, <2>2, PlanIsMade
<1>7. ASSUME NEW raw \in Backups, PassOver(raw) \/ TakeFails(raw)
      PROVE  PassType' /\ lapsed' \subseteq Guests
  BY <1>t, <1>7 DEF PassOver, TakeFails, passVars
<1>8. CASE Revalidate
  <2>1. PICK k \in Made \X Places :
           /\ k # None /\ pc = "pass" /\ cand' = cand \ {k}
           /\ (pc' = "delete" /\ hand' = k) \/ UNCHANGED <<pc, hand>>
           /\ UNCHANGED <<booting, trigger, failed, lapsed>>
    BY <1>8, Revalidates
  <2>2. QED
    BY <1>t, <2>1
<1>9. CASE AgentDeletes \/ AgentFails
  BY <1>t, <1>9 DEF AgentDeletes, AgentFails, passVars
<1>10. CASE Mark
  <2>1. trigger \in Backups
    BY <1>t, <1>10 DEF Mark, Made
  <2>2. lapsed' \subseteq lapsed \cup {Guest[trigger]}
    BY <1>10 DEF Mark
  <2>3. QED
    BY <1>t, <1>10, <2>1, <2>2 DEF Mark
<1>11. CASE UNCHANGED vars \/ \E k \in Keys : TimerFires(k)
  BY <1>0, <1>11 DEF vars, TimerFires, passVars
<1>12. QED
  BY <1>1, <1>2, <1>3, <1>4, <1>5, <1>6, <1>7, <1>8, <1>9, <1>10, <1>11
     DEF Next, Changes, ChangeOf, Worker, Failure

LEMMA LeftStep == ASSUME TypeOK, RecordsAgree, [Next]_vars PROVE left' \in [Events -> Nat]
<1>t. left \in [Events -> Nat]
  BY DEF TypeOK
<1>1. ASSUME NEW e \in Events, Spend(e) PROVE left' \in [Events -> Nat]
  BY <1>t, <1>1 DEF Spend
<1>2. CASE UNCHANGED left
  BY <1>t, <1>2
<1> USE DEF Events
<1>3. ASSUME NEW b \in Backups, ChangeOf(b) PROVE left' \in [Events -> Nat]
  BY <1>1, <1>2, <1>3 DEF ChangeOf, Finish, Uploaded, Doubt, Reopened, Pin, OperatorDeletes,
     RestoreBegins, Fetch, RestoreEnds
<1>4. CASE Worker
  <2>1. ASSUME NEW raw \in Backups, RunQueued(raw) \/ Sweep(raw) \/ PassOver(raw)
        PROVE  UNCHANGED left
    BY <2>1, Applies DEF PassOver
  <2>2. CASE Revalidate
    BY <1>2, <2>2, Revalidates
  <2>3. QED
    BY <1>2, <1>4, <2>1, <2>2 DEF Worker, Drain, Scan, AgentDeletes, Mark, EndPass, WorkDone
<1>5. CASE Failure \/ Configure
  BY <1>1, <1>5 DEF Failure, Configure, Crash, ScanFails, AgentFails, PassFails, TakeFails
<1>6. CASE Boot \/ UNCHANGED vars \/ \E k \in Keys : TimerFires(k)
  BY <1>2, <1>6 DEF Boot, vars, TimerFires
<1>7. QED
  BY <1>3, <1>4, <1>5, <1>6 DEF Next, Changes, ChangeOf

LEMMA TypeNext == ASSUME TypeOK, RecordsAgree, [Next]_vars PROVE TypeOK'
  BY TypeParts, FactsStep, BellStep, QueueStep, PassStep, LeftStep
(***************************************************************************)
(* The plan in the course of a pass                                        *)
(***************************************************************************)
\* With fewer copies to rank, and more restores, less is planned: as long as what is kept
\* still replaces what goes.
LEMMA PlanShrinks ==
    ASSUME TypeOK, RecordsAgree, NEW c \in Backups,
           UNCHANGED <<settings, upload>>, restoring \subseteq restoring',
           \A p \in Places : Rankable(Guest[c], p)' \subseteq Rankable(Guest[c], p),
           \/ Rankable(Guest[c], "host")' = Rankable(Guest[c], "host")
           \/ Policy(c) # Unresolved => Replaced(Guest[c], Policy(c).local)
    PROVE  Plan(c)' \subseteq Plan(c)
<1> DEFINE g == Guest[c]
<1>h. "host" \in Places /\ "drive" \in Places
  BY DEF Places
<1>p. Policy(c)' = Policy(c)
  BY DEF Policy
<1>g. \A p \in Places : \A b \in Rankable(g, p) : Guest[b] = g /\ b \in Made
  BY DEF Rankable
<1>f. Made \subseteq Nat /\ IsFiniteSet(Made)
  BY Parameters DEF Made, RecordsAgree
<1>s. \A b : Safe(b)' <=> Safe(b)
  BY DEF Safe
<1>r. ASSUME NEW p \in Places, NEW b \in Rankable(g, p)'
      PROVE  Rank(b, p) \in Nat /\ Rank(b, p)' \in Nat /\ Rank(b, p)' <= Rank(b, p)
  <2> DEFINE S == {a \in Rankable(g, p) : a > b}
             T == {a \in Rankable(g, p)' : a > b}
  <2>1. b \in Rankable(g, p) /\ Guest[b] = g
    BY <1>g
  <2>2. T \subseteq S /\ S \subseteq Made
    BY <1>g
  <2>3. IsFiniteSet(S) /\ IsFiniteSet(T)
    BY <1>f, <2>2, FS_Subset
  <2>4. Rank(b, p) = Cardinality(S) /\ Rank(b, p)' = Cardinality(T)
    BY <2>1 DEF Rank
  <2>5. QED
    BY <2>2, <2>3, <2>4, FS_Subset, FS_CardinalityType
<1>n. Policy(c) # Unresolved => Policy(c).local \in Nat /\ Policy(c).remote \in Nat
  BY PolicyType DEF TypeOK
<1>e. ASSUME Rankable(g, "host")' = Rankable(g, "host"), NEW n, Replaced(g, n)'
      PROVE  Replaced(g, n)
  <2>1. \A a \in Rankable(g, "host") : Rank(a, "host")' = Rank(a, "host")
    BY <1>e, <1>g, <1>h DEF Rank
  <2>2. QED
    BY <1>e, <1>s, <2>1 DEF Replaced
<1>1. ASSUME Policy(c) # Unresolved
      PROVE  LocalPlan(g, Policy(c))' \subseteq LocalPlan(g, Policy(c))
  <2>1. SUFFICES ASSUME NEW b \in LocalPlan(g, Policy(c))' PROVE b \in LocalPlan(g, Policy(c))
    OBVIOUS
  <2>2. /\ b \in Rankable(g, "host")' /\ b \notin restoring' /\ Safe(b)'
        /\ Rank(b, "host")' >= Policy(c)'.local /\ Replaced(g, Policy(c).local)'
    BY <2>1 DEF LocalPlan, HasActiveRestore
  <2>3. Replaced(g, Policy(c).local)
    <3>1. PICK n : n = Policy(c).local
      OBVIOUS
    <3>2. Replaced(g, n)'
      <4>1. n = Policy(c)'.local
        BY <1>p, <3>1
      <4>2. QED
        BY <2>2, <4>1 DEF Replaced
    <3>3. QED
      BY <1>1, <1>e, <3>1, <3>2
  <2>4. Rank(b, "host") >= Policy(c).local
    BY <1>1, <1>h, <1>p, <1>r, <1>n, <2>2
  <2>5. QED
    BY <1>h, <1>s, <2>2, <2>3, <2>4 DEF LocalPlan, HasActiveRestore
<1>2. ASSUME Policy(c) # Unresolved
      PROVE  RemotePlan(g, Policy(c))' \subseteq RemotePlan(g, Policy(c))
  <2>1. SUFFICES ASSUME NEW b \in RemotePlan(g, Policy(c))' PROVE b \in RemotePlan(g, Policy(c))
    OBVIOUS
  <2>2. /\ b \in Rankable(g, "drive")' /\ b \notin restoring'
        /\ Rank(b, "drive")' >= Policy(c)'.remote /\ Policy(c)'.deletes
    BY <2>1 DEF RemotePlan, HasActiveRestore
  <2>3. Rank(b, "drive") >= Policy(c).remote
    BY <1>2, <1>h, <1>p, <1>r, <1>n, <2>2
  <2>4. QED
    BY <1>h, <1>p, <2>2, <2>3 DEF RemotePlan, HasActiveRestore
<1>3. QED
  BY <1>1, <1>2, <1>p DEF Plan

LEMMA MarkRecorded ==
    ASSUME TypeOK, RecordsAgree, Mark, NEW b \in Backups, NEW p \in Places
    PROVE  (Recorded(b, p))' <=> Recorded(b, p) /\ <<b, p>> # hand
<1>1. /\ gone' = gone \cup {hand} /\ upload' = upload /\ hand = <<hand[1], hand[2]>>
      /\ \A a : a # hand[1] => (a \in ended' <=> a \in ended)
      /\ hand[1] \in ended' => <<hand[1], "host">> \in gone'
  BY Marked
<1>2. b \in ended => <<b, "host">> \in gone
  BY DEF RecordsAgree
<1>3. CASE b # hand[1]
  BY <1>1, <1>3 DEF Recorded, Made
<1>4. CASE b = hand[1]
  <2>1. CASE p = "host"
    BY <1>1, <1>2, <1>4, <2>1 DEF Recorded, Made
  <2>2. CASE p # "host"
    BY <1>1, <1>4, <2>2 DEF Recorded, Made
  <2>3. QED
    BY <2>1, <2>2
<1>5. QED
  BY <1>3, <1>4

\* After a deletion the rest of the plan stands, and so does the trigger, unless it is gone.
LEMMA MarkPlan ==
    ASSUME TypeOK, RecordsAgree, InHand \subseteq Plan(trigger), Mark,
           NEW c \in Backups, c = trigger
    PROVE  /\ Plan(c)' \subseteq Plan(c) \ {hand}
           /\ \A g : g # Guest[c] => Alike(g)
           /\ settings' = settings
           /\ Guest[c] \notin lapsed' /\ c = Newest(Guest[c]) => Newest(Guest[c])' = c
<1> DEFINE g == Guest[c]
           h == hand[1]
<1>1. /\ hand \in Plan(c) /\ hand = <<h, hand[2]>> /\ h \in Made /\ h \in Backups
      /\ hand[2] \in Places /\ Guest[h] = g
      /\ UNCHANGED <<upload, linked, pinned, restoring, settings, files>>
      /\ Policy(c) # Unresolved /\ (hand[2] = "host" => Replaced(g, Policy(c).local))
  <2>1. hand \in Plan(c)
    BY DEF Mark, InHand
  <2>2. /\ hand = <<h, hand[2]>> /\ h \in Made /\ hand[2] \in Places
        /\ UNCHANGED <<upload, linked, pinned, restoring, settings, files>>
    BY Marked
  <2>3. /\ Policy(c) # Unresolved /\ (hand[2] = "host" => Replaced(g, Policy(c).local))
        /\ h \in Rankable(g, hand[2])
    BY <2>1, PlannedCopy
  <2>4. QED
    BY <2>1, <2>2, <2>3 DEF Rankable, Made
<1>2. \A b \in Backups, p \in Places : (Recorded(b, p))' <=> Recorded(b, p) /\ <<b, p>> # hand
  BY MarkRecorded
<1>3. Made' = Made /\ Made \subseteq Backups
  BY <1>1 DEF Made
<1>4. \A p \in Places : Rankable(g, p)' = {b \in Rankable(g, p) : <<b, p>> # hand}
  BY <1>1, <1>2, <1>3 DEF Rankable
<1>5. Plan(c)' \subseteq Plan(c)
  <2>1. Rankable(g, "host")' = Rankable(g, "host") \/ Replaced(g, Policy(c).local)
    <3>1. CASE hand[2] = "host"
      BY <1>1, <3>1
    <3>2. CASE hand[2] # "host"
      <4>1. \A b : <<b, "host">> # hand
        BY <1>1, <3>2
      <4>2. QED
        BY <1>4, <4>1 DEF Places
    <3>3. QED
      BY <3>1, <3>2
  <2>2. QED
    BY <1>1, <1>4, <2>1, PlanShrinks
<1>6. hand \notin Plan(c)'
  <2>1. \A p \in Places : \A b \in Rankable(g, p)' : <<b, p>> # hand
    BY <1>4
  <2>2. SUFFICES ASSUME hand \in Plan(c)' PROVE FALSE
    OBVIOUS
  <2>3. hand \in LocalPlan(g, Policy(c))' \X {"host"} \cup RemotePlan(g, Policy(c))' \X {"drive"}
    BY <2>2 DEF Plan
  <2>4. PICK b \in Backups, p \in Places :
           /\ <<b, p>> = hand
           /\ \/ p = "host" /\ b \in LocalPlan(g, Policy(c))'
              \/ p = "drive" /\ b \in RemotePlan(g, Policy(c))'
    BY <1>1, <2>3 DEF Places
  <2>5. b \in Rankable(g, p)'
    BY <2>4 DEF LocalPlan, RemotePlan
  <2>6. QED
    BY <2>1, <2>4, <2>5
<1>7. ASSUME NEW f, f # g PROVE Alike(f)
  <2>1. \A b \in Backups : Guest[b] = f => b # h
    BY <1>1, <1>7
  <2>2. QED
    BY <1>1, <1>2, <2>1 DEF Alike
<1>8. ASSUME g \notin lapsed', c = Newest(g) PROVE Newest(g)' = c
  <2>1. c \in Existing(g) /\ (\A a \in Existing(g) : a <= c) /\ Existing(g) \subseteq Backups
        /\ Backups \subseteq Nat
    BY <1>3, <1>8, NewestIs, Parameters
  <2>2. \E p \in Places : (Recorded(c, p))'
    <3>1. \E p \in Places \ {hand[2]} : Recorded(trigger, p) \/ h # trigger
      BY <1>8 DEF Mark
    <3>2. CASE h # c
      <4>1. PICK p \in Places : Recorded(c, p)
        BY <2>1 DEF Existing, Exists
      <4>2. <<c, p>> # hand
        BY <1>1, <3>2
      <4>3. QED
        BY <1>2, <4>1, <4>2
    <3>3. CASE h = c
      <4>1. PICK p \in Places \ {hand[2]} : Recorded(c, p)
        BY <3>1, <3>3
      <4>2. <<c, p>> # hand
        BY <1>1, <4>1
      <4>3. QED
        BY <1>2, <4>1, <4>2
    <3>4. QED
      BY <3>2, <3>3
  <2>3. Existing(g)' \subseteq Existing(g) /\ c \in Existing(g)'
    <3>1. \A b \in Existing(g)' : b \in Existing(g)
      BY <1>2, <1>3 DEF Existing, Exists
    <3>2. c \in Existing(g)'
      BY <1>3, <2>1, <2>2 DEF Existing, Exists
    <3>3. QED
      BY <3>1, <3>2
  <2>4. PICK E \in SUBSET Nat : E = Existing(g)'
    BY <2>1, <2>3
  <2>5. (CHOOSE b \in E : \A a \in E : a <= b) = c
    BY <2>1, <2>3, <2>4, MaxIs
  <2>6. QED
    BY <2>3, <2>4, <2>5 DEF Newest
<1>9. QED
  BY <1>1, <1>5, <1>6, <1>7, <1>8

\* A restore that begins takes its source out of the plan, and changes nothing else of it.
LEMMA RestorePlan ==
    ASSUME TypeOK, RecordsAgree, NEW b \in Backups, RestoreBegins(b), NEW c \in Backups
    PROVE  Plan(c)' \subseteq Plan(c)
<1>1. UNCHANGED <<settings, upload, gone, ended, pinned>> /\ restoring \subseteq restoring'
  BY DEF RestoreBegins
<1>2. \A p \in Places : Rankable(Guest[c], p)' = Rankable(Guest[c], p)
  BY <1>1 DEF Rankable, Made, Recorded
<1>3. QED
  BY <1>1, <1>2, PlanShrinks DEF Places
(***************************************************************************)
(* The pass in hand                                                        *)
(***************************************************************************)
LEMMA NotPassing ==
    ASSUME ~Passing', pc' \in {"down", "scan", "idle"} => work' = {}
    PROVE  PassIsCurrent'
  BY DEF PassIsCurrent, Passing, InHand

\* A pass that goes on, with c for its trigger.
LEMMA PassGoesOn ==
    ASSUME NEW c \in Backups, trigger' = c, Passing', InHand' \subseteq Plan(c)',
           Guest[c] \notin lapsed' =>
              Newest(Guest[c])' = c /\ (failed' \/ Plan(c)' \subseteq cand' \cup InHand')
    PROVE  PassIsCurrent'
<1>1. Plan(trigger)' = Plan(c)' /\ Newest(Guest[trigger])' = Newest(Guest[c])'
  BY DEF Plan, Newest
<1>2. pc' \notin {"down", "scan", "idle"}
  BY DEF Passing
<1>3. QED
  BY <1>1, <1>2 DEF PassIsCurrent

\* Where the facts stay, so do the plans.
LEMMA PlansStay ==
    ASSUME FactsStay
    PROVE  (\A c \in Backups : Plan(c)' = Plan(c)) /\ (\A g : Newest(g)' = Newest(g))
<1>1. \A g : Alike(g) /\ settings' = settings
  BY StaysAlike
<1>2. QED
  BY <1>1, AlikePlan, AlikeSets

LEMMA CurrentStep ==
    ASSUME TypeOK, RecordsAgree, PassIsCurrent, [Next]_vars PROVE PassIsCurrent'
<1>w. /\ pc \in {"down", "scan", "idle"} => work = {}
      /\ InHand \subseteq Plan(trigger)
      /\ Passing /\ Guest[trigger] \notin lapsed =>
           trigger = Newest(Guest[trigger]) /\ (failed \/ Plan(trigger) \subseteq cand \cup InHand)
  BY DEF PassIsCurrent
<1>1. CASE Configure \/ \E b \in Backups : ChangeOf(b)
  <2>1. ~Passing /\ UNCHANGED <<pc, work>>
    BY <1>1 DEF Configure, ChangeOf, Finish, Uploaded, Doubt, Reopened, Pin, OperatorDeletes,
       RestoreBegins, Fetch, RestoreEnds, Change, Free, queueVars
  <2>2. QED
    BY <1>w, <2>1, NotPassing DEF Passing
<1>2. CASE Boot \/ Drain \/ Scan \/ ScanFails \/ Crash \/ WorkDone
  BY <1>w, <1>2, NotPassing DEF Boot, Drain, Scan, ScanFails, Crash, WorkDone, queueVars, Passing
<1>3. CASE EndPass \/ PassFails
  BY <1>3, NotPassing DEF EndPass, PassFails, Passing
<1>4. ASSUME NEW raw \in Backups, PassOver(raw) \/ TakeFails(raw) PROVE PassIsCurrent'
  BY <1>4, NotPassing DEF PassOver, TakeFails, Passing
<1>p. Passing => trigger \in Backups
  BY DEF TypeOK, Made
<1>5. CASE UNCHANGED vars \/ \E k \in Keys : TimerFires(k)
  <2>1. /\ UNCHANGED <<pc, work, trigger, cand, hand, failed, lapsed>> /\ FactsStay
    BY <1>5 DEF vars, TimerFires, factVars, queueVars, passVars, FactsStay
  <2>2. CASE ~Passing
    BY <1>w, <2>1, <2>2, NotPassing DEF Passing
  <2>3. CASE Passing
    <3>1. PICK c \in Backups : c = trigger
      BY <1>p, <2>3
    <3>2. Plan(c)' = Plan(c) /\ Newest(Guest[c])' = Newest(Guest[c])
      BY <2>1, PlansStay
    <3>3. InHand' = InHand /\ Passing'
      BY <2>1, <2>3 DEF InHand, Passing
    <3>4. QED
      BY <1>w, <2>1, <2>3, <3>1, <3>2, <3>3, PassGoesOn
  <2>4. QED
    BY <2>2, <2>3
<1>6. ASSUME NEW raw \in Backups, RunQueued(raw) \/ Sweep(raw) PROVE PassIsCurrent'
  <2>1. PICK c \in Made : /\ c = Newest(Guest[raw]) /\ Guest[c] = Guest[raw]
                          /\ pc' = "pass" /\ trigger' = c /\ cand' = Plan(c)
                          /\ UNCHANGED factVars
    BY <1>6, Applies
  <2>2. FactsStay /\ c \in Backups
    BY <2>1 DEF FactsStay, factVars, Made
  <2>3. Plan(c)' = Plan(c) /\ Newest(Guest[c])' = c
    BY <2>1, <2>2, PlansStay
  <2>4. Passing' /\ InHand' = {}
    BY <2>1 DEF Passing, InHand
  <2>5. QED
    BY <2>1, <2>2, <2>3, <2>4, PassGoesOn
<1>7. CASE Revalidate
  <2>1. PICK k \in cand :
           /\ pc = "pass" /\ cand' = cand \ {k}
           /\ \/ k \in Plan(trigger) /\ pc' = "delete" /\ hand' = k
              \/ k \notin Plan(trigger) /\ UNCHANGED <<pc, hand>>
           /\ UNCHANGED <<factVars, trigger, failed, lapsed>>
    BY <1>7, Revalidates
  <2>2. FactsStay /\ Passing /\ Passing' /\ InHand = {}
    BY <2>1 DEF FactsStay, factVars, Passing, InHand
  <2>3. PICK c \in Backups : c = trigger
    BY <1>p, <2>2
  <2>4. Plan(c)' = Plan(c) /\ Newest(Guest[c])' = Newest(Guest[c])
    BY <2>2, PlansStay
  <2>5. InHand' = IF k \in Plan(c) THEN {k} ELSE {}
    BY <2>1, <2>3 DEF InHand
  <2>6. QED
    BY <1>w, <2>1, <2>2, <2>3, <2>4, <2>5, PassGoesOn
<1>8. CASE AgentDeletes \/ AgentFails
  <2>1. /\ FactsStay /\ pc = "delete" /\ UNCHANGED <<trigger, cand, lapsed>>
        /\ \/ pc' = "mark" /\ UNCHANGED <<hand, failed>>
           \/ pc' = "pass" /\ failed' = TRUE
    BY <1>8 DEF AgentDeletes, AgentFails, FactsStay, passVars
  <2>2. Passing /\ Passing'
    BY <2>1 DEF Passing
  <2>3. PICK c \in Backups : c = trigger
    BY <1>p, <2>2
  <2>4. Plan(c)' = Plan(c) /\ Newest(Guest[c])' = Newest(Guest[c])
    BY <2>1, PlansStay
  <2>5. (InHand' = InHand /\ failed' = failed) \/ (InHand' = {} /\ failed')
    BY <2>1 DEF InHand
  <2>6. QED
    BY <1>w, <2>1, <2>2, <2>3, <2>4, <2>5, PassGoesOn
<1>9. CASE Mark
  <2>1. /\ pc = "mark" /\ pc' = "pass" /\ UNCHANGED <<trigger, cand, failed>>
        /\ lapsed \subseteq lapsed'
    BY <1>9 DEF Mark
  <2>2. Passing /\ Passing' /\ InHand = {hand} /\ InHand' = {}
    BY <2>1 DEF Passing, InHand
  <2>3. PICK c \in Backups : c = trigger
    BY <1>p, <2>2
  <2>4. /\ Plan(c)' \subseteq Plan(c) \ {hand}
        /\ Guest[c] \notin lapsed' /\ c = Newest(Guest[c]) => Newest(Guest[c])' = c
    BY <1>9, <1>w, <2>3, MarkPlan
  <2>5. QED
    BY <1>w, <2>1, <2>2, <2>3, <2>4, PassGoesOn
<1>10. QED
  BY <1>1, <1>2, <1>3, <1>4, <1>5, <1>6, <1>7, <1>8, <1>9
     DEF Next, Changes, ChangeOf, Worker, Failure
(***************************************************************************)
(* Whatever is to be deleted is in somebody's hands                        *)
(***************************************************************************)
Answered(g) == Clean(g) \/ g \in lapsed \/ Due(g)

\* No more is to be deleted of g than before the step...
FactsKept(g) ==
    /\ Newest(g)' = Newest(g)
    /\ \A c \in Backups : Guest[c] = g => Plan(c)' \subseteq Plan(c) /\ upload'[c] = upload[c]

\* ...and nothing that a pass for g is due to is forgotten.
BellKept(g) ==
    /\ \A b \in pending : Guest[b] = g => b \in pending'
    /\ \A k \in timers : k = None \/ Guest[k] = g => k \in timers'
    /\ GaveUp(g) => GaveUp(g)'

QueueKept(g) ==
    /\ \A b \in work : Guest[b] = g => b \in work'
    /\ Newest(g) \in processed' => Newest(g) \in processed

PassKept(g) == Passing /\ Guest[trigger] = g => Passing' /\ Guest[trigger'] = g

LEMMA StillDue ==
    ASSUME TypeOK, RecordsAgree, NEW g, Answered(g), g \in lapsed => g \in lapsed',
           FactsKept(g), BellKept(g), QueueKept(g), PassKept(g)
    PROVE  Answered(g)'
<1>1. CASE Clean(g)
  <2>1. PICK N \in Backups \cup {None} : N = Newest(g) /\ (N # None => Guest[N] = g)
    BY NewestIs
  <2>2. N = Newest(g)'
    BY <2>1 DEF FactsKept
  <2>3. CASE Plan(Newest(g)) = {}
    <3>1. Plan(N)' = {}
      <4>1. CASE N = None
        BY <4>1, PlanOfNone
      <4>2. CASE N # None
        BY <2>1, <2>3, <4>2 DEF FactsKept
      <4>3. QED
        BY <4>1, <4>2
    <3>2. Plan(Newest(g))' = Plan(N)'
      BY <2>2 DEF Plan
    <3>3. QED
      BY <3>1, <3>2 DEF Answered, Clean
  <2>4. CASE Uploading(g)
    <3>1. N # None /\ upload[N] = "wanted" /\ upload'[N] = upload[N]
      BY <2>1, <2>4 DEF Uploading, FactsKept
    <3>2. Uploading(g)'
      BY <2>2, <3>1 DEF Uploading
    <3>3. QED
      BY <3>2 DEF Answered, Clean
  <2>5. CASE GaveUp(g)
    BY <2>5 DEF BellKept, Answered, Clean
  <2>6. QED
    BY <1>1, <2>3, <2>4, <2>5 DEF Clean
<1>2. CASE Due(g)
  <2>1. Due(g)'
    BY <1>2 DEF Due, FactsKept, BellKept, QueueKept, PassKept
  <2>2. QED
    BY <2>1 DEF Answered
<1>3. QED
  BY <1>1, <1>2 DEF Answered

LEMMA AlikeKept ==
    ASSUME NEW g, Alike(g), settings' = settings PROVE FactsKept(g)
  BY AlikeSets, AlikePlan DEF FactsKept, Alike

LEMMA StaysKept == ASSUME FactsStay, NEW g PROVE FactsKept(g)
  BY StaysAlike, AlikeKept

\* Retries that are not taken back are not forgotten.
LEMMA GaveUpStays ==
    ASSUME BellType, BellType', NEW g,
           \A k \in Keys : k = None \/ Guest[k] = g => attempts'[k] >= attempts[k]
    PROVE  GaveUp(g) => GaveUp(g)'
<1>1. SUFFICES ASSUME NEW k \in Keys, Spent(k), k = None \/ Guest[k] = g PROVE Spent(k)'
  BY DEF GaveUp
<1>2. /\ attempts'[k] >= attempts[k] /\ attempts[k] >= MaxRetries
      /\ attempts'[k] \in Nat /\ attempts[k] \in Nat /\ MaxRetries \in Nat
  BY <1>1, Parameters DEF Spent, BellType
<1>3. QED
  BY <1>2 DEF Spent

LEMMA NotifyKeeps ==
    ASSUME BellType, BellType', ~sweep', NEW b \in Backups, Notify(b), NEW g
    PROVE  b \in pending' /\ (Guest[b] # g => BellKept(g))
<1>1. b \in pending' /\ pending \subseteq pending'
  BY DEF Notify
<1>2. ASSUME Guest[b] # g PROVE BellKept(g)
  <2>1. b # None
    BY Parameters
  <2>2. \A k \in Keys : k = None \/ Guest[k] = g => attempts'[k] >= attempts[k]
    BY <1>2, <2>1, Parameters DEF Notify, BellType
  <2>3. \A k \in timers : k = None \/ Guest[k] = g => k \in timers'
    BY <1>2, <2>1 DEF Notify
  <2>4. QED
    BY <1>1, <2>2, <2>3, GaveUpStays DEF BellKept
<1>3. QED
  BY <1>1, <1>2

LEMMA ScheduleKeeps ==
    ASSUME BellType, BellType', NEW k \in Keys, ScheduleRetry(k), NEW g
    PROVE  /\ BellKept(g)
           /\ k = None \/ Guest[k] = g => GaveUp(g)' \/ \E j \in timers' : j = None \/ Guest[j] = g
<1>1. /\ pending' = pending /\ timers \subseteq timers'
      /\ \A j \in Keys : attempts'[j] >= attempts[j]
  BY Parameters DEF ScheduleRetry, BellType
<1>2. BellKept(g)
  BY <1>1, GaveUpStays DEF BellKept
<1>3. k \in timers' \/ (Spent(k) /\ UNCHANGED attempts)
  BY DEF ScheduleRetry
<1>4. k \in timers' \/ Spent(k)'
  BY <1>3 DEF Spent
<1>5. QED
  BY <1>2, <1>4 DEF GaveUp

LEMMA ClearKeeps ==
    ASSUME BellType, BellType', NEW k \in Backups, ClearRetry(k), NEW g, Guest[k] # g
    PROVE  BellKept(g)
<1>1. k # None
  BY Parameters
<1>2. /\ pending' = pending /\ \A j \in timers : j = None \/ Guest[j] = g => j \in timers'
      /\ \A j \in Keys : j = None \/ Guest[j] = g => attempts'[j] >= attempts[j]
  BY <1>1, Parameters DEF ClearRetry, BellType
<1>3. QED
  BY <1>2, GaveUpStays DEF BellKept

\* The retries of raw become those of c, of the same guest.
LEMMA MigratedKeeps ==
    ASSUME BellType, BellType', NEW raw \in Backups, NEW c \in Backups,
           Guest[raw] = Guest[c], attempts' = Migrated(raw, c), NEW g
    PROVE  GaveUp(g) => GaveUp(g)'
<1> SUFFICES ASSUME NEW k \in Keys, Spent(k), k = None \/ Guest[k] = g PROVE GaveUp(g)'
  BY DEF GaveUp
<1>t. /\ raw \in Keys /\ c \in Keys /\ MaxRetries \in Nat /\ raw # None /\ c # None
      /\ \A j \in Keys : attempts[j] \in Nat /\ attempts'[j] \in Nat
  BY Parameters DEF BellType, Keys
<1>1. CASE k # raw \/ raw = c
  <2>1. attempts'[k] >= attempts[k]
    BY <1>t, <1>1 DEF Migrated, BellType
  <2>2. Spent(k)'
    BY <1>t, <2>1 DEF Spent
  <2>3. QED
    BY <2>2 DEF GaveUp
<1>2. CASE k = raw /\ raw # c
  <2>1. attempts'[c] >= attempts[k]
    BY <1>t, <1>2 DEF Migrated, BellType
  <2>2. Spent(c)' /\ Guest[c] = g
    BY <1>t, <1>2, <2>1 DEF Spent
  <2>3. QED
    BY <1>t, <2>2 DEF GaveUp
<1>3. QED
  BY <1>1, <1>2
\* A run succeeds: its backup is the newest of its guest.
LEMMA FinishedIsNewest ==
    ASSUME TypeOK, RecordsAgree, FactsType', NEW b \in Backups, Finish(b)
    PROVE  Newest(Guest[b])' = b /\ b # None
<1> DEFINE g == Guest[b]
<1>1. /\ b \notin Made /\ b \in Made' /\ Made' = Made \cup {b}
      /\ UNCHANGED <<gone, ended>> /\ "host" \in Places
      /\ \A a \in Backups : a < b => a \in Made
  BY DEF Finish, Made, TypeOK, FactsType, Uploads, Places
<1>2. Recorded(b, "host")'
  BY <1>1 DEF Recorded, TypeOK
<1>3. b \in Existing(g)'
  BY <1>1, <1>2 DEF Existing, Exists
<1>4. Existing(g)' \subseteq Made' /\ Made' \subseteq Nat /\ Made \subseteq Backups
  BY <1>1, Parameters DEF Existing, Made
<1>5. \A a \in Existing(g)' : a <= b
  <2>1. ASSUME NEW a \in Made, ~(a <= b) PROVE FALSE
    <3>1. a \in Nat /\ b \in Nat /\ b \in Backups
      BY <1>4, Parameters
    <3>2. b < a
      BY <2>1, <3>1
    <3>3. b \in Made
      BY <2>1, <3>1, <3>2 DEF RecordsAgree
    <3>4. QED
      BY <1>1, <3>3
  <2>2. b <= b
    BY Parameters
  <2>3. \A a \in Existing(g)' : a \in Made \/ a = b
    BY <1>1, <1>4
  <2>4. QED
    BY <2>1, <2>2, <2>3
<1>6. PICK E \in SUBSET Nat : E = Existing(g)'
  BY <1>4
<1>7. (CHOOSE x \in E : \A a \in E : a <= x) = b
  BY <1>3, <1>5, <1>6, MaxIs
<1>8. QED
  BY <1>3, <1>6, <1>7, Parameters DEF Newest

\* What the rest of the system does.
LEMMA ChangeAnswered ==
    ASSUME TypeOK, RecordsAgree, FactsType', BellType', ~sweep',
           NEW b \in Backups, ChangeOf(b), NEW g \in Guests, Answered(g)
    PROVE  Answered(g)'
<1>t. BellType
  BY TypeParts
<1>1. ~Passing /\ UNCHANGED <<work, processed>> /\ lapsed \subseteq lapsed'
      /\ (Notify(b) \/ UNCHANGED bellVars)
  BY DEF ChangeOf, Finish, Uploaded, Doubt, Reopened, Pin, OperatorDeletes, RestoreBegins, Fetch,
     RestoreEnds, Change, Free, queueVars
<1>2. QueueKept(g) /\ PassKept(g)
  BY <1>1 DEF QueueKept, PassKept
<1>3. UNCHANGED bellVars => BellKept(g)
  <2>1. SUFFICES ASSUME UNCHANGED bellVars PROVE BellKept(g)
    OBVIOUS
  <2>2. UNCHANGED <<pending, timers, attempts>>
    BY <2>1 DEF bellVars
  <2>3. QED
    BY <2>2 DEF BellKept, GaveUp, Spent
<1>4. CASE Guest[b] # g
  <2>1. BellKept(g)
    BY <1>t, <1>1, <1>3, <1>4, NotifyKeeps
  <2>2. FactsKept(g)
    BY <1>4, OthersAlike, AlikeKept
  <2>3. QED
    BY <1>1, <1>2, <2>1, <2>2, StillDue
<1>5. CASE Guest[b] = g
  <2>1. CASE Notify(b)
    <3>1. b \in pending'
      BY <1>t, <2>1, NotifyKeeps
    <3>2. QED
      BY <1>5, <3>1 DEF Answered, Due
  <2>2. CASE Fetch(b) \/ RestoreEnds(b) \/ Reopened(b)
    BY <1>5, <2>2 DEF Fetch, RestoreEnds, Reopened, Answered
  <2>3. CASE RestoreBegins(b)
    <3>1. UNCHANGED <<upload, gone, ended>> /\ UNCHANGED bellVars
      BY <2>3 DEF RestoreBegins
    <3>2. Newest(g)' = Newest(g)
      <4>1. Existing(g)' = Existing(g)
        BY <3>1 DEF Existing, Exists, Recorded, Made
      <4>2. QED
        BY <4>1 DEF Newest
    <3>3. FactsKept(g)
      BY <2>3, <3>1, <3>2, RestorePlan DEF FactsKept
    <3>4. QED
      BY <1>1, <1>2, <1>3, <3>1, <3>3, StillDue
  <2>4. CASE Finish(b) /\ ~Notify(b)
    <3>1. upload'[b] = "wanted"
      BY <2>4 DEF Finish, TypeOK
    <3>2. Newest(g)' = b /\ b # None
      BY <1>5, <2>4, FinishedIsNewest
    <3>3. Uploading(g)'
      BY <3>1, <3>2 DEF Uploading
    <3>4. QED
      BY <3>3 DEF Answered, Clean
  <2>5. QED
    BY <2>1, <2>2, <2>3, <2>4 DEF ChangeOf, Uploaded, Doubt, Pin, OperatorDeletes
<1>6. QED
  BY <1>4, <1>5

\* A sweep begins with the newest backup of every guest.
LEMMA ScanAnswers ==
    ASSUME RecordsAgree, Scan, NEW g \in Guests PROVE Answered(g)'
<1>1. FactsStay /\ processed' = {} /\ work' = NewestTriggers
  BY DEF Scan, FactsStay, factVars
<1>2. PICK N \in Backups \cup {None} : N = Newest(g) /\ (N # None => Guest[N] = g)
  BY NewestIs
<1>3. N = Newest(g)'
  BY <1>1, <1>2, PlansStay
<1>4. CASE N = None
  <2>1. Plan(Newest(g))' = Plan(N)'
    BY <1>3 DEF Plan
  <2>2. QED
    BY <1>4, <2>1, PlanOfNone DEF Answered, Clean
<1>5. CASE N # None
  <2>1. N \in work' /\ Guest[N] = g
    BY <1>1, <1>2, <1>5 DEF NewestTriggers
  <2>2. QED
    BY <1>1, <2>1 DEF Answered, Due
<1>6. QED
  BY <1>4, <1>5
LEMMA OverlookedStep ==
    ASSUME TypeOK, RecordsAgree, PassIsCurrent, NothingOverlooked, [Next]_vars
    PROVE  NothingOverlooked'
<1>t. /\ BellType /\ BellType' /\ FactsType' /\ QueueType /\ PassType
      /\ InHand \subseteq Plan(trigger)
      /\ pc \in {"down", "scan", "idle"} => work = {}
      /\ Passing => trigger \in Backups
  BY TypeParts, TypeNext DEF PassIsCurrent, PassType, Made
<1>a. pc \notin {"down", "scan"} /\ ~sweep => \A g \in Guests : Answered(g)
  BY DEF NothingOverlooked, Answered
<1> SUFFICES ASSUME pc' \notin {"down", "scan"}, ~sweep', NEW g \in Guests PROVE Answered(g)'
  BY DEF NothingOverlooked, Answered
\* A step that forgets nothing of g.
<1>s. ASSUME pc \notin {"down", "scan"}, ~sweep, FactsKept(g), BellKept(g), QueueKept(g),
             PassKept(g), g \in lapsed => g \in lapsed'
      PROVE  Answered(g)'
  BY <1>a, <1>s, StillDue
<1>f. FactsStay => FactsKept(g)
  BY StaysKept
<1>b. UNCHANGED <<pending, timers, attempts>> => BellKept(g)
  BY DEF BellKept, GaveUp, Spent
<1>q. UNCHANGED <<work, processed>> => QueueKept(g)
  BY DEF QueueKept
<1>p. ~Passing \/ (Passing' /\ trigger' = trigger) => PassKept(g)
  BY DEF PassKept
<1>1. ASSUME NEW b \in Backups, ChangeOf(b) PROVE Answered(g)'
  <2>1. UNCHANGED pc
    BY <1>1 DEF ChangeOf, Finish, Uploaded, Doubt, Reopened, Pin, OperatorDeletes, RestoreBegins,
       Fetch, RestoreEnds, Change
  <2>2. UNCHANGED sweep
    BY <1>1 DEF ChangeOf, Finish, Uploaded, Doubt, Reopened, Pin, OperatorDeletes, RestoreBegins,
       Fetch, RestoreEnds, Notify, bellVars
  <2>3. QED
    BY <1>a, <1>t, <1>1, <2>1, <2>2, ChangeAnswered
<1>2. CASE Configure \/ Boot \/ Crash
  BY <1>2 DEF Configure, NotifyAll, Boot, Crash
<1>3. CASE Scan
  BY <1>3, ScanAnswers
<1>4. CASE Drain
  <2>1. /\ pc = "idle" /\ ~sweep /\ work = {} /\ work' = pending /\ processed' = {}
        /\ UNCHANGED <<factVars, attempts, timers, lapsed>>
    BY <1>4, <1>t DEF Drain
  <2>2. FactsStay /\ ~Passing
    BY <2>1 DEF FactsStay, factVars, Passing
  <2>3. Newest(g)' = Newest(g)
    BY <2>2, PlansStay
  <2>4. CASE \E b \in pending : Guest[b] = g
    BY <2>1, <2>4 DEF Answered, Due
  <2>5. CASE ~\E b \in pending : Guest[b] = g
    <3>1. BellKept(g)
      BY <2>1, <2>5 DEF BellKept, GaveUp, Spent
    <3>2. QueueKept(g)
      BY <2>1 DEF QueueKept
    <3>3. QED
      BY <1>f, <1>p, <1>s, <2>1, <2>2, <3>1, <3>2
  <2>6. QED
    BY <2>4, <2>5
<1>5. CASE ScanFails
  <2>1. None \in Keys /\ ScheduleRetry(None)
    BY <1>5 DEF ScanFails, Keys
  <2>2. GaveUp(g)' \/ \E j \in timers' : j = None \/ Guest[j] = g
    BY <1>t, <2>1, ScheduleKeeps
  <2>3. QED
    BY <2>2 DEF Answered, Clean, Due
<1>6. ASSUME NEW raw \in Backups, RunQueued(raw) \/ Sweep(raw) PROVE Answered(g)'
  <2>1. PICK c \in Made :
           /\ c = Newest(Guest[raw]) /\ Guest[c] = Guest[raw] /\ pc = "next" /\ pc' = "pass"
           /\ work' = work \ {raw} /\ attempts' = Migrated(raw, c) /\ trigger' = c
           /\ lapsed' = lapsed \ {Guest[c]} /\ processed' \in {processed, processed \cup {c}}
           /\ timers \ {raw, c} \subseteq timers' /\ UNCHANGED <<factVars, pending, sweep>>
    BY <1>6, Applies
  <2>2. Passing' /\ ~Passing /\ FactsStay /\ c \in Backups /\ c # None /\ raw # None
    BY <2>1, Parameters DEF Passing, FactsStay, factVars, Made
  <2>3. CASE Guest[c] = g
    BY <2>1, <2>2, <2>3 DEF Answered, Due
  <2>4. CASE Guest[c] # g
    <3>1. GaveUp(g) => GaveUp(g)'
      BY <1>t, <2>1, <2>2, MigratedKeeps
    <3>2. BellKept(g)
      BY <2>1, <2>2, <2>4, <3>1 DEF BellKept
    <3>3. Newest(g) # c
      BY <2>2, <2>4, NewestIs
    <3>4. QueueKept(g)
      BY <2>1, <2>4, <3>3 DEF QueueKept
    <3>5. QED
      BY <1>f, <1>p, <1>s, <2>1, <2>2, <2>4, <3>2, <3>4
  <2>5. QED
    BY <2>3, <2>4
<1>7. ASSUME NEW raw \in Backups, PassOver(raw) PROVE Answered(g)'
  <2>1. /\ pc = "next" /\ ClearRetry(raw) /\ work' = work \ {raw}
        /\ Newest(Guest[raw]) = None \/ Newest(Guest[raw]) \in processed
        /\ UNCHANGED <<factVars, sweep, processed>> /\ lapsed \subseteq lapsed'
        /\ raw \in timers \/ attempts[raw] > 0 => Guest[raw] \in lapsed'
    BY <1>7 DEF PassOver, ClearRetry
  <2>2. FactsStay /\ ~Passing
    BY <2>1 DEF FactsStay, factVars, Passing
  <2>3. CASE Guest[raw] # g
    <3>1. BellKept(g)
      BY <1>t, <2>1, <2>3, ClearKeeps
    <3>2. QueueKept(g)
      BY <2>1, <2>3 DEF QueueKept
    <3>3. QED
      BY <1>f, <1>p, <1>s, <2>1, <2>2, <3>1, <3>2
  <2>4. CASE Guest[raw] = g /\ (raw \in timers \/ attempts[raw] > 0)
    BY <2>1, <2>4 DEF Answered
  <2>5. CASE Guest[raw] = g /\ ~(raw \in timers \/ attempts[raw] > 0)
    <3>1. UNCHANGED <<pending, timers, attempts>>
      <4>1. attempts[raw] = 0
        BY <1>t, <2>5 DEF BellType, Keys
      <4>2. attempts' = attempts
        BY <1>t, <2>1, <4>1 DEF ClearRetry, BellType
      <4>3. QED
        BY <2>1, <2>5, <4>2 DEF ClearRetry
    <3>2. CASE Newest(g) = None
      <4>1. PICK N : N = Newest(g)
        OBVIOUS
      <4>2. N = Newest(g)'
        BY <2>2, <4>1, PlansStay
      <4>3. Plan(Newest(g))' = Plan(N)'
        BY <4>2 DEF Plan
      <4>4. QED
        BY <3>2, <4>1, <4>3, PlanOfNone DEF Answered, Clean
    <3>3. CASE Newest(g) \in processed
      <4>1. Newest(g)' = Newest(g)
        BY <2>2, PlansStay
      <4>2. CASE Due(g)
        <5>1. Due(g)'
          BY <2>1, <2>2, <3>1, <3>3, <4>1, <4>2 DEF Due
        <5>2. QED
          BY <5>1 DEF Answered
      <4>3. CASE ~Due(g)
        <5>1. Clean(g) \/ g \in lapsed
          BY <1>a, <2>1, <4>3 DEF Answered
        <5>2. Clean(g) => Clean(g)'
          <6>1. SUFFICES ASSUME Clean(g) PROVE Clean(g)'
            OBVIOUS
          <6>2. UNCHANGED upload /\ \A c \in Backups : Plan(c)' = Plan(c)
            BY <2>2, PlansStay DEF FactsStay
          <6>3. PICK N \in Backups \cup {None} : N = Newest(g)
            BY NewestIs
          <6>4. Plan(Newest(g))' = Plan(N)'
            BY <4>1, <6>3 DEF Plan
          <6>5. Plan(N)' = Plan(N)
            BY <6>2, PlanOfNone
          <6>6. QED
            BY <3>1, <4>1, <6>1, <6>2, <6>3, <6>4, <6>5 DEF Clean, Uploading, GaveUp, Spent
        <5>3. QED
          BY <2>1, <5>1, <5>2 DEF Answered
      <4>4. QED
        BY <4>2, <4>3
    <3>4. QED
      BY <2>1, <2>5, <3>2, <3>3
  <2>6. QED
    BY <2>3, <2>4, <2>5
<1>8. ASSUME NEW raw \in Backups, TakeFails(raw) PROVE Answered(g)'
  <2>1. /\ pc = "next" /\ ScheduleRetry(raw) /\ work' = work \ {raw} /\ raw \in Keys
        /\ UNCHANGED <<factVars, processed, sweep, lapsed>>
    BY <1>8 DEF TakeFails, ScheduleRetry, Keys
  <2>2. FactsStay /\ ~Passing
    BY <2>1 DEF FactsStay, factVars, Passing
  <2>3. CASE Guest[raw] # g
    <3>1. BellKept(g)
      BY <1>t, <2>1, ScheduleKeeps
    <3>2. QueueKept(g)
      BY <2>1, <2>3 DEF QueueKept
    <3>3. QED
      BY <1>f, <1>p, <1>s, <2>1, <2>2, <3>1, <3>2
  <2>4. CASE Guest[raw] = g
    <3>1. GaveUp(g)' \/ \E j \in timers' : j = None \/ Guest[j] = g
      BY <1>t, <2>1, <2>4, ScheduleKeeps
    <3>2. QED
      BY <3>1 DEF Answered, Clean, Due
  <2>5. QED
    BY <2>3, <2>4
<1>9. CASE Revalidate \/ AgentDeletes \/ AgentFails
  <2>1. /\ Passing /\ Passing' /\ FactsStay
        /\ UNCHANGED <<trigger, lapsed, work, processed, pending, timers, attempts, sweep>>
    <3>1. CASE Revalidate
      BY <3>1 DEF Revalidate, Passing, FactsStay, factVars, queueVars, bellVars
    <3>2. CASE AgentDeletes \/ AgentFails
      BY <3>2 DEF AgentDeletes, AgentFails, Passing, FactsStay, queueVars, bellVars, passVars
    <3>3. QED
      BY <1>9, <3>1, <3>2
  <2>2. QED
    BY <1>b, <1>f, <1>p, <1>q, <1>s, <2>1 DEF Passing
<1>10. CASE Mark
  <2>1. /\ Passing /\ Passing' /\ lapsed \subseteq lapsed'
        /\ UNCHANGED <<trigger, work, processed, pending, timers, attempts, sweep>>
    BY <1>10 DEF Mark, Passing, queueVars, bellVars
  <2>2. PICK c \in Backups : c = trigger
    BY <1>t, <2>1
  <2>3. CASE Guest[c] = g
    BY <2>1, <2>2, <2>3 DEF Answered, Due
  <2>4. CASE Guest[c] # g
    <3>1. Alike(g) /\ settings' = settings
      BY <1>t, <1>10, <2>2, <2>4, MarkPlan
    <3>2. FactsKept(g)
      BY <3>1, AlikeKept
    <3>3. QED
      BY <1>b, <1>p, <1>q, <1>s, <2>1, <3>2 DEF Passing
  <2>5. QED
    BY <2>3, <2>4
<1>11. CASE EndPass \/ PassFails
  <2>1. /\ Passing /\ UNCHANGED <<factVars, work, processed, lapsed>>
        /\ ScheduleRetry(trigger)
           \/ (pc = "pass" /\ cand = {} /\ ~failed /\ ClearRetry(trigger))
    BY <1>11 DEF EndPass, PassFails, FinishAttempt, Passing, queueVars
  <2>2. UNCHANGED sweep /\ FactsStay
    BY <2>1 DEF ScheduleRetry, ClearRetry, FactsStay, factVars
  <2>3. PICK c \in Backups : c = trigger
    BY <1>t, <2>1
  <2>4. CASE Guest[c] # g
    <3>1. BellKept(g)
      BY <1>t, <2>1, <2>3, <2>4, ScheduleKeeps, ClearKeeps DEF Keys
    <3>2. PassKept(g)
      BY <2>3, <2>4 DEF PassKept
    <3>3. QED
      BY <1>f, <1>q, <1>s, <2>1, <2>2, <3>1, <3>2 DEF Passing
  <2>5. CASE Guest[c] = g /\ ScheduleRetry(trigger)
    <3>1. GaveUp(g)' \/ \E j \in timers' : j = None \/ Guest[j] = g
      BY <1>t, <2>3, <2>5, ScheduleKeeps DEF Keys
    <3>2. QED
      BY <3>1 DEF Answered, Clean, Due
  <2>6. CASE Guest[c] = g /\ pc = "pass" /\ cand = {} /\ ~failed
    <3>1. g \in lapsed \/ (c = Newest(g) /\ Plan(c) = {})
      BY <2>1, <2>3, <2>6 DEF PassIsCurrent, InHand
    <3>2. CASE g \in lapsed
      BY <2>1, <3>2 DEF Answered
    <3>3. CASE c = Newest(g) /\ Plan(c) = {}
      <4>1. c = Newest(g)' /\ Plan(c)' = {}
        BY <2>2, <3>3, PlansStay
      <4>2. Plan(Newest(g))' = Plan(c)'
        BY <4>1 DEF Plan
      <4>3. QED
        BY <4>1, <4>2 DEF Answered, Clean
    <3>4. QED
      BY <3>1, <3>2, <3>3
  <2>7. QED
    BY <2>1, <2>4, <2>5, <2>6
<1>12. CASE WorkDone
  <2>1. /\ pc = "next" /\ work = {} /\ processed' = {}
        /\ UNCHANGED <<factVars, pending, timers, attempts, sweep, work, lapsed>>
    BY <1>12 DEF WorkDone, bellVars
  <2>2. FactsStay /\ ~Passing /\ QueueKept(g)
    BY <2>1 DEF FactsStay, factVars, Passing, QueueKept
  <2>3. QED
    BY <1>b, <1>f, <1>p, <1>s, <2>1, <2>2
<1>13. ASSUME NEW k \in Keys, TimerFires(k) PROVE Answered(g)'
  <2>1. /\ k # None /\ ~sweep /\ pending' = pending \cup {k} /\ timers' = timers \ {k}
        /\ UNCHANGED <<factVars, pc, attempts, work, processed, trigger, lapsed>>
    BY <1>13 DEF TimerFires, queueVars, passVars
  <2>2. FactsStay /\ Passing' = Passing
    BY <2>1 DEF FactsStay, factVars, Passing
  <2>3. CASE Guest[k] = g
    BY <2>1, <2>3 DEF Answered, Due
  <2>4. CASE Guest[k] # g
    <3>1. BellKept(g)
      BY <2>1, <2>4 DEF BellKept, GaveUp, Spent
    <3>2. QED
      BY <1>f, <1>p, <1>q, <1>s, <2>1, <2>2, <3>1
  <2>5. QED
    BY <2>3, <2>4
<1>14. CASE UNCHANGED vars
  <2>1. /\ UNCHANGED <<factVars, pc, pending, timers, attempts, sweep, work, processed>>
        /\ UNCHANGED <<trigger, lapsed>>
    BY <1>14 DEF vars, bellVars, queueVars, passVars
  <2>2. FactsStay /\ Passing' = Passing
    BY <2>1 DEF FactsStay, factVars, Passing
  <2>3. QED
    BY <1>b, <1>f, <1>p, <1>q, <1>s, <2>1, <2>2
<1>15. QED
  BY <1>1, <1>2, <1>3, <1>4, <1>5, <1>6, <1>7, <1>8, <1>9, <1>10, <1>11, <1>12, <1>13, <1>14
     DEF Next, Changes, ChangeOf, Worker, Failure
(***************************************************************************)
(* The theorems                                                            *)
(***************************************************************************)
Core == TypeOK /\ RecordsAgree /\ PassIsCurrent /\ NothingOverlooked

LEMMA InitCore == Init => Core
<1> SUFFICES ASSUME Init PROVE Core
  OBVIOUS
<1>1. Made = {} /\ \A k \in Keys : 0 \in 0..MaxRetries
  BY Parameters DEF Init, Made
<1>2. TypeOK
  <2>1. FactsType
    BY <1>1 DEF Init, FactsType, Uploads
  <2>2. BellType /\ QueueType
    BY <1>1 DEF Init, BellType, QueueType
  <2>3. PassType /\ lapsed \subseteq Guests /\ left \in [Events -> Nat]
    BY <1>1, BudgetsAssumption DEF Init, PassType, Stations, Passing
  <2>4. QED
    BY <2>1, <2>2, <2>3, TypeParts
<1>3. RecordsAgree
  BY <1>1, FS_EmptySet DEF Init, RecordsAgree
<1>4. PassIsCurrent /\ NothingOverlooked
  BY DEF Init, PassIsCurrent, InHand, Passing, NothingOverlooked
<1>5. QED
  BY <1>2, <1>3, <1>4 DEF Core

LEMMA CoreStep == ASSUME Core, [Next]_vars PROVE Core'
<1>1. TypeOK /\ RecordsAgree /\ PassIsCurrent /\ NothingOverlooked
  BY DEF Core
<1>2. InHand \subseteq Plan(trigger)
  BY <1>1 DEF PassIsCurrent
<1>3. TypeOK' /\ RecordsAgree' /\ PassIsCurrent' /\ NothingOverlooked'
  BY <1>1, <1>2, TypeNext, RecordsStep, CurrentStep, OverlookedStep
<1>4. QED
  BY <1>3 DEF Core

\* A worker that rests has nothing in hand.
LEMMA CoreIsConsistent == Core => Consistent
<1> SUFFICES ASSUME Core PROVE Consistent
  OBVIOUS
<1>1. TypeOK /\ RecordsAgree /\ PassIsCurrent /\ NothingOverlooked
  BY DEF Core
<1>2. ASSUME Quiet, NEW g \in Guests PROVE Clean(g) \/ g \in lapsed
  <2>1. Clean(g) \/ g \in lapsed \/ Due(g)
    BY <1>1, <1>2 DEF Quiet, NothingOverlooked
  <2>2. ~Due(g)
    BY <1>1, <1>2 DEF Quiet, Due, PassIsCurrent, Passing
  <2>3. QED
    BY <2>1, <2>2
<1>3. QED
  BY <1>1, <1>2 DEF Consistent, QuietMeansClean

\* Every copy that the worker has in hand is one to delete by the policy in force, and
\* when the worker rests nothing is left that it would delete, of any guest but those
\* whose change nobody announced (run, _apply_one and notify in
\* workers/retention_worker.py).
THEOREM Invariance == Spec => []Consistent
<1>1. Init => Core
  BY InitCore
<1>2. Core /\ [Next]_vars => Core'
  BY CoreStep
<1>3. Core => Consistent
  BY CoreIsConsistent
<1>4. QED
  BY <1>1, <1>2, <1>3, PTL DEF Spec

\* At the moment the agent is asked to delete a copy it is neither pinned nor being
\* restored, and as many newer copies as the policy keeps exist and need no upload
\* (classify and the second classification right before a deletion).
THEOREM KeepsPolicy == Spec => PolicyKept
<1> DEFINE A == hand # None /\ hand \in files \ files' =>
                 LET policy == Policy(trigger)
                     kept == {a \in Newer(hand) : Recorded(a, hand[2])}
                 IN  /\ hand[1] \notin pinned \cup restoring /\ ~policy.dry
                     /\ \E enough \in SUBSET kept :
                          /\ Cardinality(enough) = Keep(hand[2], policy)
                          /\ hand[2] = "host" => \A a \in enough \cup {hand[1]} : Safe(a)
<1>1. Core => A
  <2> SUFFICES ASSUME Core, hand # None, hand \in files \ files' PROVE A
    OBVIOUS
  <2>1. TypeOK /\ RecordsAgree /\ InHand \subseteq Plan(trigger)
    BY DEF Core, PassIsCurrent
  <2>2. hand \in Plan(trigger) /\ trigger \in Backups
    BY <2>1 DEF TypeOK, InHand, Passing, Made
  <2>3. hand[1] \notin pinned \cup restoring /\ ~Policy(trigger).dry
    BY <2>2, PlannedCopy
  <2>4. \E enough \in SUBSET {a \in Newer(hand) : Recorded(a, hand[2])} :
           /\ Cardinality(enough) = Keep(hand[2], Policy(trigger))
           /\ hand[2] = "host" => \A a \in enough \cup {hand[1]} : Safe(a)
    BY <2>1, <2>2, EnoughKept
  <2>5. QED
    BY <2>3, <2>4
<1>2. Init => Core
  BY InitCore
<1>3. Core /\ [Next]_vars => Core' /\ [A]_files
  BY <1>1, CoreStep
<1>4. PolicyKept <=> [][A]_files
  BY DEF PolicyKept
<1> HIDE DEF A
<1>5. QED
  BY <1>2, <1>3, <1>4, PTL DEF Spec

=============================================================================

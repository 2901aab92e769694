------------------------------ MODULE Priority ------------------------------
(***************************************************************************)
(* How a triage report ranks its rules (priority.py): a rule's fragility   *)
(* tier and the age of its last behavioural change are two axes, its label *)
(* is their cell in a fixed table, and the report counts and orders the    *)
(* rules by them.                                                          *)
(*                                                                         *)
(* A rule is the record of RuleSignals: behavioral_commit_count as commits,*)
(* days_since_behavioral_change as days, age_days as age, and the tier and *)
(* unscoreable flag of its FragilitySignal.  The sentences written about   *)
(* it are left out.                                                        *)
(***************************************************************************)
EXTENDS Tiers, Arrange

CONSTANTS
    StaleDays,      \* STALE_DAYS
    RecentDays,     \* RECENT_DAYS
    None            \* Python's None

FragileTiers == {"IOC", "Artifact", "Tool"}

Bands == {"stale_over_2yr", "aging_6mo_to_2yr", "fresh_under_6mo"}
LabelRank == [CRITICAL |-> 0, HIGH |-> 1, MEDIUM |-> 2, LOW |-> 3]
Labels == DOMAIN LabelRank

ASSUME PriorityAssumption ==
    /\ StaleDays \in Nat /\ RecentDays \in Nat
    /\ RecentDays <= StaleDays
    /\ None \notin Nat /\ None \notin Tiers \cup Bands \cup Labels

RuleSignals == [file : STRING, commits : Nat, neverRevised : BOOLEAN,
                days : Nat \cup {None}, age : Nat \cup {None},
                tier : Tiers \cup {None}, unscoreable : BOOLEAN]

-----------------------------------------------------------------------------
\* The days both axes read: since the last behavioural change or, of a rule
\* that never had one, since its creation.
DaysUntouched(sig) == IF sig.neverRevised THEN sig.age ELSE sig.days

\* _is_stale and _is_fragile.
IsStale(sig) == DaysUntouched(sig) # None /\ DaysUntouched(sig) > StaleDays
IsFragile(sig) == sig.tier \in FragileTiers

\* Mutant: a rule that was never revised has no age.
StalenessBandOfRevised(sig) ==
    IF sig.days = None THEN None
    ELSE IF sig.days > StaleDays THEN "stale_over_2yr"
    ELSE IF sig.days < RecentDays THEN "fresh_under_6mo"
    ELSE "aging_6mo_to_2yr"

StalenessBand(sig) ==
    LET days == DaysUntouched(sig)
    IN  IF days = None THEN None
        ELSE IF days > StaleDays THEN "stale_over_2yr"
        ELSE IF days < RecentDays THEN "fresh_under_6mo"
        ELSE "aging_6mo_to_2yr"

\* PRIORITY_MATRIX.
PriorityMatrix(tier, band) ==
    CASE tier \in {"IOC", "Artifact"} ->
            (CASE band = "stale_over_2yr"   -> "CRITICAL"
               [] band = "aging_6mo_to_2yr" -> "HIGH"
               [] band = "fresh_under_6mo"  -> "MEDIUM")
      [] tier = "Tool" ->
            (CASE band = "stale_over_2yr"   -> "HIGH"
               [] band = "aging_6mo_to_2yr" -> "MEDIUM"
               [] band = "fresh_under_6mo"  -> "LOW")
      [] tier = "TTP" ->
            (CASE band = "stale_over_2yr"   -> "MEDIUM"
               [] band = "aging_6mo_to_2yr" -> "LOW"
               [] band = "fresh_under_6mo"  -> "LOW")

\* compute_priority: without a tier or without a band there is no label.
ComputePriority(sig) ==
    LET band == StalenessBand(sig)
    IN  IF sig.unscoreable \/ sig.tier = None
        THEN [label |-> None, tier |-> None, band |-> band, uncertain |-> TRUE]
        ELSE IF band = None
        THEN [label |-> None, tier |-> sig.tier, band |-> None,
              uncertain |-> TRUE]
        ELSE [label |-> PriorityMatrix(sig.tier, band), tier |-> sig.tier,
              band |-> band, uncertain |-> FALSE]

\* _hypotheses.
Hypotheses(sig) ==
    LET age == IF sig.age = None THEN 0 ELSE sig.age
    IN  IF sig.tier = None THEN {} ELSE
        {h \in {"likely-repairable", "likely-needs-telemetry-check",
                "likely-retire"} :
            CASE h = "likely-repairable" -> IsFragile(sig) /\ sig.commits > 0
              [] h = "likely-needs-telemetry-check" ->
                    sig.neverRevised /\ age > StaleDays
              [] h = "likely-retire" -> /\ IsFragile(sig) /\ sig.neverRevised
                                        /\ age > 2 * StaleDays}

-----------------------------------------------------------------------------
(***************************************************************************)
(* A report: sequences of scored and of unscored rules.                    *)
(***************************************************************************)
HowMany(rules, Test(_)) == Cardinality({i \in DOMAIN rules : Test(rules[i])})

\* one_line_summary counts every rule, bucket_counts the scored ones.
NeedsAttention(sig) == IsFragile(sig) /\ IsStale(sig)
OneLineSummary(scoreable, unscoreable) ==
    LET all == scoreable \o unscoreable
    IN  [rules   |-> Len(all),
         fragile |-> HowMany(all, IsFragile),
         stale   |-> HowMany(all, IsStale),
         need    |-> HowMany(all, NeedsAttention)]

\* Mutant: only scored rules can be uncertain.
PriorityBreakdownOfScored(scoreable, unscoreable) ==
    [label \in Labels \cup {"UNCERTAIN"} |->
        LET Has(sig) ==
                LET p == ComputePriority(sig)
                IN  IF p.uncertain THEN label = "UNCERTAIN"
                    ELSE p.label = label
        IN  HowMany(scoreable, Has)]

\* priority_breakdown.
PriorityBreakdown(scoreable, unscoreable) ==
    [label \in Labels \cup {"UNCERTAIN"} |->
        LET Has(sig) ==
                LET p == ComputePriority(sig)
                IN  IF p.uncertain THEN label = "UNCERTAIN"
                    ELSE p.label = label
        IN  HowMany(scoreable \o unscoreable, Has)]

\* Python's x or y for a number or None.
OrElse(x, y) == IF x \in {None, 0} THEN y ELSE x

\* Mutant: the rules untouched for the shortest time come first.
DaysKeyUp(sig) == OrElse(OrElse(sig.days, sig.age), 0)

\* The last part of the sort keys.
DaysKey(sig) == -OrElse(OrElse(sig.days, sig.age), 0)

\* sorted_scoreable: the keys of its three orderings ...
SortKey(sig, ordering) ==
    LET tier  == IF sig.tier = None THEN 99 ELSE TierRank[sig.tier]
        never == IF sig.neverRevised THEN 0 ELSE 1
        label == ComputePriority(sig).label
    IN  CASE ordering = "staleness_first" -> <<never, DaysKey(sig), tier>>
          [] ordering = "priority_first" ->
                <<IF label = None THEN 99 ELSE LabelRank[label],
                  tier, never, DaysKey(sig)>>
          [] ordering = "tier_first" -> <<tier, never, DaysKey(sig)>>

\* ... compared from the left, the sort being stable.
LexLess(a, b) == \E i \in DOMAIN a : /\ a[i] < b[i]
                                     /\ \A k \in 1 .. i - 1 : a[k] = b[k]
SortedScoreable(rules, ordering) ==
    LET key(i) == SortKey(rules[i], ordering)
        before(i, j) == \/ LexLess(key(i), key(j))
                        \/ key(i) = key(j) /\ i <= j
        places == DOMAIN rules
    IN  Arranged(rules, places, {e \in places \X places : before(e[1], e[2])})
=============================================================================

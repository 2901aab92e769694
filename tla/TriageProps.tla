----------------------------- MODULE TriageProps -----------------------------
(***************************************************************************)
(* What a triage report promises.                                          *)
(***************************************************************************)
EXTENDS Triage

\* Texts, commits and reports have their types, and a rule in a report has a
\* tier or is unscoreable, never both or neither (RuleSignals).
TypeOK ==
    /\ work \in [Files -> Drafted \cup {NoText}]
    /\ log \in Seq(Commits)
    /\ edits \in 0 .. MaxEdits
    /\ phase \in {"idle", "mined", "stale", "diffed", "classifying", "done",
                  "failed"}
    /\ mined \in 0 .. Len(log)
    /\ {seen, seen2, seen3} \subseteq SUBSET Files
    /\ behavioral \subseteq 1 .. mined
    /\ read \in Seq(Drafted \cup {NoText}) /\ signals \in Seq(RuleSignals)
    /\ Len(signals) = Len(read) /\ Len(read) <= Cardinality(seen)
    /\ \A i \in DOMAIN signals :
          signals[i].unscoreable <=> signals[i].tier = None

-----------------------------------------------------------------------------
\* The rules of a finished report, and those of them a syntax tree was built of.
Ranked == IF phase = "done" THEN DOMAIN read ELSE {}
FirstRule(i) == LoadFile(read[i]).rules[1]
Judged == {i \in Ranked : ~signals[i].unscoreable /\ FirstRule(i).corr = "no"}

\* The tier of a rule is what it costs to evade it: an attacker who can
\* change what the criteria up to some tier match still sets it off exactly
\* if its own tier is above that one.  What STP says of AND and OR
\* (_combine_ast_tier), for the rules no structural detector promotes.
TierIsEvasionCost ==
    \A i \in Judged :
       LET rule == RuleOf(FirstRule(i))
           rank == TierRank[signals[i].tier]
       IN  Plain(rule) /\ StructuralHits(rule) = {} =>
              \A reach \in -1 .. 3 :
                 RuleStillFires(rule, reach) <=> reach < rank

\* A filter is noise reduction (_combine_ast_tier, detect_absence): excluding
\* one more leaves a rule its tier, unless the filter names the program the
\* rule claims (FIELD_MISMATCH) or tells that the source is a cloud audit log.
FilterIsNoiseReduction ==
    \A i \in Judged :
       LET doc == FirstRule(i)
           excluded == [doc EXCEPT !.detection.conditions[1] =
                                      Recondition(@, "exclude")]
           cloud(d) == IsCloudAuditContext(LeavesOfRule(RuleOf(d).ast))
       IN  \/ Scored(excluded) = Scored(doc)
           \/ "FIELD_MISMATCH" \in ClassifyRule(RuleOf(excluded)).findings
           \/ cloud(excluded) # cloud(doc)

\* Only what mechanic scan counts as loaded, and not as failed, has a tier.
ScoredFilesLoad ==
    \A i \in Ranked : ~signals[i].unscoreable =>
       LET one == [f \in {Rows[i]} |-> read[i]]
       IN  FilesOk(one) = {Rows[i]} /\ FilesFailed(one, {Rows[i]}) = {}

\* A scanned file does not vanish from the counts (parse_text), whatever
\* validators crash, and only a file of several documents is counted twice.
\* Known exceptions: EveryFileInOneBucket, NoFileKillsTheBatch.
EveryFileAccounted ==
    LET files == [f \in Exists |-> work[f]]
    IN  ~ScanRaises(files) => \A crashing \in SUBSET Exists :
           /\ FilesOk(files) \cup FilesFailed(files, crashing) = Exists
           /\ \A f \in FilesOk(files) \cap FilesFailed(files, crashing) :
                 Len(work[f].docs) > 1

-----------------------------------------------------------------------------
\* The revisions of a file that count, by what git holds.
Revisions(f) == {i \in TouchesOf(f) : /\ log[i].organic
                                      /\ log[i].text # NoText
                                      /\ Before(i) # NoText}
MeaningChanged(i) == Meaning(Before(i)) # Meaning(log[i].text)
LogicChanged(i) == Logic(Before(i)) # Logic(log[i].text)

\* What rewording can be told from a change of the logic: one and the same
\* number of documents, all of them rules, and keys in the same order.
Comparable(b, a) ==
    /\ b.yaml = "ok" /\ a.yaml = "ok" /\ Len(b.docs) = Len(a.docs)
    /\ \A i \in DOMAIN b.docs : /\ b.docs[i].kind = "rule"
                                /\ a.docs[i].kind = "rule"
                                /\ b.docs[i].order = a.docs[i].order

\* A rule is called never revised only if no organic commit of it changed what
\* it matches.  Known exceptions: a change between two texts without any
\* recognizable key is unknown, and a file that is gone when the second pass
\* looks has no revisions.
NeverRevisedIsTrue ==
    \A i \in Ranked : signals[i].neverRevised /\ Rows[i] \in seen2 =>
       \A r \in Revisions(Rows[i]) :
          MeaningChanged(r) => ~Before(r).keys /\ ~log[r].text.keys

\* "Touched recently" is not "still maintained" (semantic_diff.py): commits
\* that leave the logic of a rule as it is do not make it any fresher.  Known
\* exception: KeyOrderDoesNotRefresh.
CosmeticsDoNotRefresh ==
    \A i \in Ranked :
       LET f == Rows[i]
           touched == Revisions(f)
       IN  (\A r \in touched : /\ ~LogicChanged(r)
                               /\ Comparable(Before(r), log[r].text)) =>
              /\ signals[i].neverRevised
              /\ StalenessBand(signals[i]) =
                    StalenessBand([neverRevised |-> TRUE, days |-> None,
                                   age |-> AgeDays(f)])

\* A rule that does not load, or a version of one, is isolated (parse_text,
\* _try_ast_classification): a report that finds rules fails only for a
\* version with an impossible date, which PyYAML raises as no YAMLError.
\* Known exception: NoRuleCrashesTriage, which is about these dates.
OnlyBadDatesFail ==
    phase = "failed" =>
       \/ {} \in {seen, seen2}
       \/ \E f \in seen2 : \E r \in Revisions(f) :
             "raises" \in {Before(r).yaml, log[r].text.yaml}

-----------------------------------------------------------------------------
\* priority_breakdown "always sums to rule_count", and every file the report
\* began with is in it once, even if it was deleted on the way.
AllRulesCounted ==
    phase = "done" =>
       LET scored   == Scoreable
           unscored == UnscoreableRules
           count    == PriorityBreakdown(scored, unscored)
           files(rules) == {rules[i].file : i \in DOMAIN rules}
       IN  /\ files(scored) \cup files(unscored) = seen
           /\ Len(scored) + Len(unscored) = Cardinality(seen)
           /\ count["CRITICAL"] + count["HIGH"] + count["MEDIUM"] + count["LOW"]
                 + count["UNCERTAIN"] = Cardinality(seen)

\* The summary's "need attention" and the labels are two tables over the same
\* axes and agree: what needs attention is CRITICAL or HIGH, and what is
\* CRITICAL needs attention.
AttentionAgreesWithLabels ==
    \A i \in Ranked :
       LET label == ComputePriority(signals[i]).label
       IN  /\ NeedsAttention(signals[i]) => label \in {"CRITICAL", "HIGH"}
           /\ label = "CRITICAL" => NeedsAttention(signals[i])

\* sorted_scoreable: "never-revised first, then longest-stale first", within
\* a tier.  Known exception: StalestFirstOfAll, a rule changed today.
LongestStaleFirst ==
    phase = "done" =>
       LET rules == SortedScoreable(Scoreable, "tier_first")
       IN  \A p, q \in DOMAIN rules :
              LET a == rules[p]
                  b == rules[q]
              IN  /\ p < q /\ a.tier = b.tier
                  /\ None \notin {DaysUntouched(a), DaysUntouched(b)}
                  /\ 0 \notin {a.days, b.days}
                  => \/ a.neverRevised /\ ~b.neverRevised
                     \/ /\ a.neverRevised = b.neverRevised
                        /\ DaysUntouched(a) >= DaysUntouched(b)
-----------------------------------------------------------------------------
(***************************************************************************)
(* Statements of the repository that the code does not keep, without the   *)
(* exceptions made above.  Runs refute them.                               *)
(***************************************************************************)
\* parse_text: "every scanned file is accounted for in exactly one bucket".
\* The rules and the failures of a file with several documents count apart.
EveryFileInOneBucket ==
    LET files == [f \in Exists |-> work[f]]
    IN  ~ScanRaises(files) =>
           \A f \in Exists : f \in FilesOk(files) <=> f \notin FilesFailed(files, {})

\* test_loader_adversarial.py: "one malformed file never kills a batch".
\* load_ruleset catches nothing, and parse_text a YAMLError only.
NoFileKillsTheBatch == ~ScanRaises([f \in Exists |-> work[f]])

\* _sigma_fragility: "One malformed rule must not crash triage for the whole
\* corpus": a report fails where there is no rule.  The versions a report
\* compares are parsed without the guard that the scoring has.
NoRuleCrashesTriage == phase = "failed" => {} \in {seen, seen2}

\* The loader and the triage promise the same (_sigma_fragility: "exactly this
\* kind of fault isolation"): what is wrong with one file, now or in one of its
\* versions, is counted against that file once and keeps no other file from
\* being loaded or ranked.
FaultsAreIsolated ==
    NoFileKillsTheBatch /\ EveryFileInOneBucket /\ NoRuleCrashesTriage

\* semantic_diff.py: "key-order" is cosmetic, and the comparison of trees is
\* "robust to key reordering": commits that only reorder keys are no revision.
\* The tree lists the items of a selection as they are written.
KeyOrderDoesNotRefresh ==
    LET unordered(t) ==
            [t EXCEPT !.docs = [k \in DOMAIN @ |-> [@[k] EXCEPT !.order = 0]]]
    IN  \A i \in Ranked :
           (\A r \in Revisions(Rows[i]) :
               unordered(Before(r)) = unordered(log[r].text))
           => signals[i].neverRevised

\* sorted_scoreable: "then longest-stale first", of two revised rules of a
\* tier.  Where days are 0, `or` goes on to the age of the rule.
StalestFirstOfAll ==
    phase = "done" =>
       LET rules == SortedScoreable(Scoreable, "tier_first")
       IN  \A p, q \in DOMAIN rules :
              /\ p < q /\ rules[p].tier = rules[q].tier
              /\ None \notin {rules[p].days, rules[q].days}
              => rules[p].days >= rules[q].days
=============================================================================

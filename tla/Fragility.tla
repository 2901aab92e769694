------------------------------ MODULE Fragility ------------------------------
(***************************************************************************)
(* The fragility tier of a whole rule: the structural detectors            *)
(* (structural_detectors.py) and, where none applies, the combination of   *)
(* its criteria's tiers (fragility.classify_rule).  Not modelled: the      *)
(* parameters kept for the ablation study (use_structural, lists_mode,     *)
(* combine_mode).                                                          *)
(*                                                                         *)
(* A rule is [corr, ast]: a correlation rule has no conditions.            *)
(***************************************************************************)
EXTENDS RuleAst, FiniteSetsExt

-----------------------------------------------------------------------------
\* detect_field_mismatch: a name claimed in one place and excluded in the
\* other, or two fields that name the program compared with each other.
Identity(f) == IF f \in Fields THEN FieldTable[f].identity ELSE "none"
SameBasename(m, p) ==
    /\ ValueTable[m.value].basename # ""
    /\ ValueTable[m.value].basename = ValueTable[p.value].basename
FieldMismatch(ast) ==
    \/ \E m, p \in LeavesOfRule(ast) :
          /\ Identity(m.field) = "metadata" /\ Identity(p.field) = "path"
          /\ m.negated # p.negated
          /\ SameBasename(m, p)
    \/ \E l \in LeavesOfRule(ast) :
          /\ l.ref
          /\ Identity(l.field) # "none" /\ Identity(l.value) # "none"
          /\ l.field # l.value

\* detect_absence: a selection not named as a filter asks for an absent field
\* (no value at all, or null as one), or is excluded as a whole.
Absence(ast) ==
    \E sel \in SelectionsOfRule(ast) :
       /\ sel.kind # "filter"
       /\ LET under == Leaves(sel)
          IN  \/ \E l \in under : l.null \/ Has(l.value, "null")
              \/ under # {} /\ \A l \in under : l.negated

\* detect_unscoreable: a selector may have matched no selection.
Unscoreable(rule) == ~rule.corr /\ LeavesOfRule(rule.ast) = {}

\* run_all_detectors, without UNSCOREABLE: detect_rarity and
\* detect_correlation hold of every correlation rule.
StructuralHits(rule) ==
    IF rule.corr THEN {"RARITY", "CORRELATION"}
    ELSE {d \in {"FIELD_MISMATCH", "ABSENCE"} :
             CASE d = "FIELD_MISMATCH" -> FieldMismatch(rule.ast)
               [] d = "ABSENCE" -> Absence(rule.ast)}

-----------------------------------------------------------------------------
\* classify_rule: the leaves that may set the tier, and whether selectors of
\* a data source are all there is of them.
Positive(ast) == {l \in LeavesOfRule(ast) : ~l.negated /\ ~l.null}
EventIdIsSoleCriterion(ast) ==
    /\ Positive(ast) # {}
    /\ \A l \in Positive(ast) : IsDataSourceSelector(l.field)

RankOf(leaf, cloud) == TierRank[ClassifyAtom(leaf.field, leaf.value, cloud)]
Nothing == -1

\* A leaf counts with its own rank, or not at all.
Counts(leaf, sole) == /\ ~leaf.negated /\ ~leaf.null
                      /\ sole \/ ~IsDataSourceSelector(leaf.field)
RankOfCriterion(leaf, cloud, sole) ==
    IF Counts(leaf, sole) THEN RankOf(leaf, cloud) ELSE Nothing

\* Mutant: a selector needs all of the selections it names.
CombineAllSelected(node, cloud, sole) ==
    LET combine[n \in Trees] ==
          LET ranks == {combine[n.children[i]] : i \in DOMAIN n.children}
                           \ {Nothing}
          IN  CASE n.node = "leaf" -> RankOfCriterion(n, cloud, sole)
                [] n.node = "not" -> Nothing
                [] n.node = "selection" /\ n.kind = "filter" -> Nothing
                [] OTHER -> IF ranks = {} THEN Nothing
                            ELSE IF n.node = "or" THEN Max(ranks) ELSE Min(ranks)
    IN  combine[node]

\* _combine_ast_tier: to defeat an AND the weakest criterion is enough, to
\* defeat an OR it takes the strongest; what is excluded or only narrows the
\* noise does not count.
CombineAstTier(node, cloud, sole) ==
    LET combine[n \in Trees] ==
          LET ranks == {combine[n.children[i]] : i \in DOMAIN n.children}
                           \ {Nothing}
          IN  CASE n.node = "leaf" -> RankOfCriterion(n, cloud, sole)
                [] n.node = "not" -> Nothing
                [] n.node = "selection" /\ n.kind = "filter" -> Nothing
                [] OTHER -> IF ranks = {} THEN Nothing
                            ELSE IF n.node \in {"or", "any"} THEN Max(ranks)
                            ELSE Min(ranks)
    IN  combine[node]

\* classify_rule, for its defaults.  Several conditions are several ways to
\* fire.
ClassifyRule(rule) ==
    LET hits  == StructuralHits(rule)
        cloud == IsCloudAuditContext(LeavesOfRule(rule.ast))
        sole  == EventIdIsSoleCriterion(rule.ast)
        roots == {CombineAstTier(rule.ast[c], cloud, sole) :
                  c \in DOMAIN rule.ast} \ {Nothing}
    IN  IF Unscoreable(rule) THEN [rank |-> Nothing, findings |-> {}]
        ELSE IF hits # {} THEN [rank |-> TierRank["TTP"], findings |-> hits]
        ELSE [rank |-> IF roots = {} THEN Nothing ELSE Max(roots),
              findings |-> {}]

-----------------------------------------------------------------------------
(***************************************************************************)
(* What a tier promises, said without combining anything: an attacker can  *)
(* change what the criteria of some rank or less match, and nothing else.  *)
(* The rule still fires where it fired before unless that reaches it.      *)
(***************************************************************************)
\* The rule fires where all its criteria are met, after an attacker has
\* changed those within reach; what only picks the data source stays.
StillFires(node, reach, cloud, sole) ==
    LET fires[n \in Trees] ==
          \/ /\ n.node = "leaf" /\ ~n.negated
             /\ \/ IsDataSourceSelector(n.field) /\ ~sole
                \/ RankOf(n, cloud) > reach
          \/ n.node = "not" /\ ~fires[n.children[1]]
          \/ /\ n.node \in {"selection", "and", "all"}
             /\ \A i \in DOMAIN n.children : fires[n.children[i]]
          \/ /\ n.node \in {"or", "any"}
             /\ \E i \in DOMAIN n.children : fires[n.children[i]]
    IN  fires[node]

RuleStillFires(rule, reach) ==
    \E c \in DOMAIN rule.ast :
       StillFires(rule.ast[c], reach,
                  IsCloudAuditContext(LeavesOfRule(rule.ast)),
                  EventIdIsSoleCriterion(rule.ast))

\* The rules of which that can be asked: exclusions exclude and filters are
\* exclusions, and what does not count is no alternative to what does, within
\* a condition or as a condition of its own.
Plain(rule) ==
    LET sole == EventIdIsSoleCriterion(rule.ast)
        counts(n) == \E l \in Leaves(n) : Counts(l, sole)
        alike(alternatives) ==
            \A i, k \in DOMAIN alternatives :
               counts(alternatives[i]) = counts(alternatives[k])
    IN  /\ alike(rule.ast)
        /\ \A n \in NodesOfRule(rule.ast) : n.node # "leaf" =>
              /\ n.children # <<>>
              /\ \/ n.node = "not"
                 \/ n.node = "selection" /\ n.kind = "filter"
                 => \A l \in Leaves(n) : l.negated
              /\ n.node \in {"or", "any"} => alike(n.children)
=============================================================================

----------------------------- MODULE TriageProofs -----------------------------
(***************************************************************************)
(* What a triage report promises, for any corpus, any history and any      *)
(* number of edits; and the labels, for every rule: any tier, any number   *)
(* of days and any thresholds.                                             *)
(***************************************************************************)
EXTENDS TriageProps, FragilityProofs, FiniteSetTheorems

-----------------------------------------------------------------------------
(***************************************************************************)
(* The labels.                                                             *)
(***************************************************************************)
\* A rule that has a value on both axes.
Rated(sig) == ~sig.unscoreable /\ sig.tier # None /\ DaysUntouched(sig) # None

LEMMA LabelsAre == Labels = {"CRITICAL", "HIGH", "MEDIUM", "LOW"}
BY DEF Labels, LabelRank

LEMMA DaysType ==
    ASSUME NEW sig \in RuleSignals
    PROVE  DaysUntouched(sig) \in Nat \cup {None}
BY DEF RuleSignals, DaysUntouched

\* _is_stale and the oldest band are one and the same.
LEMMA StaleBand ==
    ASSUME NEW sig \in RuleSignals
    PROVE  /\ StalenessBand(sig) \in Bands \cup {None}
           /\ StalenessBand(sig) = None <=> DaysUntouched(sig) = None
           /\ IsStale(sig) <=> StalenessBand(sig) = "stale_over_2yr"
BY DaysType, PriorityAssumption DEF StalenessBand, Bands, IsStale

\* The label of a rated rule is its cell.
LEMMA RatedLabel ==
    ASSUME NEW sig \in RuleSignals, Rated(sig)
    PROVE  /\ sig.tier \in Tiers /\ StalenessBand(sig) \in Bands
           /\ ComputePriority(sig).label = PriorityMatrix(sig.tier, StalenessBand(sig))
           /\ ComputePriority(sig).label \in Labels
           /\ ComputePriority(sig).uncertain = FALSE
<1>1. sig.tier \in Tiers /\ StalenessBand(sig) \in Bands
  BY StaleBand DEF Rated, RuleSignals
<1>2. PriorityMatrix(sig.tier, StalenessBand(sig)) \in Labels
  BY <1>1, LabelsAre DEF PriorityMatrix, Tiers, Bands
<1>3. ComputePriority(sig) =
         [label |-> PriorityMatrix(sig.tier, StalenessBand(sig)),
          tier |-> sig.tier, band |-> StalenessBand(sig), uncertain |-> FALSE]
  BY <1>1, PriorityAssumption DEF ComputePriority, Rated
<1> QED
  BY <1>1, <1>2, <1>3

\* A rule has a label exactly if it has a tier and a number of days, and is
\* called uncertain exactly if it has none (compute_priority).
THEOREM UncertainIsUnlabelled ==
    ASSUME NEW sig \in RuleSignals
    PROVE  LET p == ComputePriority(sig)
           IN  /\ p.uncertain <=> ~Rated(sig)
               /\ p.uncertain <=> p.label = None
               /\ p.label \in Labels \cup {None}
<1>1. CASE Rated(sig)
  BY <1>1, RatedLabel, PriorityAssumption
<1>2. CASE ~Rated(sig)
  BY <1>2, StaleBand DEF Rated, ComputePriority
<1> QED
  BY <1>1, <1>2

\* What the summary says needs attention is labelled CRITICAL or HIGH, and
\* what is labelled CRITICAL needs attention, whatever the thresholds: the two
\* tables of priority.py agree on every rule that is scored.
THEOREM AttentionAgrees ==
    ASSUME NEW sig \in RuleSignals, ~sig.unscoreable
    PROVE  LET label == ComputePriority(sig).label
           IN  /\ NeedsAttention(sig) => label \in {"CRITICAL", "HIGH"}
               /\ label = "CRITICAL" => NeedsAttention(sig)
<1>1. CASE Rated(sig)
  <2>1. IsStale(sig) <=> StalenessBand(sig) = "stale_over_2yr"
    BY StaleBand
  <2> QED
    BY <1>1, <2>1, RatedLabel
       DEF NeedsAttention, IsFragile, FragileTiers, PriorityMatrix, Tiers, Bands
<1>2. CASE ~Rated(sig)
  <2>1. ~NeedsAttention(sig)
    BY <1>2, PriorityAssumption
       DEF Rated, NeedsAttention, IsFragile, IsStale, FragileTiers, Tiers
  <2>2. ComputePriority(sig).label = None
    BY <1>2, UncertainIsUnlabelled
  <2> QED
    BY <2>1, <2>2, PriorityAssumption, LabelsAre
<1> QED
  BY <1>1, <1>2

\* The order of the bands, the oldest first.
BandRank == [stale_over_2yr |-> 0, aging_6mo_to_2yr |-> 1, fresh_under_6mo |-> 2]

LEMMA OlderBand ==
    ASSUME NEW a \in RuleSignals, NEW b \in RuleSignals, Rated(a), Rated(b),
           DaysUntouched(a) >= DaysUntouched(b)
    PROVE  BandRank[StalenessBand(a)] <= BandRank[StalenessBand(b)]
BY DaysType, PriorityAssumption DEF Rated, StalenessBand, BandRank

LEMMA MatrixMonotone ==
    ASSUME NEW t \in Tiers, NEW u \in Tiers, NEW b \in Bands, NEW c \in Bands,
           TierRank[t] <= TierRank[u], BandRank[b] <= BandRank[c]
    PROVE  LabelRank[PriorityMatrix(t, b)] <= LabelRank[PriorityMatrix(u, c)]
BY DEF Tiers, Bands, TierRank, BandRank, LabelRank, PriorityMatrix

\* PRIORITY_MATRIX is monotone in both axes: a rule no harder to evade, and
\* untouched for no less time, has no better label.
THEOREM LabelsAreMonotone ==
    ASSUME NEW a \in RuleSignals, NEW b \in RuleSignals, Rated(a), Rated(b),
           TierRank[a.tier] <= TierRank[b.tier],
           DaysUntouched(a) >= DaysUntouched(b)
    PROVE  LabelRank[ComputePriority(a).label]
              <= LabelRank[ComputePriority(b).label]
BY RatedLabel, OlderBand, MatrixMonotone

-----------------------------------------------------------------------------
(***************************************************************************)
(* The counts.                                                             *)
(***************************************************************************)
\* The name under which priority_breakdown counts a rule.
CountedAs(sig) == LET p == ComputePriority(sig)
                  IN  IF p.uncertain THEN "UNCERTAIN" ELSE p.label
CountedUnder(rules, name) == {i \in DOMAIN rules : CountedAs(rules[i]) = name}

LEMMA Breakdown ==
    ASSUME NEW scored \in Seq(RuleSignals), NEW unscored \in Seq(RuleSignals),
           NEW name \in Labels \cup {"UNCERTAIN"}
    PROVE  PriorityBreakdown(scored, unscored)[name]
              = Cardinality(CountedUnder(scored \o unscored, name))
<1> DEFINE rules == scored \o unscored
           Under(sig) == LET p == ComputePriority(sig)
                       IN  IF p.uncertain THEN name = "UNCERTAIN"
                           ELSE p.label = name
<1>1. rules \in Seq(RuleSignals)
  OBVIOUS
<1>2. PriorityBreakdown(scored, unscored)[name]
         = Cardinality({i \in DOMAIN rules : Under(rules[i])})
  BY DEF PriorityBreakdown, HowMany
<1>3. ASSUME NEW i \in DOMAIN rules
      PROVE  Under(rules[i]) <=> CountedAs(rules[i]) = name
  BY DEF CountedAs
<1>4. {i \in DOMAIN rules : Under(rules[i])} = CountedUnder(rules, name)
  BY <1>3 DEF CountedUnder
<1> QED
  BY <1>2, <1>4

\* priority_breakdown "always sums to rule_count": every rule of a report is
\* counted under one name, however many there are.
THEOREM AllRulesAreCounted ==
    ASSUME NEW scored \in Seq(RuleSignals), NEW unscored \in Seq(RuleSignals)
    PROVE  LET count == PriorityBreakdown(scored, unscored)
           IN  count["CRITICAL"] + count["HIGH"] + count["MEDIUM"]
                  + count["LOW"] + count["UNCERTAIN"]
                  = Len(scored) + Len(unscored)
<1> DEFINE rules == scored \o unscored
           U(name) == CountedUnder(rules, name)
<1>1. /\ rules \in Seq(RuleSignals)
      /\ Len(rules) = Len(scored) + Len(unscored)
      /\ DOMAIN rules = 1 .. Len(rules)
  OBVIOUS
<1> HIDE DEF rules
<1>2. ASSUME NEW i \in DOMAIN rules
      PROVE  CountedAs(rules[i]) \in
                {"CRITICAL", "HIGH", "MEDIUM", "LOW", "UNCERTAIN"}
  BY <1>1, UncertainIsUnlabelled, LabelsAre DEF CountedAs
<1>3. DOMAIN rules = U("CRITICAL") \cup (U("HIGH") \cup (U("MEDIUM")
                        \cup (U("LOW") \cup U("UNCERTAIN"))))
  BY <1>2 DEF CountedUnder
<1>4. IsFiniteSet(DOMAIN rules) /\ Cardinality(DOMAIN rules) = Len(rules)
  BY <1>1, FS_Interval
<1>5. ASSUME NEW name PROVE IsFiniteSet(U(name))
  BY <1>4, FS_Subset DEF CountedUnder
<1>6. ASSUME NEW S, NEW T, IsFiniteSet(S), IsFiniteSet(T), S \cap T = {}
      PROVE  /\ IsFiniteSet(S \cup T)
             /\ Cardinality(S \cup T) = Cardinality(S) + Cardinality(T)
  <2>1. /\ IsFiniteSet(S \cup T)
        /\ Cardinality(S \cup T)
              = Cardinality(S) + Cardinality(T) - Cardinality(S \cap T)
    BY <1>6, FS_Union
  <2>2. Cardinality(S \cap T) = 0
    BY <1>6, FS_EmptySet
  <2> QED
    BY <1>6, <2>1, <2>2, FS_CardinalityType
<1>7. ASSUME NEW m, NEW n, m # n PROVE U(m) \cap U(n) = {}
  BY <1>7 DEF CountedUnder
<1> HIDE DEF U
<1> DEFINE A == U("LOW") \cup U("UNCERTAIN")
           B == U("MEDIUM") \cup A
           C == U("HIGH") \cup B
<1>8. /\ IsFiniteSet(A)
      /\ Cardinality(A) = Cardinality(U("LOW")) + Cardinality(U("UNCERTAIN"))
  BY <1>5, <1>6, <1>7
<1>9. /\ IsFiniteSet(B)
      /\ Cardinality(B) = Cardinality(U("MEDIUM")) + Cardinality(A)
  <2>1. U("MEDIUM") \cap A = {}
    BY <1>7
  <2> QED
    BY <1>5, <1>6, <1>8, <2>1
<1>10. /\ IsFiniteSet(C)
       /\ Cardinality(C) = Cardinality(U("HIGH")) + Cardinality(B)
  <2>1. U("HIGH") \cap B = {}
    BY <1>7
  <2> QED
    BY <1>5, <1>6, <1>9, <2>1
<1>11. Len(rules) = Cardinality(U("CRITICAL")) + Cardinality(C)
  <2>1. U("CRITICAL") \cap C = {}
    BY <1>7
  <2> QED
    BY <1>3, <1>4, <1>5, <1>6, <1>10, <2>1
<1>12. \A name \in Labels \cup {"UNCERTAIN"} :
          /\ PriorityBreakdown(scored, unscored)[name] = Cardinality(U(name))
          /\ Cardinality(U(name)) \in Nat
  BY <1>5, Breakdown, FS_CardinalityType DEF U, rules
<1> HIDE DEF A, B, C
<1> DEFINE N(name) == Cardinality(U(name))
<1>13. /\ N("CRITICAL") \in Nat /\ N("HIGH") \in Nat /\ N("MEDIUM") \in Nat
       /\ N("LOW") \in Nat /\ N("UNCERTAIN") \in Nat
  BY <1>12, LabelsAre
<1>14. Len(rules) = N("CRITICAL") + N("HIGH") + N("MEDIUM") + N("LOW")
                       + N("UNCERTAIN")
  BY <1>8, <1>9, <1>10, <1>11, <1>13
<1>15. ASSUME NEW name \in {"CRITICAL", "HIGH", "MEDIUM", "LOW", "UNCERTAIN"}
       PROVE  PriorityBreakdown(scored, unscored)[name] = N(name)
  BY <1>12, <1>15, LabelsAre
<1> HIDE DEF N
<1> QED
  BY <1>1, <1>14, <1>15

-----------------------------------------------------------------------------
(***************************************************************************)
(* Filtering and sorting.                                                  *)
(***************************************************************************)
TotalOrder(I, before) ==
    /\ \A i, j \in I : <<i, j>> \in before \/ <<j, i>> \in before
    /\ \A i, j \in I : <<i, j>> \in before /\ <<j, i>> \in before => i = j
    /\ \A i, j, k \in I : <<i, j>> \in before /\ <<j, k>> \in before => <<i, k>> \in before

\* What is arranged is every place of I once, in the order before.
Arranges(at, I, before) ==
    /\ at \in [1 .. Cardinality(I) -> I] /\ Cardinality(I) \in Nat
    /\ \A s : Arranged(s, I, before) = [p \in 1 .. Cardinality(I) |-> s[at[p]]]
    /\ \A i \in I : \E p \in 1 .. Cardinality(I) : at[p] = i
    /\ \A p, q \in 1 .. Cardinality(I) : at[p] = at[q] => p = q
    /\ \A p, q \in 1 .. Cardinality(I) : p < q => <<at[p], at[q]>> \in before

LEMMA Arrangement ==
    ASSUME NEW I, IsFiniteSet(I), NEW before, TotalOrder(I, before)
    PROVE  \E at : Arranges(at, I, before)
<1>. DEFINE n == Cardinality(I)
            below(i) == {j \in I : <<j, i>> \in before}
            place(i) == Cardinality(below(i))
            at == [p \in 1 .. n |-> CHOOSE i \in I : place(i) = p]
<1>1. n \in Nat
  BY FS_CardinalityType
<1>2. ASSUME NEW i \in I
      PROVE  /\ IsFiniteSet(below(i)) /\ place(i) \in 1 .. n
  <2>1. below(i) \subseteq I /\ i \in below(i)
    BY DEF TotalOrder
  <2>. HIDE DEF below
  <2>2. IsFiniteSet(below(i)) /\ place(i) <= n
    BY <2>1, FS_Subset
  <2>3. place(i) \in Nat /\ place(i) # 0
    BY <2>1, <2>2, FS_CardinalityType, FS_EmptySet
  <2>. QED  BY <1>1, <2>2, <2>3
<1>3. ASSUME NEW i \in I, NEW j \in I, <<i, j>> \in before, i # j
      PROVE  place(i) < place(j)
  <2>1. below(i) \subseteq below(j)
    BY <1>3 DEF TotalOrder
  <2>2. j \in below(j) /\ j \notin below(i)
    BY <1>3 DEF TotalOrder
  <2>3. below(i) # below(j) /\ IsFiniteSet(below(j))
    BY <1>2, <2>2
  <2>. HIDE DEF below
  <2>4. place(i) <= place(j) /\ place(i) # place(j)
    BY <2>1, <2>3, FS_Subset
  <2>5. place(i) \in 1 .. n /\ place(j) \in 1 .. n
    BY <1>2
  <2>. QED  BY <2>4, <2>5
<1>. HIDE DEF place, n, below
<1>4. ASSUME NEW i \in I, NEW j \in I, place(i) = place(j)  PROVE i = j
  <2>1. place(i) \in Int
    BY <1>1, <1>2
  <2>2. <<i, j>> \in before \/ <<j, i>> \in before
    BY DEF TotalOrder
  <2>. QED  BY <1>3, <1>4, <2>1, <2>2
<1>5. \A p \in 1 .. n : \E i \in I : place(i) = p
  <2>. DEFINE f == [i \in I |-> place(i)]
  <2>1. f \in Injection(I, 1 .. n)
    BY <1>2, <1>4 DEF Injection, IsInjective
  <2>2. IsFiniteSet(1 .. n) /\ Cardinality(1 .. n) = n
    BY <1>1, FS_Interval
  <2>. HIDE DEF f
  <2>3. f \in Surjection(I, 1 .. n)
    BY <2>1, <2>2, FS_Injection DEF n
  <2>. QED  BY <2>3 DEF Surjection, f
<1>6. \A p \in 1 .. n : at[p] \in I /\ place(at[p]) = p
  BY <1>5
<1>7. ASSUME NEW s  PROVE Arranged(s, I, before) = [p \in 1 .. n |-> s[at[p]]]
  <2>1. Arranged(s, I, before) = [p \in 1 .. n |-> s[CHOOSE i \in I : place(i) = p]]
    BY DEF Arranged, place, n, below
  <2>. QED  BY <2>1
<1>8. at \in [1 .. n -> I]
  BY <1>6
<1>. HIDE DEF at
<1>9. \A i \in I : \E p \in 1 .. n : at[p] = i
  BY <1>2, <1>4, <1>6
<1>10. \A p, q \in 1 .. n : at[p] = at[q] => p = q
  BY <1>6
<1>11. ASSUME NEW p \in 1 .. n, NEW q \in 1 .. n, p < q  PROVE <<at[p], at[q]>> \in before
  <2>1. at[p] \in I /\ at[q] \in I /\ at[p] # at[q]
    BY <1>1, <1>6, <1>11
  <2>2. CASE <<at[q], at[p]>> \in before
    <3>1. place(at[q]) < place(at[p])
      BY <1>3, <2>1, <2>2
    <3>. QED  BY <1>1, <1>6, <1>11, <3>1
  <2>. QED  BY <2>1, <2>2 DEF TotalOrder
<1>12. Arranges(at, I, before)
  BY <1>1, <1>7, <1>8, <1>9, <1>10, <1>11 DEF Arranges, n
<1>. WITNESS at
<1>. QED  BY <1>12

\* What is selected are the elements at the places I, in their order.
Selects(at, I) ==
    /\ at \in [1 .. Cardinality(I) -> I] /\ Cardinality(I) \in Nat
    /\ \A s : Selected(s, I) = [p \in 1 .. Cardinality(I) |-> s[at[p]]]
    /\ \A i \in I : \E p \in 1 .. Cardinality(I) : at[p] = i
    /\ \A p, q \in 1 .. Cardinality(I) : p < q => at[p] < at[q]

LEMMA Selection ==
    ASSUME NEW n \in Nat, NEW I \in SUBSET (1 .. n)
    PROVE  /\ \E at : Selects(at, I)
           /\ IsFiniteSet(I) /\ Cardinality(I) \in Nat
<1>. DEFINE before == {e \in I \X I : e[1] <= e[2]}
<1>1. IsFiniteSet(I)
  <2>1. IsFiniteSet(1 .. n)
    BY FS_Interval
  <2>. QED  BY <2>1, FS_Subset
<1>2. \A i, j \in I : <<i, j>> \in before <=> i <= j
  OBVIOUS
<1>8. \A i \in I : i \in Int
  OBVIOUS
<1>. HIDE DEF before
<1>3. TotalOrder(I, before)
  BY <1>2, <1>8 DEF TotalOrder
<1>4. PICK at : Arranges(at, I, before)
  BY <1>1, <1>3, Arrangement
<1>5. \A s : Selected(s, I) = Arranged(s, I, before)
  BY DEF Selected, before
<1>6. ASSUME NEW p \in 1 .. Cardinality(I), NEW q \in 1 .. Cardinality(I), p < q
      PROVE  at[p] < at[q]
  <2>1. at[p] \in I /\ at[q] \in I /\ <<at[p], at[q]>> \in before /\ at[p] # at[q]
    <3>1. at[p] \in I /\ at[q] \in I
      BY <1>4 DEF Arranges
    <3>2. <<at[p], at[q]>> \in before
      BY <1>4, <1>6 DEF Arranges
    <3>3. at[p] # at[q]
      BY <1>4, <1>6 DEF Arranges
    <3>. QED  BY <3>1, <3>2, <3>3
  <2>2. at[p] <= at[q] /\ at[p] \in Int /\ at[q] \in Int
    BY <1>2, <1>8, <2>1
  <2>. QED  BY <2>1, <2>2
<1>7. Selects(at, I)
  BY <1>4, <1>5, <1>6 DEF Arranges, Selects
<1>. QED  BY <1>1, <1>7, FS_CardinalityType

\* The length of a selection, and what it has.
LEMMA SelectedIs ==
    ASSUME NEW S, NEW s \in Seq(S), NEW I \in SUBSET DOMAIN s
    PROVE  /\ Selected(s, I) \in Seq(S) /\ Len(Selected(s, I)) = Cardinality(I)
           /\ IsFiniteSet(I) /\ Cardinality(I) \in Nat
           /\ DOMAIN Selected(s, I) = 1 .. Cardinality(I)
           /\ \A p \in DOMAIN Selected(s, I) : \E i \in I : Selected(s, I)[p] = s[i]
           /\ \A i \in I : \E p \in DOMAIN Selected(s, I) : Selected(s, I)[p] = s[i]
           /\ Selected(s, I) = <<>> <=> I = {}
<1>1. DOMAIN s = 1 .. Len(s) /\ Len(s) \in Nat
  OBVIOUS
<1>2. IsFiniteSet(I) /\ Cardinality(I) \in Nat /\ \E at : Selects(at, I)
  BY <1>1, Selection
<1>3. PICK at : Selects(at, I)
  BY <1>2
<1>. DEFINE r == Selected(s, I)
<1>4. r = [p \in 1 .. Cardinality(I) |-> s[at[p]]] /\ at \in [1 .. Cardinality(I) -> I]
  BY <1>3 DEF Selects
<1>. HIDE DEF r
<1>5. r \in Seq(S) /\ Len(r) = Cardinality(I) /\ DOMAIN r = 1 .. Cardinality(I)
  <2>1. \A p \in 1 .. Cardinality(I) : s[at[p]] \in S
    BY <1>4
  <2>2. r \in Seq(S)
    BY <1>2, <1>4, <2>1
  <2>. QED  BY <1>2, <1>4, <2>2
<1>6. \A p \in DOMAIN r : at[p] \in I /\ r[p] = s[at[p]]
  BY <1>4, <1>5
<1>7. \A i \in I : \E p \in DOMAIN r : r[p] = s[i]
  BY <1>3, <1>4, <1>5 DEF Selects
<1>8. r = <<>> <=> I = {}
  <2>1. r = <<>> <=> Cardinality(I) = 0
    BY <1>2, <1>5
  <2>. QED  BY <1>2, <2>1, FS_EmptySet
<1>. QED  BY <1>2, <1>5, <1>6, <1>7, <1>8 DEF r

-----------------------------------------------------------------------------
(***************************************************************************)
(* Loading.                                                                *)
(***************************************************************************)
LEMMA TextType ==
    ASSUME NEW text \in Texts
    PROVE  /\ text.yaml \in {"ok", "error", "raises"} /\ text.docs \in Seq(Docs)
           /\ DOMAIN text.docs = 1 .. Len(text.docs) /\ Len(text.docs) \in Nat
           /\ \A k \in DOMAIN text.docs : text.docs[k] \in Docs
           /\ text # NoText
BY TriageAssumption DEF Texts

LEMMA DocType ==
    ASSUME NEW doc \in Docs
    PROVE  /\ doc.kind \in {"rule", "scalar", "null"} /\ doc.corr \in {"no", "yes", "malformed"}
           /\ doc.fault \in Faults /\ doc.detection \in Detections /\ doc.logsource \in {0, 1}
           /\ doc.meta \in {0, 1} /\ doc.title \in {0, 1} /\ doc.order \in {0, 1}
BY DEF Docs

\* The documents that load.
Loads(text) ==
    {k \in DOMAIN text.docs : text.docs[k].kind # "null" /\ Category(text.docs[k]) = "ok"}

\* What loads is a rule that nothing is wrong with; the others fail.
LEMMA Loading ==
    ASSUME NEW text \in Texts
    PROVE  LET made == LoadFile(text)
           IN  /\ made = ParseText(text)
               /\ made.raises <=> text.yaml = "raises"
               /\ text.yaml # "ok" => made.rules = <<>>
               /\ text.yaml = "ok" => made.rules = Selected(text.docs, Loads(text))
               /\ Loads(text) \subseteq DOMAIN text.docs
               /\ made.rules \in Seq(Docs)
               /\ \A k \in Loads(text) :
                     text.docs[k].kind = "rule" /\ text.docs[k].corr \in {"no", "yes"}
               /\ text.yaml # "raises" /\ made.rules = <<>> => made.failures # {}
               /\ made.rules # <<>> /\ made.failures # {} => Len(text.docs) > 1
               /\ text.yaml = "ok" /\ made.failures = {} =>
                     \A k \in DOMAIN text.docs : k \in Loads(text) <=> text.docs[k].kind = "rule"
<1>. DEFINE docs == text.docs
            rest == {k \in DOMAIN docs : docs[k].kind # "null"}
            categories == {Category(docs[i]) : i \in rest}
            made == LoadFile(text)
<1>0. text.yaml \in {"ok", "error", "raises"} /\ docs \in Seq(Docs) /\ text # NoText
      /\ DOMAIN docs = 1 .. Len(docs) /\ Len(docs) \in Nat /\ \A k \in DOMAIN docs : docs[k] \in Docs
  BY TextType
<1>1. made = [raises |-> text.yaml = "raises",
              rules |-> IF text.yaml = "ok" THEN Selected(docs, Loads(text)) ELSE <<>>,
              failures |-> CASE text.yaml = "raises" -> {}
                             [] text.yaml = "error" -> {"yaml_parse"}
                             [] text.yaml = "ok" ->
                                   IF NoDocument(text) THEN {"empty_or_no_documents"}
                                   ELSE categories \ {"ok"}]
  BY <1>0 DEF LoadFile, ParseText, Uncaught, Loads
<1>2. made = ParseText(text)
  BY <1>0 DEF LoadFile
<1>. HIDE DEF made
<1>3. /\ made.raises <=> text.yaml = "raises"
      /\ text.yaml # "ok" => made.rules = <<>>
      /\ text.yaml = "ok" => made.rules = Selected(docs, Loads(text))
      /\ text.yaml = "error" => made.failures = {"yaml_parse"}
      /\ text.yaml = "raises" => made.failures = {}
      /\ text.yaml = "ok" => made.failures = IF NoDocument(text) THEN {"empty_or_no_documents"}
                                             ELSE categories \ {"ok"}
  BY <1>1
<1>4. Loads(text) \subseteq DOMAIN docs
  BY DEF Loads
<1>5. /\ Selected(docs, Loads(text)) \in Seq(Docs)
      /\ Selected(docs, Loads(text)) = <<>> <=> Loads(text) = {}
  <2>. DEFINE ds == docs
              I == Loads(text)
  <2>1. ds \in Seq(Docs) /\ I \in SUBSET DOMAIN ds
    BY <1>0, <1>4
  <2>. HIDE DEF ds, I
  <2>2. /\ Selected(ds, I) \in Seq(Docs)
        /\ Selected(ds, I) = <<>> <=> I = {}
    BY <2>1, SelectedIs, Zenon
  <2>. QED  BY <2>2 DEF ds, I
<1>6. made.rules \in Seq(Docs)
  <2>1. <<>> \in Seq(Docs)
    OBVIOUS
  <2>. QED  BY <1>3, <1>5, <2>1
<1>7. \A k \in Loads(text) : docs[k].kind = "rule" /\ docs[k].corr \in {"no", "yes"}
  BY <1>0, DocType DEF Loads, Category, ConstructRule, Preflight
<1>8. ASSUME text.yaml # "raises", made.rules = <<>>  PROVE made.failures # {}
  <2>1. CASE text.yaml = "error"
    BY <1>3, <2>1
  <2>2. CASE text.yaml = "ok"
    <3>1. Loads(text) = {}
      BY <1>3, <1>5, <1>8, <2>2
    <3>2. CASE NoDocument(text)
      BY <1>3, <2>2, <3>2
    <3>3. CASE ~NoDocument(text)
      <4>1. PICK k \in DOMAIN docs : docs[k].kind # "null"
        BY <3>3 DEF NoDocument
      <4>2. k \in rest /\ Category(docs[k]) # "ok"
        BY <3>1, <4>1 DEF Loads
      <4>3. Category(docs[k]) \in categories \ {"ok"}
        BY <4>2
      <4>. HIDE DEF categories
      <4>. QED  BY <1>3, <2>2, <3>3, <4>3
    <3>. QED  BY <3>2, <3>3
  <2>. QED  BY <1>0, <1>8, <2>1, <2>2
<1>9. ASSUME made.rules # <<>>, made.failures # {}  PROVE Len(docs) > 1
  <2>1. text.yaml = "ok" /\ Loads(text) # {}
    BY <1>3, <1>5, <1>9
  <2>2. PICK k \in DOMAIN docs : docs[k].kind # "null" /\ Category(docs[k]) = "ok"
    BY <2>1 DEF Loads
  <2>3. ~NoDocument(text)
    BY <2>2 DEF NoDocument
  <2>4. PICK j \in rest : Category(docs[j]) # "ok"
    BY <1>3, <1>9, <2>1, <2>3
  <2>5. j # k /\ j \in DOMAIN docs
    BY <2>2, <2>4
  <2>. QED  BY <1>0, <2>5
<1>10. ASSUME text.yaml = "ok", made.failures = {}, NEW k \in DOMAIN docs
       PROVE  k \in Loads(text) <=> docs[k].kind = "rule"
  <2>1. CASE docs[k].kind = "null"
    BY <2>1 DEF Loads
  <2>2. CASE docs[k].kind # "null"
    <3>1. ~NoDocument(text)
      BY <2>2 DEF NoDocument
    <3>2. categories \ {"ok"} = {} /\ k \in rest
      BY <1>3, <1>10, <2>2, <3>1
    <3>3. Category(docs[k]) = "ok"
      BY <3>2
    <3>. QED  BY <1>7, <2>2, <3>3 DEF Loads
  <2>. QED  BY <2>1, <2>2
<1>. QED  BY <1>2, <1>3, <1>4, <1>6, <1>7, <1>8, <1>9, <1>10 DEF made
-----------------------------------------------------------------------------
(***************************************************************************)
(* Types: what the user writes, and what the report says.                  *)
(***************************************************************************)
\* The largest and the smallest of finitely many numbers.
HasEnds(J, h) == /\ \E i \in J : \A k \in J : h[k] <= h[i]
                 /\ \E i \in J : \A k \in J : h[i] <= h[k]

LEMMA Bounds ==
    ASSUME NEW n \in Nat, NEW I \in SUBSET (1 .. n), I # {}, NEW g \in [I -> Nat],
           NEW S, S = {g[i] : i \in I}
    PROVE  /\ Max(S) \in S /\ \A y \in S : y <= Max(S)
           /\ Min(S) \in S /\ \A y \in S : Min(S) <= y
<1>. DEFINE T == {m \in Nat : \A J \in SUBSET (1 .. m) : \A h \in [J -> Nat] :
                                J # {} => HasEnds(J, h)}
<1>1. 0 \in T
  <2>1. \A J \in SUBSET (1 .. 0) : J = {}
    OBVIOUS
  <2>. QED  BY <2>1
<1>2. ASSUME NEW m \in T  PROVE m + 1 \in T
  <2>0. /\ m \in Nat
        /\ \A J \in SUBSET (1 .. m) : \A h \in [J -> Nat] : J # {} => HasEnds(J, h)
    OBVIOUS
  <2>1. SUFFICES ASSUME NEW J \in SUBSET (1 .. m + 1), J # {}, NEW h \in [J -> Nat]
                 PROVE  HasEnds(J, h)
    BY <2>0
  <2>. DEFINE K == J \ {m + 1}
              r == [k \in K |-> h[k]]
  <2>2. \A k \in J : k \in K \/ k = m + 1
    OBVIOUS
  <2>3. \A k \in J : h[k] \in Nat
    OBVIOUS
  <2>4. K \in SUBSET (1 .. m) /\ r \in [K -> Nat] /\ K \subseteq J /\ \A k \in K : r[k] = h[k]
    BY <2>0
  <2>. HIDE DEF K, r
  <2>5. CASE K = {}
    <3>1. \A k \in J : k = m + 1
      BY <2>2, <2>5
    <3>2. PICK k \in J : TRUE
      BY <2>1
    <3>3. m + 1 \in J
      BY <3>1, <3>2
    <3>. QED  BY <2>3, <3>1, <3>3 DEF HasEnds
  <2>6. CASE K # {}
    <3>1. HasEnds(K, r)
      BY <2>0, <2>4, <2>6
    <3>2. PICK i \in K : \A k \in K : h[k] <= h[i]
      BY <2>4, <3>1 DEF HasEnds
    <3>3. PICK j \in K : \A k \in K : h[j] <= h[k]
      BY <2>4, <3>1 DEF HasEnds
    <3>4. i \in J /\ j \in J /\ h[i] \in Nat /\ h[j] \in Nat
      BY <2>3, <2>4, <3>2, <3>3
    <3>6. \E a \in J : \A k \in J : h[k] <= h[a]
      <4>1. CASE m + 1 \in J /\ h[i] <= h[m + 1]
        <5>1. \A k \in J : h[k] <= h[m + 1]
          BY <2>2, <2>3, <3>2, <3>4, <4>1
        <5>. QED  BY <4>1, <5>1
      <4>2. CASE ~(m + 1 \in J /\ h[i] <= h[m + 1])
        <5>1. \A k \in J : h[k] <= h[i]
          BY <2>2, <2>3, <3>2, <3>4, <4>2
        <5>. QED  BY <3>4, <5>1
      <4>. QED  BY <4>1, <4>2
    <3>7. \E a \in J : \A k \in J : h[a] <= h[k]
      <4>1. CASE m + 1 \in J /\ h[m + 1] <= h[j]
        <5>1. \A k \in J : h[m + 1] <= h[k]
          BY <2>2, <2>3, <3>3, <3>4, <4>1
        <5>. QED  BY <4>1, <5>1
      <4>2. CASE ~(m + 1 \in J /\ h[m + 1] <= h[j])
        <5>1. \A k \in J : h[j] <= h[k]
          BY <2>2, <2>3, <3>3, <3>4, <4>2
        <5>. QED  BY <3>4, <5>1
      <4>. QED  BY <4>1, <4>2
    <3>. QED  BY <3>6, <3>7 DEF HasEnds
  <2>. QED  BY <2>5, <2>6
<1>3. T \in SUBSET Nat
  OBVIOUS
<1>4. HasEnds(I, g)
  <2>1. n \in T
    <3>. HIDE DEF T
    <3>. QED  BY <1>1, <1>2, <1>3, SetInduction
  <2>. QED  BY <2>1
<1>. HIDE DEF T
<1>5. PICK i \in I : \A k \in I : g[k] <= g[i]
  BY <1>4 DEF HasEnds
<1>6. PICK j \in I : \A k \in I : g[j] <= g[k]
  BY <1>4 DEF HasEnds
<1>7. g[i] \in S /\ \A y \in S : g[i] >= y
  BY <1>5
<1>8. g[j] \in S /\ \A y \in S : g[j] <= y
  BY <1>6
<1>9. \A y \in S : y \in Nat
  OBVIOUS
<1>10. Max(S) \in S /\ \A y \in S : Max(S) >= y
  BY <1>7 DEF Max
<1>11. Min(S) \in S /\ \A y \in S : Min(S) <= y
  BY <1>8 DEF Min
<1>. QED  BY <1>9, <1>10, <1>11

\* The last of some places.
LEMMA LastOf ==
    ASSUME NEW n \in Nat, NEW I \in SUBSET (1 .. n), I # {}
    PROVE  Max(I) \in I
<1>. DEFINE g == [i \in I |-> i]
<1>1. g \in [I -> Nat] /\ {g[i] : i \in I} = I
  <2>1. g \in [I -> Nat] /\ \A i \in I : g[i] = i
    OBVIOUS
  <2>. HIDE DEF g
  <2>. QED  BY <2>1
<1>. HIDE DEF g
<1>. QED  BY <1>1, Bounds

\* What is committed is a draft, or nothing.
LEMMA CommittedType ==
    ASSUME log \in Seq(Commits), NEW f, NEW n \in 1 .. Len(log) + 1
    PROVE  CommittedBefore(f, n) \in Drafted \cup {NoText}
<1>. DEFINE of == {i \in 1 .. n - 1 : log[i].file = f}
<1>1. n - 1 \in Nat /\ of \in SUBSET (1 .. n - 1) /\ 1 .. n - 1 \subseteq DOMAIN log
  OBVIOUS
<1>2. CASE of = {}
  BY <1>2 DEF CommittedBefore
<1>3. CASE of # {}
  <2>1. Max(of) \in 1 .. n - 1
    <3>. HIDE DEF of
    <3>. QED  BY <1>1, <1>3, LastOf
  <2>2. log[Max(of)] \in Commits
    BY <1>1, <2>1
  <2>3. CommittedBefore(f, n) = log[Max(of)].text
    BY <1>3 DEF CommittedBefore
  <2>. HIDE DEF of
  <2>. QED  BY <2>2, <2>3 DEF Commits
<1>. QED  BY <1>2, <1>3

-----------------------------------------------------------------------------
\* An edit leaves room for itself within MaxNesting.
LEMMA ReconditionType ==
    ASSUME NEW c \in ConditionsTo[MaxNesting - 1],
           NEW kind \in {"narrow", "widen", "exclude", "negate"}
    PROVE  Recondition(c, kind) \in Conditions
<1>. DEFINE B == ConditionsTo[MaxNesting - 1]
<1>1. MaxNesting \in Nat /\ MaxNesting >= 3 /\ {"other", "filter"} \subseteq SelectionNames
  BY RuleAstAssumption, TriageAssumption
<1>2. /\ Levels(Conditions, MaxNesting, ConditionsTo)
      /\ Conditions = ConditionsTo[MaxNesting]
      /\ \A d \in 1 .. MaxNesting : ConditionsTo[d] = ConditionsOver(ConditionsTo[d - 1])
  BY ConditionLevels, ConditionsToLevels
<1>3. /\ ConditionsTo[1] = ConditionsOver(ConditionsTo[0])
      /\ ConditionsTo[2] = ConditionsOver(ConditionsTo[1])
      /\ Conditions = ConditionsOver(B)
  <2>1. 1 \in 1 .. MaxNesting /\ 2 \in 1 .. MaxNesting /\ MaxNesting \in 1 .. MaxNesting
        /\ 1 - 1 = 0 /\ 2 - 1 = 1
    BY <1>1
  <2>. QED  BY <1>2, <2>1
<1>4. ConditionsTo[1] \subseteq B /\ ConditionsTo[2] \subseteq B
  <2>1. \A d \in 1 .. MaxNesting : ConditionsTo[d - 1] \subseteq ConditionsTo[d]
    BY <1>2 DEF Levels
  <2>2. /\ 1 \in 0 .. MaxNesting /\ MaxNesting - 1 \in 1 .. MaxNesting
        /\ 2 \in 0 .. MaxNesting /\ MaxNesting - 1 \in 2 .. MaxNesting
    BY <1>1
  <2>3. ConditionsTo[1] \subseteq B
    BY <1>1, <2>1, <2>2, LevelsRise
  <2>4. ConditionsTo[2] \subseteq B
    BY <1>1, <2>1, <2>2, LevelsRise
  <2>. QED  BY <2>3, <2>4
<1>. HIDE DEF B
<1>5. ASSUME NEW name \in {"other", "filter"}  PROVE Named(name) \in ConditionsTo[1] \cap B
  <2>1. <<name>> \in [1 .. 1 -> SelectionNames]
    BY <1>1
  <2>2. Named(name) \in ConditionsOver(ConditionsTo[0])
    BY <2>1 DEF Named, Cond, ConditionsOver
  <2>. QED  BY <1>3, <1>4, <2>2
<1>6. Cond("not", <<Named("filter")>>) \in B
  <2>1. <<Named("filter")>> \in [1 .. 1 -> ConditionsTo[1]]
    BY <1>5
  <2>2. Cond("not", <<Named("filter")>>) \in ConditionsOver(ConditionsTo[1])
    BY <2>1 DEF Cond, ConditionsOver
  <2>. QED  BY <1>3, <1>4, <2>2
<1>7. c \in B
  BY DEF B
<1>8. ASSUME NEW d \in B, NEW op \in {"and", "or"}  PROVE Cond(op, <<c, d>>) \in Conditions
  <2>1. <<c, d>> \in Seq(B)
    BY <1>7
  <2>2. Cond(op, <<c, d>>) \in ConditionsOver(B)
    BY <2>1 DEF Cond, ConditionsOver
  <2>. QED  BY <1>3, <2>2
<1>9. Cond("not", <<c>>) \in Conditions
  <2>1. <<c>> \in [1 .. 1 -> B]
    BY <1>7
  <2>2. Cond("not", <<c>>) \in ConditionsOver(B)
    BY <2>1 DEF Cond, ConditionsOver
  <2>. QED  BY <1>3, <2>2
<1>10. kind = "narrow" => Recondition(c, kind) = Cond("and", <<c, Named("other")>>)
  BY DEF Recondition
<1>11. kind = "widen" => Recondition(c, kind) = Cond("or", <<c, Named("other")>>)
  BY DEF Recondition
<1>12. kind = "exclude" =>
          Recondition(c, kind) = Cond("and", <<c, Cond("not", <<Named("filter")>>)>>)
  BY DEF Recondition
<1>13. kind = "negate" => Recondition(c, kind) = Cond("not", <<c>>)
  BY DEF Recondition
<1>. QED  BY <1>5, <1>6, <1>8, <1>9, <1>10, <1>11, <1>12, <1>13

\* A change of the first document.
LEMMA FirstDocType ==
    ASSUME NEW t \in Texts, t.docs # <<>>
    PROVE  /\ t.docs[1] \in Docs
           /\ \A d \in Docs : [t EXCEPT !.docs[1] = d] \in Texts
<1>1. t.docs \in Seq(Docs) /\ 1 \in DOMAIN t.docs
  BY DEF Texts
<1>2. ASSUME NEW d \in Docs  PROVE [t EXCEPT !.docs[1] = d] \in Texts
  <2>1. [t.docs EXCEPT ![1] = d] \in Seq(Docs)
    BY <1>1
  <2>. QED  BY <2>1 DEF Texts
<1>. QED  BY <1>1, <1>2

LEMMA ReviseType ==
    ASSUME NEW t \in Drafted, t.docs # <<>>, NEW kind \in Kinds
    PROVE  Revise(t, kind) \in Texts
<1>. DEFINE doc == t.docs[1]
<1>1. t \in Texts /\ Written(t) /\ doc \in Docs
      /\ \A d \in Docs : [t EXCEPT !.docs[1] = d] \in Texts
  BY FirstDocType DEF Drafted
<1>2. /\ doc.kind \in {"rule", "scalar", "null"} /\ doc.corr \in {"no", "yes", "malformed"}
      /\ doc.fault \in Faults /\ doc.detection \in Detections /\ doc.logsource \in {0, 1}
      /\ doc.meta \in {0, 1} /\ doc.title \in {0, 1} /\ doc.order \in {0, 1}
  BY <1>1, DocType
<1>3. CASE kind \in {"retitle", "retag", "relog", "reorder"}
  <2>1. /\ [doc EXCEPT !.title = 1 - @] \in Docs /\ [doc EXCEPT !.meta = 1 - @] \in Docs
        /\ [doc EXCEPT !.logsource = 1 - @] \in Docs /\ [doc EXCEPT !.order = 1 - @] \in Docs
    BY <1>1, <1>2 DEF Docs
  <2>2. \/ Revise(t, kind) = [t EXCEPT !.docs[1] = [doc EXCEPT !.title = 1 - @]]
        \/ Revise(t, kind) = [t EXCEPT !.docs[1] = [doc EXCEPT !.meta = 1 - @]]
        \/ Revise(t, kind) = [t EXCEPT !.docs[1] = [doc EXCEPT !.logsource = 1 - @]]
        \/ Revise(t, kind) = [t EXCEPT !.docs[1] = [doc EXCEPT !.order = 1 - @]]
    BY <1>3 DEF Revise
  <2>. QED  BY <1>1, <2>1, <2>2
<1>4. CASE kind \in {"restyle", "rehead", "reline", "garble", "break", "mend", "date"}
  <2>1. t.style \in {0, 1} /\ t.head \in {0, 1} /\ t.eol \in {0, 1}
    BY <1>1 DEF Texts
  <2>2. Revise(t, kind) \in
           {[t EXCEPT !.style = 1 - @], [t EXCEPT !.head = 1 - @], [t EXCEPT !.eol = 1 - @],
            [t EXCEPT !.yaml = "error", !.keys = FALSE], [t EXCEPT !.yaml = "error"],
            [t EXCEPT !.yaml = "ok", !.keys = TRUE], [t EXCEPT !.yaml = "raises"]}
    BY <1>4 DEF Revise
  <2>3. /\ [t EXCEPT !.style = 1 - @] \in Texts /\ [t EXCEPT !.head = 1 - @] \in Texts
        /\ [t EXCEPT !.eol = 1 - @] \in Texts
    BY <1>1, <2>1 DEF Texts
  <2>4. /\ \A y \in {"ok", "error", "raises"} : [t EXCEPT !.yaml = y] \in Texts
        /\ \A u \in Texts, b \in BOOLEAN : [u EXCEPT !.keys = b] \in Texts
    BY <1>1 DEF Texts
  <2>5. /\ [t EXCEPT !.yaml = "error", !.keys = FALSE]
              = [[t EXCEPT !.yaml = "error"] EXCEPT !.keys = FALSE]
        /\ [t EXCEPT !.yaml = "ok", !.keys = TRUE]
              = [[t EXCEPT !.yaml = "ok"] EXCEPT !.keys = TRUE]
    OBVIOUS
  <2>6. /\ [[t EXCEPT !.yaml = "error"] EXCEPT !.keys = FALSE] \in Texts
        /\ [[t EXCEPT !.yaml = "ok"] EXCEPT !.keys = TRUE] \in Texts
        /\ [t EXCEPT !.yaml = "error"] \in Texts /\ [t EXCEPT !.yaml = "raises"] \in Texts
    BY <2>4
  <2>. QED  BY <2>2, <2>3, <2>5, <2>6
<1>5. CASE kind \in {"fault", "correlate", "malform"}
  <2>1. /\ [doc EXCEPT !.fault = "construct"] \in Docs /\ [doc EXCEPT !.corr = "yes"] \in Docs
        /\ [doc EXCEPT !.corr = "malformed"] \in Docs
    BY <1>1, <1>2 DEF Docs, Faults
  <2>2. \/ Revise(t, kind) = [t EXCEPT !.docs[1] = [doc EXCEPT !.fault = "construct"]]
        \/ Revise(t, kind) = [t EXCEPT !.docs[1] = [doc EXCEPT !.corr = "yes"]]
        \/ Revise(t, kind) = [t EXCEPT !.docs[1] = [doc EXCEPT !.corr = "malformed"]]
    BY <1>5 DEF Revise
  <2>. QED  BY <1>1, <2>1, <2>2
<1>6. CASE kind = "append"
  <2>1. Revise(t, kind) = [t EXCEPT !.docs = Append(t.docs, doc)]
    BY <1>6 DEF Revise
  <2>2. Append(t.docs, doc) \in Seq(Docs)
    BY <1>1 DEF Texts
  <2>. QED  BY <1>1, <2>1, <2>2 DEF Texts
<1>7. CASE kind = "blank"
  <2>1. Revise(t, kind) = [t EXCEPT !.docs = <<[doc EXCEPT !.kind = "null"]>>]
    BY <1>7 DEF Revise
  <2>2. [doc EXCEPT !.kind = "null"] \in Docs
    BY <1>1 DEF Docs
  <2>3. <<[doc EXCEPT !.kind = "null"]>> \in Seq(Docs)
    BY <2>2
  <2>. QED  BY <1>1, <2>1, <2>3 DEF Texts
<1>. DEFINE det == doc.detection
<1>8. /\ \A e \in Detections : [doc EXCEPT !.detection = e] \in Docs
      /\ det.parses \in BOOLEAN /\ det.selections \in [SelectionNames -> DetectionItems]
      /\ det.conditions \in Seq(Conditions) /\ det \in Detections
  BY <1>1, <1>2 DEF Docs, Detections
<1>9. CASE kind = "pipe"
  <2>1. [det EXCEPT !.parses = FALSE] \in Detections
    BY <1>8 DEF Detections
  <2>2. Revise(t, kind) =
           [t EXCEPT !.docs[1] = [doc EXCEPT !.detection = [det EXCEPT !.parses = FALSE]]]
    BY <1>9 DEF Revise
  <2>. QED  BY <1>1, <1>8, <2>1, <2>2
<1>10. CASE kind = "redefine"
  <2>. DEFINE sels == [det.selections EXCEPT !["other"] = det.selections["filter"]]
  <2>1. {"other", "filter"} \subseteq SelectionNames
    BY TriageAssumption
  <2>2. sels \in [SelectionNames -> DetectionItems]
    BY <1>8, <2>1
  <2>3. [det EXCEPT !.selections = sels] \in Detections
    BY <1>8, <2>2 DEF Detections
  <2>4. Revise(t, kind) =
           [t EXCEPT !.docs[1] = [doc EXCEPT !.detection = [det EXCEPT !.selections = sels]]]
    BY <1>10 DEF Revise
  <2>. QED  BY <1>1, <1>8, <2>3, <2>4
<1>11. CASE kind \in {"narrow", "widen", "exclude", "negate"}
  <2>. DEFINE conds == [det.conditions EXCEPT ![1] = Recondition(@, kind)]
  <2>1. conds \in Seq(Conditions)
    <3>1. CASE 1 \in DOMAIN det.conditions
      <4>1. det.conditions[1] \in ConditionsTo[MaxNesting - 1]
        <5>1. 1 \in DOMAIN t.docs
          BY <1>1 DEF Texts
        <5>. QED  BY <1>1, <3>1, <5>1 DEF Written
      <4>2. Recondition(det.conditions[1], kind) \in Conditions
        BY <1>11, <4>1, ReconditionType
      <4>3. \A x \in Conditions : [det.conditions EXCEPT ![1] = x] \in Seq(Conditions)
        <5>. DEFINE cs == det.conditions
        <5>1. cs \in Seq(Conditions)
          BY <1>8
        <5>. HIDE DEF cs
        <5>2. ASSUME NEW x \in Conditions  PROVE [cs EXCEPT ![1] = x] \in Seq(Conditions)
          <6>. DEFINE cx == [cs EXCEPT ![1] = x]
          <6>1. cs \in [1 .. Len(cs) -> Conditions] /\ Len(cs) \in Nat
            BY <5>1
          <6>2. cx \in [1 .. Len(cs) -> Conditions]
            BY <6>1
          <6>. HIDE DEF cx
          <6>3. cx \in Seq(Conditions)
            BY <6>1, <6>2
          <6>. QED  BY <6>3 DEF cx
        <5>. QED  BY <5>2 DEF cs
      <4>. QED  BY <4>2, <4>3
    <3>2. CASE 1 \notin DOMAIN det.conditions
      <4>1. conds = det.conditions
        BY <1>8, <3>2
      <4>. QED  BY <1>8, <4>1
    <3>. QED  BY <3>1, <3>2
  <2>2. [det EXCEPT !.conditions = conds] \in Detections
    BY <1>8, <2>1 DEF Detections
  <2>3. Revise(t, kind) =
           [t EXCEPT !.docs[1] = [doc EXCEPT !.detection = [det EXCEPT !.conditions = conds]]]
    BY <1>11 DEF Revise
  <2>. QED  BY <1>1, <1>8, <2>2, <2>3
<1>. QED  BY <1>3, <1>4, <1>5, <1>6, <1>7, <1>9, <1>10, <1>11 DEF Kinds

\* A rank is Nothing or the rank of one tier.
LEMMA TierOfRank ==
    ASSUME NEW rank \in Ranks, rank # Nothing
    PROVE  \E t \in Tiers : TierRank[t] = rank
<1>1. /\ TierRank["IOC"] = 0 /\ TierRank["Artifact"] = 1
      /\ TierRank["Tool"] = 2 /\ TierRank["TTP"] = 3
  BY DEF TierRank
<1>2. rank \in {0, 1, 2, 3}
  BY DEF Ranks, Nothing
<1>. QED  BY <1>1, <1>2 DEF Tiers

\* What is said of the first rule of a file: its tier, or that it has none.
LEMMA ScoredIs ==
    ASSUME NEW doc \in Docs
    PROVE  LET rule == RuleOf(doc)
               said == Scored(doc)
           IN  /\ Built(rule.ast) /\ rule.corr = (doc.corr = "yes")
               /\ said.tier \in Tiers \cup {None} /\ said.unscoreable \in BOOLEAN
               /\ said.unscoreable <=> said.tier = None
               /\ ~said.unscoreable =>
                     /\ said.tier \in Tiers /\ ClassifyRule(rule).rank # Nothing
                     /\ TierRank[said.tier] = ClassifyRule(rule).rank
<1>. DEFINE rule == RuleOf(doc)
            said == Scored(doc)
            rank == ClassifyRule(rule).rank
            parses == doc.corr = "yes" \/ doc.detection.parses
<1>1. rule.corr = (doc.corr = "yes") /\ rule.ast = IF doc.corr = "yes" THEN <<>>
                                                   ELSE BuildAst(doc.detection)
  BY DEF RuleOf
<1>2. Built(rule.ast)
  <2>1. CASE doc.corr = "yes"
    <3>1. <<>> \in Seq(Trees) /\ DOMAIN <<>> = {}
      OBVIOUS
    <3>2. Built(<<>>)
      BY <3>1 DEF Built
    <3>. QED  BY <1>1, <2>1, <3>2
  <2>2. CASE doc.corr # "yes"
    <3>1. Built(BuildAst(doc.detection))
      BY DocType, AstIsBuilt
    <3>. QED  BY <1>1, <2>2, <3>1
  <2>. QED  BY <2>1, <2>2
<1>3. rank \in Ranks
  <2>1. rule.ast \in Seq(Trees)
    BY <1>2 DEF Built
  <2>. HIDE DEF rule
  <2>. QED  BY <2>1, RuleRank
<1>4. said = [tier |-> IF ~parses \/ rank = Nothing THEN None
                       ELSE CHOOSE t \in Tiers : TierRank[t] = rank,
              unscoreable |-> ~parses \/ rank = Nothing]
  BY DEF Scored
<1>. HIDE DEF rule, rank, said, parses
<1>5. rank # Nothing => (CHOOSE t \in Tiers : TierRank[t] = rank) \in {t \in Tiers : TierRank[t] = rank}
  BY <1>3, TierOfRank
<1>6. None \notin Tiers /\ parses \in BOOLEAN
  BY PriorityAssumption DEF parses
<1>7. /\ said.tier = IF ~parses \/ rank = Nothing THEN None
                     ELSE CHOOSE t \in Tiers : TierRank[t] = rank
      /\ said.unscoreable = (~parses \/ rank = Nothing)
  BY <1>4
<1>8. CASE ~parses \/ rank = Nothing
  <2>1. said.tier = None /\ said.unscoreable = TRUE
    BY <1>7, <1>8
  <2>. QED  BY <1>1, <1>2, <2>1 DEF rule, said
<1>9. CASE parses /\ rank # Nothing
  <2>1. said.tier \in Tiers /\ TierRank[said.tier] = rank /\ said.unscoreable = FALSE
    BY <1>5, <1>7, <1>9
  <2>. QED  BY <1>1, <1>2, <1>6, <1>9, <2>1 DEF rule, said, rank
<1>. QED  BY <1>6, <1>8, <1>9

\* _sigma_fragility is what is said of the first rule, or that there is none.
LEMMA SigmaFragilityIs ==
    ASSUME NEW text \in Drafted \cup {NoText}
    PROVE  LET frag == SigmaFragility(text)
               rules == LoadFile(text).rules
           IN  /\ frag.tier \in Tiers \cup {None} /\ frag.unscoreable \in BOOLEAN
               /\ frag.unscoreable <=> frag.tier = None
               /\ ~frag.unscoreable =>
                     /\ text \in Drafted /\ LoadFile(text).failures = {}
                     /\ rules # <<>> /\ rules \in Seq(Docs) /\ rules[1] \in Docs
                     /\ frag = Scored(rules[1])
<1>. DEFINE frag == SigmaFragility(text)
            rules == LoadFile(text).rules
<1>1. CASE LoadFile(text).failures # {} \/ rules = <<>>
  <2>1. frag.tier = None /\ frag.unscoreable = TRUE
    BY <1>1 DEF SigmaFragility
  <2>. QED  BY <2>1
<1>2. CASE LoadFile(text).failures = {} /\ rules # <<>>
  <2>1. text # NoText
    BY <1>2 DEF LoadFile
  <2>2. text \in Drafted /\ text \in Texts
    BY <2>1 DEF Drafted
  <2>3. rules \in Seq(Docs)
    BY <2>2, Loading
  <2>. HIDE DEF rules
  <2>4. rules[1] \in Docs
    BY <1>2, <2>3
  <2>5. frag = Scored(rules[1])
    BY <1>2 DEF SigmaFragility, rules
  <2>. HIDE DEF frag
  <2>6. /\ Scored(rules[1]).tier \in Tiers \cup {None} /\ Scored(rules[1]).unscoreable \in BOOLEAN
        /\ Scored(rules[1]).unscoreable <=> Scored(rules[1]).tier = None
    BY <2>4, ScoredIs
  <2>. QED  BY <1>2, <2>2, <2>3, <2>4, <2>5, <2>6 DEF rules, frag
<1>. QED  BY <1>1, <1>2

\* The rows of a report are the files it began with, each once.
LEMMA RowsAre ==
    ASSUME seen \in SUBSET Files
    PROVE  /\ Rows \in Seq(Files) /\ Len(Rows) = Cardinality(seen)
           /\ IsFiniteSet(seen) /\ Cardinality(seen) \in Nat
           /\ DOMAIN Rows = 1 .. Cardinality(seen)
           /\ {Rows[p] : p \in DOMAIN Rows} = seen
<1>. DEFINE I == {i \in DOMAIN Order : Order[i] \in seen}
            g == [i \in I |-> Order[i]]
<1>1. Order \in Seq(Files) /\ {Order[i] : i \in DOMAIN Order} = Files
      /\ \A i, k \in DOMAIN Order : Order[i] = Order[k] => i = k
  BY TriageAssumption
<1>2. I \in SUBSET DOMAIN Order
  OBVIOUS
<1>3. \A f \in seen : \E i \in I : Order[i] = f
  BY <1>1
<1>4. /\ Rows \in Seq(Files) /\ Len(Rows) = Cardinality(I)
      /\ IsFiniteSet(I) /\ Cardinality(I) \in Nat
      /\ DOMAIN Rows = 1 .. Cardinality(I)
      /\ \A p \in DOMAIN Rows : \E i \in I : Rows[p] = Order[i]
      /\ \A i \in I : \E p \in DOMAIN Rows : Rows[p] = Order[i]
  <2>1. Rows = Selected(Order, I)
    BY DEF Rows
  <2>. HIDE DEF I
  <2>. QED  BY <1>1, <1>2, <2>1, SelectedIs
<1>5. g \in [I -> seen] /\ \A i \in I : g[i] = Order[i] /\ i \in DOMAIN Order
  OBVIOUS
<1>6. \A i \in I : Order[i] \in seen
  OBVIOUS
<1>. HIDE DEF I, g
<1>7. g \in Surjection(I, seen) /\ g \in Injection(I, seen)
  <2>1. DOMAIN g = I
    BY <1>5
  <2>2. \A a, b \in I : g[a] = g[b] => a = b
    BY <1>1, <1>5
  <2>3. \A f \in seen : \E i \in I : g[i] = f
    BY <1>3, <1>5
  <2>. QED  BY <1>5, <2>1, <2>2, <2>3 DEF Surjection, Injection, IsInjective
<1>8. IsFiniteSet(seen) /\ Cardinality(seen) = Cardinality(I)
  BY <1>4, <1>7, FS_Surjection
<1>9. {Rows[p] : p \in DOMAIN Rows} = seen
  BY <1>3, <1>4, <1>6
<1>. QED  BY <1>4, <1>8, <1>9

-----------------------------------------------------------------------------
\* The signals of a row.
LEMMA SignalsType ==
    ASSUME log \in Seq(Commits), mined \in 0 .. Len(log), behavioral \subseteq 1 .. mined,
           NEW f \in Files, NEW frag, frag.tier \in Tiers \cup {None}, frag.unscoreable \in BOOLEAN
    PROVE  /\ SignalsOf(f, frag) \in RuleSignals
           /\ DaysSince(f) = None <=> Behavioral(f) = {}
<1>. DEFINE B == Behavioral(f)
            T == TouchesOf(f)
            ago == [i \in 1 .. mined |-> log[i].ago]
<1>1. mined \in Nat /\ B \in SUBSET (1 .. mined) /\ T \in SUBSET (1 .. mined)
  <2>1. mined \in Nat
    OBVIOUS
  <2>2. B \in SUBSET (1 .. mined)
    BY DEF Behavioral
  <2>3. T \in SUBSET (1 .. mined)
    BY DEF TouchesOf
  <2>. QED  BY <2>1, <2>2, <2>3
<1>2. ASSUME NEW i \in 1 .. mined  PROVE log[i].ago \in Nat
  <2>1. i \in DOMAIN log
    BY <1>1
  <2>2. log[i] \in Commits
    BY <2>1
  <2>. QED  BY <2>2 DEF Commits
<1>. HIDE DEF B, T
<1>3. ASSUME NEW I \in SUBSET (1 .. mined), I # {}
      PROVE  Max({log[i].ago : i \in I}) \in Nat /\ Min({log[i].ago : i \in I}) \in Nat
  <2>. DEFINE g == [i \in I |-> log[i].ago]
              S == {g[i] : i \in I}
  <2>1. g \in [I -> Nat] /\ S = {log[i].ago : i \in I}
    <3>1. g \in [I -> Nat] /\ \A i \in I : g[i] = log[i].ago
      BY <1>2
    <3>. HIDE DEF g
    <3>. QED  BY <3>1
  <2>. HIDE DEF g
  <2>2. S = {g[i] : i \in I}
    OBVIOUS
  <2>. HIDE DEF S
  <2>3. Max(S) \in S /\ Min(S) \in S
    BY <1>1, <1>3, <2>1, <2>2, Bounds
  <2>. QED  BY <1>2, <2>1, <2>3
<1>4. IsFiniteSet(B) /\ Cardinality(B) \in Nat
  BY <1>1, Selection
<1>5. DaysSince(f) = IF B = {} THEN None ELSE Min({log[i].ago : i \in B})
  BY DEF DaysSince, B
<1>6. AgeDays(f) = None \/ (T # {} /\ AgeDays(f) = Max({log[i].ago : i \in T}))
  BY DEF AgeDays, T
<1>7. DaysSince(f) \in Nat \cup {None} /\ AgeDays(f) \in Nat \cup {None}
  BY <1>1, <1>3, <1>5, <1>6
<1>8. DaysSince(f) = None <=> B = {}
  BY <1>1, <1>3, <1>5, PriorityAssumption
<1>9. f \in STRING
  BY TriageAssumption
<1>10. SignalsOf(f, frag) =
         [file |-> f, commits |-> Cardinality(B), neverRevised |-> B = {},
          days |-> DaysSince(f), age |-> AgeDays(f),
          tier |-> frag.tier, unscoreable |-> frag.unscoreable]
  BY DEF SignalsOf, B
<1>11. SignalsOf(f, frag) \in RuleSignals
  BY <1>4, <1>7, <1>9, <1>10 DEF RuleSignals
<1>. QED  BY <1>8, <1>11 DEF B

-----------------------------------------------------------------------------
(***************************************************************************)
(* Commits do not touch what was committed before.                         *)
(***************************************************************************)
Grows == /\ log \in Seq(Commits) /\ log' \in Seq(Commits) /\ Len(log) <= Len(log')
         /\ \A i \in 1 .. Len(log) : log'[i] = log[i]

LEMMA CommittedStable ==
    ASSUME Grows, NEW f, NEW n \in 1 .. Len(log) + 1
    PROVE  CommittedBefore(f, n)' = CommittedBefore(f, n)
<1>. DEFINE of == {i \in 1 .. n - 1 : log[i].file = f}
            ofp == {i \in 1 .. n - 1 : log'[i].file = f}
<1>1. log \in Seq(Commits) /\ \A i \in 1 .. n - 1 : i \in 1 .. Len(log) /\ log'[i] = log[i]
  BY DEF Grows
<1>2. ofp = of
  BY <1>1
<1>3. CommittedBefore(f, n) = IF of = {} THEN NoText ELSE log[Max(of)].text
  BY DEF CommittedBefore
<1>4. CommittedBefore(f, n)' = IF ofp = {} THEN NoText ELSE log'[Max(ofp)].text
  BY DEF CommittedBefore
<1>5. of # {} => Max(of) \in 1 .. n - 1
  <2>1. n - 1 \in Nat /\ of \in SUBSET (1 .. n - 1)
    BY <1>1
  <2>. HIDE DEF of
  <2>. QED  BY <2>1, LastOf
<1>. HIDE DEF of, ofp
<1>. QED  BY <1>1, <1>2, <1>3, <1>4, <1>5

\* Nor do they touch what the report has found of it.
LEMMA PassesStable ==
    ASSUME Grows, mined \in 0 .. Len(log), UNCHANGED mined
    PROVE  /\ \A i \in 1 .. mined : /\ Before(i)' = Before(i) /\ BucketOf(i)' = BucketOf(i)
                                    /\ log'[i] = log[i]
           /\ \A files : Diffable(files)' = Diffable(files)
           /\ \A files : DiffRaises(files)' = DiffRaises(files)
           /\ \A f : TouchesOf(f)' = TouchesOf(f)
<1>1. mined \in Nat /\ mined' = mined /\ \A i \in 1 .. mined : i \in 1 .. Len(log) + 1 /\ log'[i] = log[i]
  BY DEF Grows
<1>2. ASSUME NEW i \in 1 .. mined  PROVE Before(i)' = Before(i)
  <2>1. log'[i].file = log[i].file /\ i \in 1 .. Len(log) + 1
    BY <1>1
  <2>2. PICK f : f = log[i].file
    OBVIOUS
  <2>3. CommittedBefore(f, i)' = CommittedBefore(f, i)
    BY <2>1, CommittedStable
  <2>4. Before(i) = CommittedBefore(f, i)
    BY <2>2 DEF Before
  <2>5. Before(i)' = CommittedBefore(f, i)'
    BY <2>1, <2>2 DEF Before, CommittedBefore
  <2>. QED  BY <2>3, <2>4, <2>5
<1>3. \A i \in 1 .. mined : BucketOf(i)' = BucketOf(i)
  BY <1>1, <1>2 DEF BucketOf
<1>4. ASSUME NEW files  PROVE Diffable(files)' = Diffable(files)
  BY <1>1, <1>2 DEF Diffable
<1>5. ASSUME NEW files  PROVE DiffRaises(files)' = DiffRaises(files)
  <2>1. \A i \in Diffable(files) : i \in 1 .. mined
    BY DEF Diffable
  <2>. QED  BY <1>1, <1>2, <1>4, <2>1 DEF DiffRaises
<1>6. ASSUME NEW f  PROVE TouchesOf(f)' = TouchesOf(f)
  BY <1>1 DEF TouchesOf
<1>. QED  BY <1>1, <1>2, <1>3, <1>4, <1>5, <1>6

-----------------------------------------------------------------------------
LEMMA SignalsStable ==
    ASSUME Grows, mined \in 0 .. Len(log), behavioral \subseteq 1 .. mined,
           UNCHANGED <<mined, seen3, behavioral>>, NEW f, NEW frag
    PROVE  SignalsOf(f, frag)' = SignalsOf(f, frag)
<1>1. /\ mined' = mined /\ seen3' = seen3 /\ behavioral' = behavioral
      /\ \A i \in 1 .. mined : log'[i] = log[i]
      /\ TouchesOf(f)' = TouchesOf(f)
  BY PassesStable
<1>2. Behavioral(f)' = Behavioral(f) /\ \A i \in Behavioral(f) : log'[i] = log[i]
  BY <1>1 DEF Behavioral
<1>3. \A i \in TouchesOf(f) : log'[i] = log[i]
  BY <1>1 DEF TouchesOf
<1>4. {log'[i].ago : i \in Behavioral(f)} = {log[i].ago : i \in Behavioral(f)}
  BY <1>2
<1>5. {log'[i].ago : i \in TouchesOf(f)} = {log[i].ago : i \in TouchesOf(f)}
  BY <1>3
<1>6. DaysSince(f)' = DaysSince(f)
  BY <1>2, <1>4 DEF DaysSince
<1>7. AgeDays(f)' = AgeDays(f)
  BY <1>1, <1>5 DEF AgeDays
<1>. QED  BY <1>2, <1>6, <1>7 DEF SignalsOf

-----------------------------------------------------------------------------
(***************************************************************************)
(* The report, step by step: the rules scored so far are the first of its  *)
(* rows, each with what was said of it then, and once it has compared the  *)
(* commits it knows which of them are behavioural.                         *)
(***************************************************************************)
Begun == {"stale", "diffed", "classifying", "done"}
Compared == {"diffed", "classifying", "done"}
ReportSoFar ==
    /\ phase \notin {"classifying", "done"} => read = <<>>
    /\ phase \in Begun => seen # {}
    /\ phase = "classifying" => Len(read) < Cardinality(seen)
    /\ phase = "done" => Len(read) = Cardinality(seen)
    /\ phase \in Compared =>
          /\ ~DiffRaises(seen2)
          /\ behavioral = {i \in Diffable(seen2) : BucketOf(i) = "behavioral"}
    /\ phase = "failed" => {} \in {seen, seen2} \/ DiffRaises(seen2)
    /\ \A i \in DOMAIN signals :
          signals[i] = SignalsOf(Rows[i], SigmaFragility(read[i]))
IInv == TypeOK /\ ReportSoFar

LEMMA ExistsAre == Exists \in SUBSET Files
BY DEF Exists

LEMMA InitIsSound == Init => IInv
<1>. SUFFICES ASSUME Init  PROVE IInv
  OBVIOUS
<1>1. log \in Seq(Commits) /\ log = History
  BY TriageAssumption DEF Init
<1>2. \A f \in Files : Committed(f) \in Drafted \cup {NoText}
  <2>1. Len(log) + 1 \in 1 .. Len(log) + 1
    BY <1>1
  <2>. QED  BY <1>1, <2>1, CommittedType DEF Committed
<1>3. work \in [Files -> Drafted \cup {NoText}]
  BY <1>2 DEF Init
<1>4. Cardinality(seen) = 0 /\ DOMAIN signals = {} /\ Len(read) = 0 /\ Len(signals) = 0
  BY FS_EmptySet DEF Init
<1>5. read \in Seq(Drafted \cup {NoText}) /\ signals \in Seq(RuleSignals)
  BY DEF Init
<1>6. edits \in 0 .. MaxEdits /\ mined \in 0 .. Len(log)
  BY <1>1, TriageAssumption DEF Init
<1>7. TypeOK
  BY <1>1, <1>3, <1>4, <1>5, <1>6 DEF Init, TypeOK
<1>8. ReportSoFar
  BY <1>4 DEF Init, ReportSoFar, Begun, Compared
<1>. QED  BY <1>7, <1>8 DEF IInv

\* What the user does keeps the types, and the report.
LEMMA UserStepType ==
    ASSUME TypeOK, UserStep
    PROVE  /\ work' \in [Files -> Drafted \cup {NoText}] /\ Grows
           /\ edits' \in 0 .. MaxEdits /\ ReportUnchanged
<1>0. /\ work \in [Files -> Drafted \cup {NoText}] /\ log \in Seq(Commits)
      /\ edits \in 0 .. MaxEdits
  BY DEF TypeOK
<1>1. log' = log => Grows
  BY <1>0 DEF Grows
<1>2. \A f \in Files : Committed(f) \in Drafted \cup {NoText}
  <2>1. Len(log) + 1 \in 1 .. Len(log) + 1
    BY <1>0
  <2>. QED  BY <1>0, <2>1, CommittedType DEF Committed
<1>3. ASSUME NEW f \in Files, NEW text \in Drafted \cup {NoText}, Edit(f, text)
      PROVE  /\ work' \in [Files -> Drafted \cup {NoText}] /\ Grows
             /\ edits' \in 0 .. MaxEdits /\ ReportUnchanged
  <2>1. edits' \in 0 .. MaxEdits
    BY <1>0, <1>3, TriageAssumption DEF Edit
  <2>2. work' \in [Files -> Drafted \cup {NoText}]
    BY <1>0, <1>3 DEF Edit
  <2>. QED  BY <1>1, <1>3, <2>1, <2>2 DEF Edit
<1>4. ASSUME NEW f \in Files, Create(f)
      PROVE  \E text \in Drafted \cup {NoText} : Edit(f, text)
  BY <1>4, TriageAssumption DEF Create
<1>5. ASSUME NEW f \in Files, Change(f)
      PROVE  \E text \in Drafted \cup {NoText} : Edit(f, text)
  <2>1. PICK k \in Kinds : Written(Revise(work[f], k)) /\ Edit(f, Revise(work[f], k))
    BY <1>5 DEF Change
  <2>2. work[f] \in Drafted /\ work[f].docs # <<>>
    BY <1>0, <1>5 DEF Change
  <2>3. Revise(work[f], k) \in Texts
    BY <2>2, ReviseType
  <2>. QED  BY <2>1, <2>3 DEF Drafted
<1>6. ASSUME NEW f \in Files, Checkout(f)
      PROVE  /\ work' \in [Files -> Drafted \cup {NoText}] /\ Grows
             /\ edits' \in 0 .. MaxEdits /\ ReportUnchanged
  BY <1>0, <1>1, <1>2, <1>6 DEF Checkout
<1>7. ASSUME NEW f \in Files, NEW ago \in Days, NEW organic \in BOOLEAN, Commit(f, ago, organic)
      PROVE  /\ work' \in [Files -> Drafted \cup {NoText}] /\ Grows
             /\ edits' \in 0 .. MaxEdits /\ ReportUnchanged
  <2>. DEFINE c == [file |-> f, text |-> work[f], ago |-> ago, organic |-> organic]
  <2>1. c \in Commits
    BY <1>0, TriageAssumption DEF Commits
  <2>2. log' = Append(log, c)
    BY <1>7 DEF Commit
  <2>. HIDE DEF c
  <2>3. Grows
    BY <1>0, <2>1, <2>2 DEF Grows
  <2>. QED  BY <1>0, <1>7, <2>3 DEF Commit
<1>8. ASSUME NEW f \in Files, Delete(f)
      PROVE  \E text \in Drafted \cup {NoText} : Edit(f, text)
  BY <1>8 DEF Delete
<1>. QED  BY <1>3, <1>4, <1>5, <1>6, <1>7, <1>8 DEF UserStep

LEMMA UserStepKeeps ==
    ASSUME IInv, work' \in [Files -> Drafted \cup {NoText}], Grows,
           edits' \in 0 .. MaxEdits, ReportUnchanged
    PROVE  IInv'
<1>0. /\ phase' = phase /\ mined' = mined /\ seen' = seen /\ seen2' = seen2 /\ seen3' = seen3
      /\ behavioral' = behavioral /\ read' = read /\ signals' = signals
  BY DEF ReportUnchanged
<1>1. TypeOK
  BY DEF IInv
<1>2. mined \in 0 .. Len(log) /\ behavioral \subseteq 1 .. mined
  BY <1>1 DEF TypeOK
<1>3. mined' \in 0 .. Len(log')
  BY <1>0, <1>2 DEF Grows
<1>4. TypeOK'
  BY <1>0, <1>1, <1>3 DEF TypeOK, Grows
<1>5. Diffable(seen2)' = Diffable(seen2) /\ DiffRaises(seen2)' = DiffRaises(seen2)
  <2>1. PICK files : files = seen2
    OBVIOUS
  <2>2. Diffable(files)' = Diffable(files) /\ DiffRaises(files)' = DiffRaises(files)
    BY <1>0, <1>2, PassesStable
  <2>3. Diffable(seen2)' = Diffable(files)' /\ DiffRaises(seen2)' = DiffRaises(files)'
    BY <1>0, <2>1 DEF Diffable, DiffRaises
  <2>. QED  BY <2>1, <2>2, <2>3
<1>6. {i \in Diffable(seen2) : BucketOf(i) = "behavioral"}'
         = {i \in Diffable(seen2) : BucketOf(i) = "behavioral"}
  <2>1. \A i \in Diffable(seen2) : BucketOf(i)' = BucketOf(i)
    BY <1>0, <1>2, PassesStable DEF Diffable
  <2>. QED  BY <1>5, <2>1
<1>7. Rows' = Rows
  BY <1>0 DEF Rows
<1>8. ASSUME NEW i \in DOMAIN signals
      PROVE  (signals[i] = SignalsOf(Rows[i], SigmaFragility(read[i])))'
  <2>1. PICK f, frag : f = Rows[i] /\ frag = SigmaFragility(read[i])
    OBVIOUS
  <2>2. signals[i] = SignalsOf(f, frag)
    BY <1>8, <2>1 DEF IInv, ReportSoFar
  <2>3. SignalsOf(f, frag)' = SignalsOf(f, frag)
    BY <1>0, <1>2, SignalsStable
  <2>4. SignalsOf(Rows[i], SigmaFragility(read[i]))' = SignalsOf(f, frag)'
    BY <1>0, <1>7, <2>1 DEF SignalsOf, DaysSince, AgeDays, Behavioral, TouchesOf
  <2>. QED  BY <1>0, <2>2, <2>3, <2>4
<1>9. ReportSoFar'
  BY <1>0, <1>5, <1>6, <1>8 DEF IInv, ReportSoFar
<1>. QED  BY <1>4, <1>9 DEF IInv

-----------------------------------------------------------------------------
\* The passes read the history and the files; nothing of what the user owns is
\* touched.
LEMMA ReportStepKeeps ==
    ASSUME IInv, ReportStep
    PROVE  IInv'
<1>. SUFFICES ASSUME TypeOK, ReportSoFar
              PROVE  TypeOK' /\ ReportSoFar'
  BY DEF IInv
<1>0. /\ log \in Seq(Commits) /\ work \in [Files -> Drafted \cup {NoText}]
      /\ mined \in 0 .. Len(log) /\ behavioral \subseteq 1 .. mined
      /\ seen \in SUBSET Files /\ seen2 \in SUBSET Files /\ seen3 \in SUBSET Files
      /\ read \in Seq(Drafted \cup {NoText}) /\ signals \in Seq(RuleSignals)
      /\ Len(signals) = Len(read)
  BY DEF TypeOK
<1>1. Len(read) = 0 => DOMAIN signals = {}
  BY <1>0
<1>2. read = <<>> => signals = <<>> /\ DOMAIN signals = {}
  BY <1>0, <1>1
<1>3. Cardinality(seen) \in Nat /\ Rows \in Seq(Files) /\ Len(Rows) = Cardinality(seen)
  BY <1>0, RowsAre
<1>4. \A S \in SUBSET Files : Cardinality(S) \in Nat
  <2>1. IsFiniteSet(Files)
    <3>. DEFINE g == [i \in DOMAIN Order |-> Order[i]]
    <3>1. Order \in Seq(Files) /\ {Order[i] : i \in DOMAIN Order} = Files
      BY TriageAssumption
    <3>2. DOMAIN Order = 1 .. Len(Order) /\ Len(Order) \in Nat
      BY <3>1
    <3>3. g \in Surjection(1 .. Len(Order), Files)
      BY <3>1, <3>2 DEF Surjection
    <3>4. IsFiniteSet(1 .. Len(Order))
      BY <3>2, FS_Interval
    <3>. HIDE DEF g
    <3>. QED  BY <3>3, <3>4, FS_Surjection
  <2>. QED  BY <2>1, FS_Subset, FS_CardinalityType
<1>5. CASE MineCommits
  <2>1. read = <<>> /\ signals = <<>> /\ DOMAIN signals = {}
    BY <1>2, <1>5 DEF ReportSoFar, MineCommits
  <2>2. mined' = Len(log) /\ behavioral \subseteq 1 .. Len(log) /\ Len(log) \in 0 .. Len(log)
    BY <1>0, <1>5 DEF MineCommits
  <2>3. TypeOK'
    BY <1>5, <2>2 DEF TypeOK, MineCommits, UserUnchanged
  <2>4. ReportSoFar'
    BY <1>5, <2>1 DEF ReportSoFar, MineCommits, Begun, Compared
  <2>. QED  BY <2>3, <2>4
<1>6. CASE ComputeStaleness
  <2>1. read = <<>> /\ signals = <<>> /\ DOMAIN signals = {} /\ Len(read) = 0
    BY <1>2, <1>6 DEF ReportSoFar, ComputeStaleness
  <2>2. Exists \in SUBSET Files /\ Cardinality(Exists) \in Nat
    BY <1>4, ExistsAre
  <2>3. TypeOK'
    BY <1>6, <2>1, <2>2 DEF TypeOK, ComputeStaleness, UserUnchanged
  <2>4. ReportSoFar'
    BY <1>6, <2>1 DEF ReportSoFar, ComputeStaleness, Begun, Compared
  <2>. QED  BY <2>3, <2>4
<1>7. CASE ComputeSemanticDiff
  <2>1. read = <<>> /\ signals = <<>> /\ DOMAIN signals = {} /\ Len(read) = 0 /\ seen # {}
    BY <1>2, <1>7 DEF ReportSoFar, ComputeSemanticDiff, Begun
  <2>2. Exists \in SUBSET Files /\ seen2' = Exists
    BY <1>7, ExistsAre DEF ComputeSemanticDiff
  <2>. DEFINE D == {i \in Diffable(Exists) : BucketOf(i) = "behavioral"}
  <2>3. D \subseteq 1 .. mined
    BY DEF Diffable
  <2>4. behavioral' \in {behavioral, D} /\ phase' \in {"failed", "diffed"}
    BY <1>7 DEF ComputeSemanticDiff
  <2>5. TypeOK'
    <3>1. behavioral' \subseteq 1 .. mined
      BY <1>0, <2>3, <2>4
    <3>. QED  BY <1>7, <2>2, <2>4, <3>1 DEF TypeOK, ComputeSemanticDiff, UserUnchanged
  <2>6. log' = log /\ mined' = mined
    BY <1>7 DEF ComputeSemanticDiff, UserUnchanged
  <2>7. /\ DiffRaises(seen2)' = DiffRaises(Exists)
        /\ {i \in Diffable(seen2) : BucketOf(i) = "behavioral"}' = D
    BY <2>2, <2>6 DEF DiffRaises, Diffable, BucketOf, Before, CommittedBefore
  <2>8. CASE phase' = "failed"
    <3>1. Exists = {} \/ DiffRaises(Exists)
      BY <1>7, <2>8 DEF ComputeSemanticDiff
    <3>. QED  BY <1>7, <2>1, <2>2, <2>5, <2>7, <2>8, <3>1
                 DEF ReportSoFar, ComputeSemanticDiff, Begun, Compared
  <2>9. CASE phase' = "diffed"
    <3>1. ~DiffRaises(Exists) /\ behavioral' = D
      BY <1>7, <2>9 DEF ComputeSemanticDiff
    <3>. HIDE DEF D
    <3>. QED  BY <1>7, <2>1, <2>2, <2>5, <2>7, <2>9, <3>1
                 DEF ReportSoFar, ComputeSemanticDiff, Begun, Compared
  <2>. QED  BY <2>4, <2>8, <2>9
<1>8. CASE DiscoverAgain
  <2>1. read = <<>> /\ signals = <<>> /\ DOMAIN signals = {} /\ seen # {}
    BY <1>2, <1>8 DEF ReportSoFar, DiscoverAgain, Begun
  <2>2. Exists \in SUBSET Files
    BY ExistsAre
  <2>3. TypeOK'
    BY <1>8, <2>2 DEF TypeOK, DiscoverAgain, UserUnchanged
  <2>4. log' = log /\ mined' = mined /\ seen2' = seen2
    BY <1>8 DEF DiscoverAgain, UserUnchanged
  <2>5. /\ DiffRaises(seen2)' = DiffRaises(seen2)
        /\ {i \in Diffable(seen2) : BucketOf(i) = "behavioral"}'
              = {i \in Diffable(seen2) : BucketOf(i) = "behavioral"}
    BY <2>4 DEF DiffRaises, Diffable, BucketOf, Before, CommittedBefore
  <2>6. 0 < Cardinality(seen) /\ Len(read) = 0
    <3>1. Cardinality(seen) # 0
      BY <1>0, <2>1, RowsAre, FS_EmptySet
    <3>. QED  BY <1>3, <2>1, <3>1
  <2>7. ReportSoFar'
    BY <1>8, <2>1, <2>5, <2>6 DEF ReportSoFar, DiscoverAgain, Begun, Compared
  <2>. QED  BY <2>3, <2>7
<1>9. CASE ClassifyNext
  <2>. DEFINE n == Len(read)
              f == Rows[n + 1]
              frag == SigmaFragility(work[f])
              sig == SignalsOf(f, frag)
  <2>1. /\ phase = "classifying" /\ seen # {} /\ n < Cardinality(seen) /\ n \in Nat
        /\ ~DiffRaises(seen2)
        /\ behavioral = {i \in Diffable(seen2) : BucketOf(i) = "behavioral"}
        /\ \A i \in DOMAIN signals : signals[i] = SignalsOf(Rows[i], SigmaFragility(read[i]))
    BY <1>0, <1>9 DEF ReportSoFar, ClassifyNext, Begun, Compared
  <2>2. n + 1 \in DOMAIN Rows /\ f \in Files /\ work[f] \in Drafted \cup {NoText}
    BY <1>0, <1>3, <2>1
  <2>3. /\ frag.tier \in Tiers \cup {None} /\ frag.unscoreable \in BOOLEAN
        /\ frag.unscoreable <=> frag.tier = None
    BY <2>2, SigmaFragilityIs
  <2>4. /\ log' = log /\ work' = work /\ edits' = edits /\ mined' = mined /\ seen' = seen
        /\ seen2' = seen2 /\ seen3' = seen3 /\ behavioral' = behavioral
        /\ read' = Append(read, work[f]) /\ signals' = Append(signals, sig)
        /\ phase' = IF Len(read') = Len(Rows) THEN "done" ELSE phase
    BY <1>9 DEF ClassifyNext, UserUnchanged
  <2>. HIDE DEF f, frag
  <2>5. sig \in RuleSignals
    BY <1>0, <2>2, <2>3, SignalsType
  <2>6. sig.unscoreable = frag.unscoreable /\ sig.tier = frag.tier
    BY DEF SignalsOf
  <2>. HIDE DEF sig
  <2>7. /\ read' \in Seq(Drafted \cup {NoText}) /\ signals' \in Seq(RuleSignals)
        /\ Len(read') = n + 1 /\ Len(signals') = n + 1
        /\ n + 1 <= Cardinality(seen)
    BY <1>0, <1>3, <2>1, <2>2, <2>4, <2>5
  <2>8. \A i \in DOMAIN signals' :
           \/ i \in DOMAIN signals /\ signals'[i] = signals[i] /\ read'[i] = read[i]
           \/ i = n + 1 /\ signals'[i] = sig /\ read'[i] = work[f]
    BY <1>0, <2>2, <2>4, <2>5
  <2>9. \A i \in DOMAIN signals : signals[i].unscoreable <=> signals[i].tier = None
    BY DEF TypeOK
  <2>10. \A i \in DOMAIN signals' : signals'[i].unscoreable <=> signals'[i].tier = None
    BY <2>3, <2>6, <2>8, <2>9
  <2>11. phase' \in {"classifying", "done"}
    BY <2>1, <2>4
  <2>12. TypeOK'
    BY <2>4, <2>7, <2>10, <2>11 DEF TypeOK
  <2>13. Rows' = Rows
    BY <2>4 DEF Rows
  <2>14. \A g, r : SignalsOf(g, r)' = SignalsOf(g, r)
    BY <2>4 DEF SignalsOf, DaysSince, AgeDays, Behavioral, TouchesOf
  <2>15. ASSUME NEW i \in DOMAIN signals'
         PROVE  (signals[i] = SignalsOf(Rows[i], SigmaFragility(read[i])))'
    <3>1. PICK t : t = read'[i]
      OBVIOUS
    <3>2. PICK g, r : g = Rows[i] /\ r = SigmaFragility(t)
      OBVIOUS
    <3>3. SignalsOf(Rows[i], SigmaFragility(read[i]))' = SignalsOf(g, r)'
      BY <2>4, <2>13, <3>1, <3>2 DEF SignalsOf, DaysSince, AgeDays, Behavioral, TouchesOf
    <3>4. signals'[i] = SignalsOf(g, r)
      BY <2>1, <2>8, <2>15, <3>1, <3>2 DEF sig, frag, f
    <3>. QED  BY <2>14, <3>3, <3>4
  <2>16. /\ DiffRaises(seen2)' = DiffRaises(seen2)
         /\ {i \in Diffable(seen2) : BucketOf(i) = "behavioral"}'
               = {i \in Diffable(seen2) : BucketOf(i) = "behavioral"}
    BY <2>4 DEF DiffRaises, Diffable, BucketOf, Before, CommittedBefore
  <2>17. phase' = "done" <=> n + 1 = Cardinality(seen)
    BY <1>3, <2>1, <2>4, <2>7
  <2>18. ReportSoFar'
    BY <1>3, <2>1, <2>4, <2>7, <2>11, <2>15, <2>16, <2>17 DEF ReportSoFar
  <2>. QED  BY <2>12, <2>18
<1>10. CASE EndReport
  <2>1. Cardinality({}) = 0 /\ Len(<<>>) = 0 /\ DOMAIN <<>> = {}
    BY FS_EmptySet
  <2>2. <<>> \in Seq(Drafted \cup {NoText}) /\ <<>> \in Seq(RuleSignals)
    OBVIOUS
  <2>3. 0 \in 0 .. Len(log)
    BY <1>0
  <2>4. TypeOK'
    BY <1>10, <2>1, <2>2, <2>3 DEF TypeOK, EndReport, UserUnchanged
  <2>5. ReportSoFar'
    BY <1>10, <2>1 DEF ReportSoFar, EndReport, Begun, Compared
  <2>. QED  BY <2>4, <2>5
<1>. QED  BY <1>5, <1>6, <1>7, <1>8, <1>9, <1>10 DEF ReportStep

LEMMA StutterKeeps ==
    ASSUME IInv, UNCHANGED vars
    PROVE  IInv'
<1>1. TypeOK /\ log \in Seq(Commits) /\ work \in [Files -> Drafted \cup {NoText}]
      /\ edits \in 0 .. MaxEdits
  BY DEF IInv, TypeOK
<1>2. Grows /\ ReportUnchanged /\ work' = work /\ edits' = edits
  BY <1>1 DEF vars, Grows, ReportUnchanged
<1>. QED  BY <1>1, <1>2, UserStepKeeps

\* Files, commits and reports have their types, and a report under way is what
\* the code has made of its sources so far (build_triage_report): the commits it
\* calls behavioural are those of the log it mined that are, and each rule it
\* has scored is described by the text that was read, whatever the user has
\* edited, deleted and committed since.
THEOREM ReportIsSound == Spec => []IInv
<1>1. ASSUME IInv, [Next]_vars  PROVE IInv'
  <2>1. CASE UserStep
    BY <1>1, <2>1, UserStepType, UserStepKeeps DEF IInv
  <2>2. CASE ReportStep
    BY <1>1, <2>2, ReportStepKeeps
  <2>3. CASE UNCHANGED vars
    BY <1>1, <2>3, StutterKeeps
  <2>. QED  BY <1>1, <2>1, <2>2, <2>3 DEF Next
<1>. QED  BY <1>1, InitIsSound, PTL DEF Spec

-----------------------------------------------------------------------------
(***************************************************************************)
(* The rules of a finished report.                                         *)
(***************************************************************************)
LEMMA RankedAre ==
    ASSUME IInv, NEW i \in Ranked
    PROVE  LET frag == SigmaFragility(read[i])
           IN  /\ phase = "done" /\ i \in DOMAIN read /\ i \in DOMAIN signals /\ i \in DOMAIN Rows
               /\ read[i] \in Drafted \cup {NoText} /\ signals[i] \in RuleSignals
               /\ Rows[i] \in seen /\ Rows[i] \in Files
               /\ signals[i] = SignalsOf(Rows[i], frag)
               /\ signals[i].tier = frag.tier /\ signals[i].unscoreable = frag.unscoreable
<1>1. TypeOK /\ ReportSoFar
  BY DEF IInv
<1>2. phase = "done" /\ i \in DOMAIN read
  BY DEF Ranked
<1>3. /\ read \in Seq(Drafted \cup {NoText}) /\ signals \in Seq(RuleSignals)
      /\ Len(signals) = Len(read) /\ Len(read) = Cardinality(seen) /\ seen \in SUBSET Files
  BY <1>1, <1>2 DEF TypeOK, ReportSoFar
<1>4. /\ DOMAIN Rows = 1 .. Cardinality(seen) /\ Rows \in Seq(Files)
      /\ {Rows[p] : p \in DOMAIN Rows} = seen
  BY <1>3, RowsAre
<1>5. i \in DOMAIN signals /\ i \in DOMAIN Rows
  BY <1>2, <1>3, <1>4
<1>6. signals[i] = SignalsOf(Rows[i], SigmaFragility(read[i]))
  BY <1>1, <1>5 DEF ReportSoFar
<1>7. read[i] \in Drafted \cup {NoText} /\ signals[i] \in RuleSignals
  BY <1>2, <1>3, <1>5
<1>8. Rows[i] \in seen /\ Rows[i] \in Files
  BY <1>3, <1>4, <1>5
<1>9. /\ signals[i].tier = SigmaFragility(read[i]).tier
      /\ signals[i].unscoreable = SigmaFragility(read[i]).unscoreable
  BY <1>6 DEF SignalsOf
<1>. QED  BY <1>2, <1>5, <1>6, <1>7, <1>8, <1>9

\* A rule with a tier is the first document of its file that loads, as it was
\* written.
LEMMA FirstRuleIs ==
    ASSUME IInv, NEW i \in Ranked, ~signals[i].unscoreable
    PROVE  LET doc == FirstRule(i)
           IN  /\ read[i] \in Drafted /\ LoadFile(read[i]).failures = {}
               /\ LoadFile(read[i]).rules # <<>> /\ doc \in Docs
               /\ \E k \in DOMAIN read[i].docs : doc = read[i].docs[k]
               /\ signals[i].tier = Scored(doc).tier /\ ~Scored(doc).unscoreable
<1>. DEFINE text == read[i]
            rules == LoadFile(text).rules
<1>1. /\ text \in Drafted \cup {NoText} /\ ~SigmaFragility(text).unscoreable
      /\ signals[i].tier = SigmaFragility(text).tier
  BY RankedAre
<1>2. /\ text \in Drafted /\ LoadFile(text).failures = {} /\ rules # <<>> /\ rules \in Seq(Docs)
      /\ rules[1] \in Docs /\ SigmaFragility(text) = Scored(rules[1])
  BY <1>1, SigmaFragilityIs
<1>3. text \in Texts
  BY <1>2 DEF Drafted
<1>4. rules = Selected(text.docs, Loads(text)) /\ Loads(text) \subseteq DOMAIN text.docs
  BY <1>2, <1>3, Loading, TextType
<1>5. text.docs \in Seq(Docs)
  BY <1>3, TextType
<1>. HIDE DEF text, rules
<1>6. \E k \in DOMAIN text.docs : rules[1] = text.docs[k]
  <2>1. 1 \in DOMAIN rules
    BY <1>2
  <2>. DEFINE ds == text.docs
              I == Loads(text)
  <2>2. ds \in Seq(Docs) /\ I \in SUBSET DOMAIN ds /\ rules = Selected(ds, I)
    BY <1>4, <1>5
  <2>. HIDE DEF ds, I
  <2>3. \A p \in DOMAIN Selected(ds, I) : \E k \in I : Selected(ds, I)[p] = ds[k]
    BY <2>2, SelectedIs
  <2>4. \E k \in I : rules[1] = ds[k]
    BY <2>1, <2>2, <2>3
  <2>. QED  BY <2>2, <2>4 DEF ds
<1>. QED  BY <1>1, <1>2, <1>6 DEF text, rules, FirstRule

LEMMA JudgedAre ==
    ASSUME IInv, NEW i \in Judged
    PROVE  LET doc == FirstRule(i)
               rule == RuleOf(doc)
           IN  /\ i \in Ranked /\ ~signals[i].unscoreable /\ doc \in Docs /\ doc.corr = "no"
               /\ Built(rule.ast) /\ rule.corr = FALSE
               /\ rule = [corr |-> FALSE, ast |-> BuildAst(doc.detection)]
               /\ ClassifyRule(rule).rank # Nothing
               /\ TierRank[signals[i].tier] = ClassifyRule(rule).rank
               /\ \A c \in DOMAIN doc.detection.conditions :
                     doc.detection.conditions[c] \in ConditionsTo[MaxNesting - 1]
<1>. DEFINE doc == FirstRule(i)
            rule == RuleOf(doc)
<1>1. i \in Ranked /\ ~signals[i].unscoreable /\ doc.corr = "no"
  BY DEF Judged
<1>2. /\ read[i] \in Drafted /\ doc \in Docs /\ \E k \in DOMAIN read[i].docs : doc = read[i].docs[k]
      /\ signals[i].tier = Scored(doc).tier /\ ~Scored(doc).unscoreable
  BY <1>1, FirstRuleIs
<1>3. \A c \in DOMAIN doc.detection.conditions :
         doc.detection.conditions[c] \in ConditionsTo[MaxNesting - 1]
  BY <1>2 DEF Drafted, Written
<1>4. rule = [corr |-> FALSE, ast |-> BuildAst(doc.detection)]
  BY <1>1 DEF RuleOf
<1>5. rule.corr = FALSE
  BY <1>4
<1>6. /\ Built(rule.ast) /\ ClassifyRule(rule).rank # Nothing
      /\ TierRank[Scored(doc).tier] = ClassifyRule(rule).rank
  BY <1>2, ScoredIs
<1>. QED  BY <1>1, <1>2, <1>3, <1>4, <1>5, <1>6

LEMMA CostsHold == IInv => TierIsEvasionCost
<1>. SUFFICES ASSUME IInv, NEW i \in Judged,
                     Plain(RuleOf(FirstRule(i))), StructuralHits(RuleOf(FirstRule(i))) = {},
                     NEW reach \in -1 .. 3
              PROVE  RuleStillFires(RuleOf(FirstRule(i)), reach)
                        <=> reach < TierRank[signals[i].tier]
  BY DEF TierIsEvasionCost
<1>1. /\ Built(RuleOf(FirstRule(i)).ast) /\ RuleOf(FirstRule(i)).corr = FALSE
      /\ ClassifyRule(RuleOf(FirstRule(i))).rank # Nothing
      /\ TierRank[signals[i].tier] = ClassifyRule(RuleOf(FirstRule(i))).rank
  BY JudgedAre
<1>2. reach \in Ranks
  BY DEF Ranks
<1>. QED  BY <1>1, <1>2, RuleCosts

\* Excluding the filter in the first condition of a rule.
LEMMA ExclusionIs ==
    ASSUME NEW d \in Detections, 1 \in DOMAIN d.conditions,
           d.conditions[1] \in ConditionsTo[MaxNesting - 1]
    PROVE  Excluded(BuildAst(d),
                    BuildAst([d EXCEPT !.conditions[1] = Recondition(@, "exclude")]),
                    BuildSelection("filter", d.selections, TRUE))
<1>. DEFINE conds == d.conditions
            sels == d.selections
            old == conds[1]
            new == Recondition(old, "exclude")
            e == [d EXCEPT !.conditions[1] = new]
            s == BuildSelection("filter", sels, TRUE)
            excl == Cond("not", <<Named("filter")>>)
<1>1. conds \in Seq(Conditions) /\ sels \in [SelectionNames -> DetectionItems]
  BY DEF Detections
<1>2. new \in Conditions /\ old \in Conditions /\ "filter" \in SelectionNames
  <2>1. new \in Conditions
    BY ReconditionType
  <2>. QED  BY <1>1, <2>1, TriageAssumption
<1>3. new = Cond("and", <<old, excl>>)
  BY DEF Recondition
<1>4. /\ new.cond = "and" /\ DOMAIN new.args = 1 .. 2 /\ new.args[1] = old /\ new.args[2] = excl
      /\ excl.cond = "not" /\ DOMAIN excl.args = 1 .. 1 /\ excl.args[1] = Named("filter")
      /\ Named("filter").cond = "id" /\ Named("filter").args[1] = "filter"
  <2>. HIDE DEF excl
  <2>1. new.cond = "and" /\ DOMAIN new.args = 1 .. 2 /\ new.args[1] = old /\ new.args[2] = excl
    BY <1>3 DEF Cond
  <2>2. excl.cond = "not" /\ DOMAIN excl.args = 1 .. 1 /\ excl.args[1] = Named("filter")
    BY DEF Cond, excl
  <2>3. Named("filter").cond = "id" /\ Named("filter").args[1] = "filter"
    BY DEF Cond, Named
  <2>. QED  BY <2>1, <2>2, <2>3
<1>5. excl \in Conditions /\ Named("filter") \in Conditions
  <2>. HIDE DEF excl, new
  <2>1. \A k \in DOMAIN new.args : new.args[k] \in Conditions
    BY <1>2, <1>4, ACondition DEF Links
  <2>2. excl \in Conditions
    BY <1>4, <2>1
  <2>3. \A k \in DOMAIN excl.args : excl.args[k] \in Conditions
    BY <1>4, <2>2, ACondition DEF Links
  <2>. QED  BY <1>4, <2>2, <2>3
<1>6. /\ e.conditions = [conds EXCEPT ![1] = new] /\ e.selections = sels
      /\ e \in Detections
  <2>1. [conds EXCEPT ![1] = new] \in Seq(Conditions)
    <3>. DEFINE cx == [conds EXCEPT ![1] = new]
    <3>. HIDE DEF new
    <3>1. conds \in [1 .. Len(conds) -> Conditions] /\ Len(conds) \in Nat
      BY <1>1
    <3>2. cx \in [1 .. Len(conds) -> Conditions]
      BY <1>2, <3>1
    <3>. HIDE DEF cx
    <3>3. cx \in Seq(Conditions)
      BY <3>1, <3>2
    <3>. QED  BY <3>3 DEF cx
  <2>. HIDE DEF new
  <2>. QED  BY <2>1 DEF Detections
<1>. HIDE DEF e, new, excl, s
<1>. DEFINE built(c, neg) == BuildCondition(c, sels, neg)
            ast == BuildAst(d)
            made == BuildAst(e)
            n == built(new, FALSE)
            m == built(excl, FALSE)
<1>7. /\ ast \in Seq(Trees) /\ made \in Seq(Trees)
  BY <1>6, AstIsBuilt DEF Built
<1>8. ast = [c \in DOMAIN conds |-> built(conds[c], FALSE)]
  BY DEF BuildAst
<1>9. made = [c \in DOMAIN conds |-> built(IF c = 1 THEN new ELSE conds[c], FALSE)]
  BY <1>6 DEF BuildAst
<1>10. /\ n = Group("and", FALSE, [k \in 1 .. 2 |-> built(new.args[k], FALSE)])
       /\ m = Group("not", TRUE, [k \in 1 .. 1 |-> built(excl.args[k], TRUE)])
       /\ built(Named("filter"), TRUE) = BuildSelection("filter", sels, TRUE)
  BY <1>1, <1>2, <1>4, <1>5, ConditionAre
<1>11. /\ n \in Trees /\ m \in Trees
       /\ s \in Trees /\ s.node = "selection" /\ s.kind = SelectionKind("filter")
       /\ Nodes(s) = {s} \cup Nodes(BuildDetection(sels["filter"], TRUE))
       /\ Leaves(s) = Leaves(BuildDetection(sels["filter"], TRUE))
       /\ Detected(BuildDetection(sels["filter"], TRUE), TRUE)
  <2>1. n \in Trees /\ m \in Trees
    BY <1>1, <1>2, <1>5, ConditionAre
  <2>2. /\ s \in Trees /\ s.node = "selection" /\ s.kind = SelectionKind("filter")
        /\ Nodes(s) = {s} \cup Nodes(BuildDetection(sels["filter"], TRUE))
        /\ Leaves(s) = Leaves(BuildDetection(sels["filter"], TRUE))
        /\ Detected(BuildDetection(sels["filter"], TRUE), TRUE)
    BY <1>1, <1>2, SelectionTree DEF s
  <2>. QED  BY <2>1, <2>2
<1>12. s.kind = "filter"
  BY <1>11 DEF SelectionKind
<1>13. \A k \in Nodes(s) : k = s \/ k.node \in {"leaf", "and", "or"}
  BY <1>11 DEF Detected
<1>14. \A l \in Leaves(s) : l.negated
  BY <1>11 DEF Detected, Leaves
<1>15. /\ n.node = "and" /\ DOMAIN n.children = 1 .. 2
       /\ n.children[1] = built(old, FALSE) /\ n.children[2] = m
       /\ m.node = "not" /\ DOMAIN m.children = 1 .. 1 /\ m.children[1] = s
  <2>. HIDE DEF built, n, m
  <2>1. /\ n.node = "and" /\ DOMAIN n.children = 1 .. 2
        /\ n.children[1] = built(new.args[1], FALSE) /\ n.children[2] = built(new.args[2], FALSE)
    BY <1>10 DEF Group
  <2>2. /\ m.node = "not" /\ DOMAIN m.children = 1 .. 1
        /\ m.children[1] = built(excl.args[1], TRUE)
    BY <1>10 DEF Group
  <2>3. built(excl, FALSE) = m
    BY DEF m
  <2>. QED  BY <1>4, <1>10, <2>1, <2>2, <2>3 DEF s
<1>16. /\ DOMAIN made = DOMAIN ast /\ 1 \in DOMAIN ast
       /\ \A c \in DOMAIN ast : c # 1 => made[c] = ast[c]
       /\ made[1] = n /\ ast[1] = built(old, FALSE)
  <2>. HIDE DEF built, ast, made
  <2>. QED  BY <1>8, <1>9 DEF n
<1>. HIDE DEF ast, made, n, m
<1>17. Excluded(ast, made, s)
  BY <1>7, <1>11, <1>12, <1>13, <1>14, <1>15, <1>16 DEF Excluded
<1>. QED  BY <1>17 DEF ast, made, e, s, new

-----------------------------------------------------------------------------
LEMMA NoiseHolds == IInv => FilterIsNoiseReduction
<1>. SUFFICES ASSUME IInv, NEW i \in Judged
              PROVE  LET doc == FirstRule(i)
                         excluded == [doc EXCEPT !.detection.conditions[1] =
                                                    Recondition(@, "exclude")]
                         cloud(d) == IsCloudAuditContext(LeavesOfRule(RuleOf(d).ast))
                     IN  \/ Scored(excluded) = Scored(doc)
                         \/ "FIELD_MISMATCH" \in ClassifyRule(RuleOf(excluded)).findings
                         \/ cloud(excluded) # cloud(doc)
  BY DEF FilterIsNoiseReduction
<1>. DEFINE doc == FirstRule(i)
            excluded == [doc EXCEPT !.detection.conditions[1] = Recondition(@, "exclude")]
            d == doc.detection
            e == [d EXCEPT !.conditions[1] = Recondition(@, "exclude")]
            rule == RuleOf(doc)
            filtered == RuleOf(excluded)
            s == BuildSelection("filter", d.selections, TRUE)
<1>1. /\ doc \in Docs /\ doc.corr = "no" /\ Built(rule.ast)
      /\ rule = [corr |-> FALSE, ast |-> BuildAst(d)] /\ ClassifyRule(rule).rank # Nothing
      /\ \A c \in DOMAIN d.conditions : d.conditions[c] \in ConditionsTo[MaxNesting - 1]
  BY JudgedAre
<1>2. d \in Detections
  BY <1>1, DocType
<1>3. excluded.corr = "no" /\ excluded.detection = e /\ e.parses = d.parses
  BY <1>1, <1>2 DEF Docs, Detections
<1>4. filtered = [corr |-> FALSE, ast |-> BuildAst(e)]
  <2>. HIDE DEF excluded, e
  <2>. QED  BY <1>3 DEF RuleOf
<1>5. ~Unscoreable(rule)
  <2>1. rule.ast \in Seq(Trees)
    BY <1>1 DEF Built
  <2>. HIDE DEF rule
  <2>. QED  BY <1>1, <2>1, RuleRank
<1>6. 1 \in DOMAIN d.conditions
  <2>1. DOMAIN BuildAst(d) = DOMAIN d.conditions
    BY DEF BuildAst
  <2>2. LeavesOfRule(BuildAst(d)) # {}
    BY <1>1, <1>5 DEF Unscoreable
  <2>3. DOMAIN BuildAst(d) # {}
    BY <2>2 DEF LeavesOfRule, NodesOfRule
  <2>4. d.conditions \in Seq(Conditions)
    BY <1>2 DEF Detections
  <2>. HIDE DEF d
  <2>. QED  BY <2>1, <2>3, <2>4
<1>. HIDE DEF excluded
<1>7. Excluded(BuildAst(d), BuildAst(e), s)
  <2>1. d.conditions[1] \in ConditionsTo[MaxNesting - 1]
    BY <1>1, <1>6
  <2>. HIDE DEF d
  <2>. QED  BY <1>2, <1>6, <2>1, ExclusionIs
<1>. HIDE DEF d, e, rule, filtered, s, doc
<1>8. \/ ClassifyRule(filtered).rank = ClassifyRule(rule).rank
      \/ "FIELD_MISMATCH" \in ClassifyRule(filtered).findings
      \/ IsCloudAuditContext(LeavesOfRule(BuildAst(e)))
            # IsCloudAuditContext(LeavesOfRule(BuildAst(d)))
  BY <1>1, <1>4, <1>5, <1>7, FilterIsNoise
<1>9. filtered.ast = BuildAst(e) /\ rule.ast = BuildAst(d)
  BY <1>1, <1>4
<1>10. ClassifyRule(filtered).rank = ClassifyRule(rule).rank => Scored(excluded) = Scored(doc)
  BY <1>1, <1>3 DEF Scored, filtered, rule, d
<1>. QED  BY <1>8, <1>9, <1>10 DEF doc, excluded, filtered, rule

LEMMA FailedAre ==
    ASSUME NEW files, NEW crashing
    PROVE  FilesFailed(files, crashing) = {f \in DOMAIN files : LoadFile(files[f]).failures # {}}
<1>. DEFINE G == {g \in DOMAIN files : LoadFile(files[g]).failures # {}}
            L == {[file |-> f, stage |-> "load"] : f \in G}
            V == {[file |-> f, stage |-> "validate"] : f \in ValidateRules(files, crashing)}
            R == {r \in Failures(files, crashing) : r.stage = "load"}
<1>1. Failures(files, crashing) = L \cup V
  BY DEF Failures
<1>2. \A r \in L : r.stage = "load" /\ r.file \in G
  OBVIOUS
<1>3. \A r \in V : r.stage = "validate"
  OBVIOUS
<1>4. \A f \in G : \E r \in L : r.file = f
  <2>1. \A f \in G : [file |-> f, stage |-> "load"] \in L /\ [file |-> f, stage |-> "load"].file = f
    OBVIOUS
  <2>. HIDE DEF L, G
  <2>. QED  BY <2>1
<1>5. FilesFailed(files, crashing) = {r.file : r \in R}
  BY DEF FilesFailed
<1>. HIDE DEF L, V, G
<1>6. {r.file : r \in R} = G
  BY <1>1, <1>2, <1>3, <1>4
<1>. QED  BY <1>5, <1>6 DEF G

LEMMA LoadsHold == IInv => ScoredFilesLoad
<1>. SUFFICES ASSUME IInv, NEW i \in Ranked, ~signals[i].unscoreable
              PROVE  LET one == [f \in {Rows[i]} |-> read[i]]
                     IN  FilesOk(one) = {Rows[i]} /\ FilesFailed(one, {Rows[i]}) = {}
  BY DEF ScoredFilesLoad
<1>. DEFINE one == [f \in {Rows[i]} |-> read[i]]
<1>1. LoadFile(read[i]).failures = {} /\ LoadFile(read[i]).rules # <<>>
  BY FirstRuleIs
<1>2. DOMAIN one = {Rows[i]} /\ one[Rows[i]] = read[i]
  OBVIOUS
<1>. HIDE DEF one
<1>3. FilesOk(one) = {Rows[i]}
  BY <1>1, <1>2 DEF FilesOk
<1>4. FilesFailed(one, {Rows[i]}) = {}
  <2>1. FilesFailed(one, {Rows[i]}) = {f \in DOMAIN one : LoadFile(one[f]).failures # {}}
    BY FailedAre
  <2>. QED  BY <1>1, <1>2, <2>1
<1>. QED  BY <1>3, <1>4 DEF one

LEMMA AccountedHold == IInv => EveryFileAccounted
<1>. SUFFICES ASSUME TypeOK,
                     ~ScanRaises([f \in Exists |-> work[f]]), NEW crashing \in SUBSET Exists
              PROVE  LET files == [f \in Exists |-> work[f]]
                     IN  /\ FilesOk(files) \cup FilesFailed(files, crashing) = Exists
                         /\ \A f \in FilesOk(files) \cap FilesFailed(files, crashing) :
                               Len(work[f].docs) > 1
  BY DEF EveryFileAccounted, IInv
<1>. DEFINE files == [f \in Exists |-> work[f]]
<1>1. DOMAIN files = Exists /\ \A f \in Exists : files[f] = work[f]
  OBVIOUS
<1>2. \A f \in Exists : work[f] \in Texts
  BY DEF Exists, TypeOK, Drafted
<1>3. \A f \in Exists : ~LoadFile(work[f]).raises
  BY <1>1 DEF ScanRaises
<1>. HIDE DEF files
<1>4. FilesFailed(files, crashing) = {f \in Exists : LoadFile(work[f]).failures # {}}
  <2>1. FilesFailed(files, crashing) = {f \in DOMAIN files : LoadFile(files[f]).failures # {}}
    BY FailedAre
  <2>. QED  BY <1>1, <2>1
<1>5. FilesOk(files) = {f \in Exists : LoadFile(work[f]).rules # <<>>}
  BY <1>1 DEF FilesOk
<1>6. ASSUME NEW f \in Exists
      PROVE  /\ LoadFile(work[f]).rules = <<>> => LoadFile(work[f]).failures # {}
             /\ LoadFile(work[f]).rules # <<>> /\ LoadFile(work[f]).failures # {} =>
                   Len(work[f].docs) > 1
  BY <1>2, <1>3, Loading
<1>. QED  BY <1>4, <1>5, <1>6 DEF files

LEMMA BadDatesHold == IInv => OnlyBadDatesFail
<1>. SUFFICES ASSUME IInv, phase = "failed", {} \notin {seen, seen2}
              PROVE  \E f \in seen2 : \E r \in Revisions(f) :
                        "raises" \in {Before(r).yaml, log[r].text.yaml}
  BY DEF OnlyBadDatesFail
<1>1. PICK r \in Diffable(seen2) : ChangeRaises(Before(r), log[r].text)
  BY DEF IInv, ReportSoFar, DiffRaises
<1>2. "raises" \in {Before(r).yaml, log[r].text.yaml}
  BY <1>1 DEF ChangeRaises, ParseText, Uncaught
<1>3. log[r].file \in seen2 /\ r \in Revisions(log[r].file)
  BY <1>1 DEF Diffable, Revisions, TouchesOf
<1>. QED  BY <1>2, <1>3

LEMMA AttentionHolds == IInv => AttentionAgreesWithLabels
<1>. SUFFICES ASSUME IInv, NEW i \in Ranked
              PROVE  LET label == ComputePriority(signals[i]).label
                     IN  /\ NeedsAttention(signals[i]) => label \in {"CRITICAL", "HIGH"}
                         /\ label = "CRITICAL" => NeedsAttention(signals[i])
  BY DEF AttentionAgreesWithLabels
<1>1. signals[i] \in RuleSignals /\ (signals[i].unscoreable <=> signals[i].tier = None)
  BY RankedAre DEF IInv, TypeOK
<1>2. CASE ~signals[i].unscoreable
  BY <1>1, <1>2, AttentionAgrees
<1>3. CASE signals[i].unscoreable
  <2>1. signals[i].tier = None
    BY <1>1, <1>3
  <2>2. ~NeedsAttention(signals[i])
    BY <2>1, PriorityAssumption DEF NeedsAttention, IsFragile, FragileTiers, Tiers
  <2>3. ComputePriority(signals[i]).label = None
    BY <1>3 DEF ComputePriority
  <2>. QED  BY <2>2, <2>3, PriorityAssumption, LabelsAre
<1>. QED  BY <1>2, <1>3

LEMMA CountsHold == IInv => AllRulesCounted
<1>. SUFFICES ASSUME IInv, phase = "done"
              PROVE  LET scored   == Scoreable
                         unscored == UnscoreableRules
                         count    == PriorityBreakdown(scored, unscored)
                         files(rules) == {rules[i].file : i \in DOMAIN rules}
                     IN  /\ files(scored) \cup files(unscored) = seen
                         /\ Len(scored) + Len(unscored) = Cardinality(seen)
                         /\ count["CRITICAL"] + count["HIGH"] + count["MEDIUM"] + count["LOW"]
                               + count["UNCERTAIN"] = Cardinality(seen)
  BY DEF AllRulesCounted
<1>. DEFINE I == {i \in DOMAIN signals : ~signals[i].unscoreable}
            J == {i \in DOMAIN signals : signals[i].unscoreable}
            scored == Scoreable
            unscored == UnscoreableRules
            files(rules) == {rules[i].file : i \in DOMAIN rules}
<1>1. /\ signals \in Seq(RuleSignals) /\ Len(signals) = Cardinality(seen) /\ seen \in SUBSET Files
      /\ Len(signals) = Len(read)
  BY DEF IInv, TypeOK, ReportSoFar
<1>2. /\ DOMAIN Rows = 1 .. Cardinality(seen) /\ {Rows[p] : p \in DOMAIN Rows} = seen
      /\ Cardinality(seen) \in Nat
  BY <1>1, RowsAre
<1>3. DOMAIN signals = DOMAIN Rows
  <2>1. DOMAIN signals = 1 .. Len(signals)
    BY <1>1
  <2>. QED  BY <1>1, <1>2, <2>1
<1>4. \A i \in DOMAIN signals : signals[i].file = Rows[i]
  BY DEF IInv, ReportSoFar, SignalsOf
<1>5. /\ I \in SUBSET DOMAIN signals /\ J \in SUBSET DOMAIN signals
      /\ I \cup J = DOMAIN signals /\ I \cap J = {}
      /\ scored = Selected(signals, I) /\ unscored = Selected(signals, J)
  BY DEF Scoreable, UnscoreableRules
<1>. HIDE DEF I, J, scored, unscored
<1>6. /\ scored \in Seq(RuleSignals) /\ Len(scored) = Cardinality(I)
      /\ IsFiniteSet(I) /\ Cardinality(I) \in Nat
      /\ \A p \in DOMAIN scored : \E i \in I : scored[p] = signals[i]
      /\ \A i \in I : \E p \in DOMAIN scored : scored[p] = signals[i]
  BY <1>1, <1>5, SelectedIs
<1>7. /\ unscored \in Seq(RuleSignals) /\ Len(unscored) = Cardinality(J)
      /\ IsFiniteSet(J) /\ Cardinality(J) \in Nat
      /\ \A p \in DOMAIN unscored : \E i \in J : unscored[p] = signals[i]
      /\ \A i \in J : \E p \in DOMAIN unscored : unscored[p] = signals[i]
  BY <1>1, <1>5, SelectedIs
<1>8. Cardinality(I) + Cardinality(J) = Cardinality(seen)
  <2>1. Cardinality(I \cup J) = Cardinality(I) + Cardinality(J) - Cardinality(I \cap J)
    BY <1>6, <1>7, FS_Union
  <2>2. Cardinality(I \cap J) = 0
    BY <1>5, FS_EmptySet
  <2>3. Cardinality(DOMAIN signals) = Cardinality(seen)
    BY <1>2, <1>3, FS_Interval
  <2>. QED  BY <1>2, <1>5, <1>6, <1>7, <2>1, <2>2, <2>3
<1>9. files(scored) \cup files(unscored) = seen
  <2>1. ASSUME NEW f \in seen  PROVE f \in files(scored) \cup files(unscored)
    <3>1. PICK i \in DOMAIN signals : signals[i].file = f
      BY <1>2, <1>3, <1>4
    <3>. QED  BY <1>5, <1>6, <1>7, <3>1
  <2>2. ASSUME NEW f \in files(scored) \cup files(unscored)  PROVE f \in seen
    <3>1. PICK i \in DOMAIN signals : signals[i].file = f
      BY <1>5, <1>6, <1>7
    <3>. QED  BY <1>2, <1>3, <1>4, <3>1
  <2>. QED  BY <2>1, <2>2
<1>10. Len(scored) + Len(unscored) = Cardinality(seen)
  BY <1>6, <1>7, <1>8
<1>. DEFINE count == PriorityBreakdown(scored, unscored)
<1>11. count["CRITICAL"] + count["HIGH"] + count["MEDIUM"] + count["LOW"]
          + count["UNCERTAIN"] = Len(scored) + Len(unscored)
  BY <1>6, <1>7, AllRulesAreCounted
<1>. QED  BY <1>9, <1>10, <1>11 DEF scored, unscored

-----------------------------------------------------------------------------
(***************************************************************************)
(* The order of a report.                                                  *)
(***************************************************************************)
\* Triples compared from the left.
LEMMA LexOfTriples ==
    ASSUME NEW a1 \in Int, NEW a2 \in Int, NEW a3 \in Int,
           NEW b1 \in Int, NEW b2 \in Int, NEW b3 \in Int
    PROVE  LexLess(<<a1, a2, a3>>, <<b1, b2, b3>>)
              <=> \/ a1 < b1
                  \/ a1 = b1 /\ a2 < b2
                  \/ a1 = b1 /\ a2 = b2 /\ a3 < b3
<1>. DEFINE a == <<a1, a2, a3>>
            b == <<b1, b2, b3>>
            Less(i) == a[i] < b[i] /\ \A k \in 1 .. i - 1 : a[k] = b[k]
<1>1. a[1] = a1 /\ a[2] = a2 /\ a[3] = a3 /\ b[1] = b1 /\ b[2] = b2 /\ b[3] = b3
  OBVIOUS
<1>2. DOMAIN a = {1, 2, 3}
  OBVIOUS
<1>3. LexLess(a, b) <=> \E i \in DOMAIN a : Less(i)
  BY DEF LexLess
<1>. HIDE DEF a, b
<1>4. 1 .. 1 - 1 = {} /\ 1 .. 2 - 1 = {1} /\ 1 .. 3 - 1 = {1, 2}
  OBVIOUS
<1>5. Less(1) <=> a1 < b1
  BY <1>1, <1>4
<1>6. Less(2) <=> a1 = b1 /\ a2 < b2
  BY <1>1, <1>4
<1>7. Less(3) <=> a1 = b1 /\ a2 = b2 /\ a3 < b3
  BY <1>1, <1>4
<1>. HIDE DEF Less
<1>8. LexLess(a, b) <=> Less(1) \/ Less(2) \/ Less(3)
  BY <1>2, <1>3
<1>. QED  BY <1>5, <1>6, <1>7, <1>8 DEF a, b

\* The parts of a rule's key in the order within a tier.
NeverKey(sig) == IF sig.neverRevised THEN 0 ELSE 1
LEMMA TierFirstKey ==
    ASSUME NEW sig \in RuleSignals, sig.tier \in Tiers
    PROVE  /\ SortKey(sig, "tier_first") = <<TierRank[sig.tier], NeverKey(sig), DaysKey(sig)>>
           /\ TierRank[sig.tier] \in Int /\ NeverKey(sig) \in Int /\ DaysKey(sig) \in Int
<1>1. sig.tier # None
  BY PriorityAssumption
<1>2. SortKey(sig, "tier_first") = <<TierRank[sig.tier], NeverKey(sig), DaysKey(sig)>>
  BY <1>1 DEF SortKey, NeverKey
<1>3. sig.days \in Nat \cup {None} /\ sig.age \in Nat \cup {None}
  BY DEF RuleSignals
<1>4. OrElse(OrElse(sig.days, sig.age), 0) \in Nat
  BY <1>3 DEF OrElse
<1>5. DaysKey(sig) \in Int
  BY <1>4 DEF DaysKey
<1>6. TierRank[sig.tier] \in Int
  BY RankOrder
<1>. QED  BY <1>2, <1>5, <1>6 DEF NeverKey

LEMMA OrderHolds == IInv => LongestStaleFirst
<1>. DEFINE signs == Scoreable
            N == Len(signs)
            key(i) == SortKey(signs[i], "tier_first")
            lt(i, j) == LexLess(key(i), key(j)) \/ (key(i) = key(j) /\ i <= j)
            places == DOMAIN signs
            before == {e \in places \X places : lt(e[1], e[2])}
            rules == SortedScoreable(signs, "tier_first")
            t(i) == TierRank[signs[i].tier]
            v(i) == NeverKey(signs[i])
            d(i) == DaysKey(signs[i])
<1>. SUFFICES ASSUME IInv, phase = "done", NEW p \in DOMAIN rules, NEW q \in DOMAIN rules,
                     p < q, rules[p].tier = rules[q].tier,
                     None \notin {DaysUntouched(rules[p]), DaysUntouched(rules[q])},
                     0 \notin {rules[p].days, rules[q].days}
              PROVE  \/ rules[p].neverRevised /\ ~rules[q].neverRevised
                     \/ /\ rules[p].neverRevised = rules[q].neverRevised
                        /\ DaysUntouched(rules[p]) >= DaysUntouched(rules[q])
  BY DEF LongestStaleFirst
<1>1. \A i \in DOMAIN signals :
         /\ signals[i] \in RuleSignals
         /\ ~signals[i].unscoreable => signals[i].tier \in Tiers
         /\ signals[i].neverRevised <=> signals[i].days = None
  <2>. SUFFICES ASSUME NEW i \in DOMAIN signals
                PROVE  /\ signals[i] \in RuleSignals
                       /\ ~signals[i].unscoreable => signals[i].tier \in Tiers
                       /\ signals[i].neverRevised <=> signals[i].days = None
    OBVIOUS
  <2>1. i \in Ranked
    BY DEF Ranked, IInv, TypeOK
  <2>2. /\ signals[i] \in RuleSignals /\ signals[i] = SignalsOf(Rows[i], SigmaFragility(read[i]))
        /\ read[i] \in Drafted \cup {NoText} /\ Rows[i] \in Files
    BY <2>1, RankedAre
  <2>3. signals[i].unscoreable <=> signals[i].tier = None
    BY DEF IInv, TypeOK
  <2>4. signals[i].tier \in Tiers \cup {None}
    BY <2>2 DEF RuleSignals
  <2>5. /\ SigmaFragility(read[i]).tier \in Tiers \cup {None}
        /\ SigmaFragility(read[i]).unscoreable \in BOOLEAN
    BY <2>2, SigmaFragilityIs
  <2>6. DaysSince(Rows[i]) = None <=> Behavioral(Rows[i]) = {}
    BY <2>2, <2>5, SignalsType DEF IInv, TypeOK
  <2>7. signals[i].neverRevised = (Behavioral(Rows[i]) = {}) /\ signals[i].days = DaysSince(Rows[i])
    BY <2>2 DEF SignalsOf
  <2>. QED  BY <2>2, <2>3, <2>4, <2>6, <2>7
<1>2. /\ signs \in Seq(RuleSignals) /\ places = 1 .. N /\ N \in Nat
      /\ \A i \in places : /\ signs[i] \in RuleSignals /\ signs[i].tier \in Tiers
                           /\ signs[i].neverRevised <=> signs[i].days = None
  <2>. DEFINE I == {i \in DOMAIN signals : ~signals[i].unscoreable}
  <2>1. signals \in Seq(RuleSignals) /\ I \in SUBSET DOMAIN signals /\ signs = Selected(signals, I)
    BY DEF IInv, TypeOK, Scoreable
  <2>2. \A i \in I : i \in DOMAIN signals /\ ~signals[i].unscoreable
    OBVIOUS
  <2>. HIDE DEF I, signs
  <2>3. signs \in Seq(RuleSignals) /\ \A i \in DOMAIN signs : \E j \in I : signs[i] = signals[j]
    BY <2>1, SelectedIs
  <2>. QED  BY <1>1, <2>2, <2>3
<1>. HIDE DEF signs
<1>3. \A i \in places : /\ key(i) = <<t(i), v(i), d(i)>>
                        /\ t(i) \in Int /\ v(i) \in Int /\ d(i) \in Int
  BY <1>2, TierFirstKey
<1>. HIDE DEF t, v, d
<1>4. ASSUME NEW i \in places, NEW j \in places
      PROVE  LexLess(key(i), key(j)) <=> \/ t(i) < t(j)
                                         \/ t(i) = t(j) /\ v(i) < v(j)
                                         \/ t(i) = t(j) /\ v(i) = v(j) /\ d(i) < d(j)
  <2>. HIDE DEF key
  <2>. QED  BY <1>3, LexOfTriples
<1>5. ASSUME NEW i \in places, NEW j \in places
      PROVE  key(i) = key(j) <=> t(i) = t(j) /\ v(i) = v(j) /\ d(i) = d(j)
  <2>. HIDE DEF key
  <2>1. <<t(i), v(i), d(i)>> = <<t(j), v(j), d(j)>> <=> t(i) = t(j) /\ v(i) = v(j) /\ d(i) = d(j)
    OBVIOUS
  <2>. QED  BY <1>3, <2>1
<1>. HIDE DEF key
<1>6. \A i, j \in places : <<i, j>> \in before <=>
         \/ t(i) < t(j)
         \/ t(i) = t(j) /\ v(i) < v(j)
         \/ t(i) = t(j) /\ v(i) = v(j) /\ d(i) < d(j)
         \/ t(i) = t(j) /\ v(i) = v(j) /\ d(i) = d(j) /\ i <= j
  <2>1. \A i, j \in places : <<i, j>> \in before <=> lt(i, j)
    OBVIOUS
  <2>. HIDE DEF before
  <2>. QED  BY <1>4, <1>5, <2>1
<1>7. rules = Arranged(signs, places, before)
  BY DEF SortedScoreable, key
<1>. HIDE DEF before, rules, lt
<1>8. \A i \in places : i \in Int
  BY <1>2
<1>9. TotalOrder(places, before)
  <2>1. ASSUME NEW i \in places, NEW j \in places
        PROVE  <<i, j>> \in before \/ <<j, i>> \in before
    <3>1. /\ t(i) \in Int /\ v(i) \in Int /\ d(i) \in Int /\ i \in Int
          /\ t(j) \in Int /\ v(j) \in Int /\ d(j) \in Int /\ j \in Int
      BY <1>3, <1>8
    <3>2. <<i, j>> \in before <=>
             \/ t(i) < t(j)
             \/ t(i) = t(j) /\ v(i) < v(j)
             \/ t(i) = t(j) /\ v(i) = v(j) /\ d(i) < d(j)
             \/ t(i) = t(j) /\ v(i) = v(j) /\ d(i) = d(j) /\ i <= j
      BY <1>6
    <3>3. <<j, i>> \in before <=>
             \/ t(j) < t(i)
             \/ t(j) = t(i) /\ v(j) < v(i)
             \/ t(j) = t(i) /\ v(j) = v(i) /\ d(j) < d(i)
             \/ t(j) = t(i) /\ v(j) = v(i) /\ d(j) = d(i) /\ j <= i
      BY <1>6
    <3>. QED  BY <3>1, <3>2, <3>3
  <2>2. \A i, j \in places : <<i, j>> \in before /\ <<j, i>> \in before => i = j
    BY <1>3, <1>6, <1>8
  <2>3. \A i, j, k \in places :
           <<i, j>> \in before /\ <<j, k>> \in before => <<i, k>> \in before
    BY <1>3, <1>6, <1>8
  <2>. QED  BY <2>1, <2>2, <2>3 DEF TotalOrder
<1>10. PICK at : Arranges(at, places, before)
  <2>1. IsFiniteSet(places)
    BY <1>2, FS_Interval
  <2>. QED  BY <1>9, <2>1, Arrangement
<1>11. /\ rules = [n \in 1 .. Cardinality(places) |-> signs[at[n]]]
       /\ DOMAIN rules = 1 .. Cardinality(places)
       /\ at[p] \in places /\ at[q] \in places /\ <<at[p], at[q]>> \in before
       /\ rules[p] = signs[at[p]] /\ rules[q] = signs[at[q]]
  <2>1. rules = [n \in 1 .. Cardinality(places) |-> signs[at[n]]]
    BY <1>7, <1>10 DEF Arranges
  <2>2. DOMAIN rules = 1 .. Cardinality(places)
    BY <2>1
  <2>3. p \in 1 .. Cardinality(places) /\ q \in 1 .. Cardinality(places)
    BY <2>2
  <2>4. at[p] \in places /\ at[q] \in places /\ <<at[p], at[q]>> \in before
    BY <1>10, <2>3 DEF Arranges
  <2>. QED  BY <2>1, <2>2, <2>3, <2>4
<1>. DEFINE a == signs[at[p]]
            b == signs[at[q]]
<1>12. /\ a \in RuleSignals /\ b \in RuleSignals
       /\ a.neverRevised <=> a.days = None
       /\ b.neverRevised <=> b.days = None
  BY <1>2, <1>11
<1>13. /\ TierRank[a.tier] = TierRank[b.tier]
       /\ \/ NeverKey(a) < NeverKey(b)
          \/ NeverKey(a) = NeverKey(b) /\ DaysKey(a) <= DaysKey(b)
  <2>1. t(at[p]) = t(at[q])
    BY <1>11 DEF t
  <2>2. \/ v(at[p]) < v(at[q])
        \/ v(at[p]) = v(at[q]) /\ d(at[p]) <= d(at[q])
    BY <1>3, <1>6, <1>11, <2>1
  <2>. QED  BY <2>1, <2>2 DEF t, v, d
<1>14. ASSUME NEW s \in RuleSignals, s.neverRevised <=> s.days = None,
              DaysUntouched(s) # None, s.days # 0
       PROVE  DaysKey(s) = -DaysUntouched(s) /\ DaysUntouched(s) \in Nat
  <2>1. s.days \in Nat \cup {None} /\ s.age \in Nat \cup {None}
    BY DEF RuleSignals
  <2>2. CASE s.days = None
    <3>1. DaysUntouched(s) = s.age /\ s.age \in Nat /\ s.age # None
      BY <1>14, <2>1, <2>2 DEF DaysUntouched
    <3>2. OrElse(OrElse(s.days, s.age), 0) = s.age
      BY <2>2, <3>1 DEF OrElse
    <3>. QED  BY <3>1, <3>2 DEF DaysKey
  <2>3. CASE s.days # None
    <3>1. DaysUntouched(s) = s.days /\ s.days \in Nat
      BY <1>14, <2>1, <2>3 DEF DaysUntouched
    <3>2. OrElse(OrElse(s.days, s.age), 0) = s.days
      BY <1>14, <2>3 DEF OrElse
    <3>. QED  BY <3>1, <3>2 DEF DaysKey
  <2>. QED  BY <2>2, <2>3
<1>15. /\ DaysUntouched(a) # None /\ a.days # 0
       /\ DaysUntouched(b) # None /\ b.days # 0
  BY <1>11
<1>16. /\ DaysKey(a) = -DaysUntouched(a) /\ DaysUntouched(a) \in Nat
       /\ DaysKey(b) = -DaysUntouched(b) /\ DaysUntouched(b) \in Nat
  BY <1>12, <1>14, <1>15
<1>17. a.neverRevised \in BOOLEAN /\ b.neverRevised \in BOOLEAN
  BY <1>12 DEF RuleSignals
<1>18. \/ a.neverRevised /\ ~b.neverRevised
       \/ a.neverRevised = b.neverRevised /\ DaysUntouched(a) >= DaysUntouched(b)
  <2>. HIDE DEF a, b
  <2>1. CASE NeverKey(a) < NeverKey(b)
    BY <1>17, <2>1 DEF NeverKey
  <2>2. CASE NeverKey(a) = NeverKey(b) /\ DaysKey(a) <= DaysKey(b)
    BY <1>16, <1>17, <2>2 DEF NeverKey
  <2>. QED  BY <1>13, <2>1, <2>2
<1>. QED  BY <1>11, <1>18

-----------------------------------------------------------------------------
(***************************************************************************)
(* What a change of a text is called.                                      *)
(***************************************************************************)
RulePlaces(text) == {k \in DOMAIN text.docs : text.docs[k].kind = "rule"}

\* Two documents that say the same.
SameLogic(b, a) == b.corr = a.corr /\ b.detection = a.detection /\ b.logsource = a.logsource

\* Two texts with the same rules at the same places.
Alike(before, after) ==
    /\ DOMAIN before.docs = DOMAIN after.docs /\ RulePlaces(before) = RulePlaces(after)
    /\ \A k \in RulePlaces(before) : SameLogic(before.docs[k], after.docs[k])

\* They mean the same; and where all documents are rules, the logic tells the
\* texts that are alike.
LEMMA AlikeIsSame ==
    ASSUME NEW before \in Texts, NEW after \in Texts
    PROVE  /\ Alike(before, after) => Meaning(before) = Meaning(after)
           /\ /\ DOMAIN before.docs = DOMAIN after.docs /\ RulePlaces(before) = RulePlaces(after)
              /\ Logic(before) = Logic(after)
              => Alike(before, after)
<1>1. DOMAIN before.docs = 1 .. Len(before.docs) /\ Len(before.docs) \in Nat
  BY TextType
<1>. DEFINE I == RulePlaces(before)
            rb == RulesWritten(before)
            ra == RulesWritten(after)
<1>2. I \in SUBSET (1 .. Len(before.docs))
  BY <1>1 DEF RulePlaces
<1>. HIDE DEF I
<1>3. PICK at : Selects(at, I)
  BY <1>1, <1>2, Selection
<1>4. SUFFICES ASSUME RulePlaces(after) = I, DOMAIN before.docs = DOMAIN after.docs
               PROVE  /\ (\A k \in I : SameLogic(before.docs[k], after.docs[k]))
                             => Meaning(before) = Meaning(after)
                      /\ Logic(before) = Logic(after) =>
                             \A k \in I : SameLogic(before.docs[k], after.docs[k])
  BY DEF Alike, I
<1>5. /\ rb = [p \in 1 .. Cardinality(I) |-> before.docs[at[p]]]
      /\ ra = [p \in 1 .. Cardinality(I) |-> after.docs[at[p]]]
      /\ \A p \in 1 .. Cardinality(I) : at[p] \in I
      /\ \A k \in I : \E p \in 1 .. Cardinality(I) : at[p] = k
  <2>1. rb = Selected(before.docs, I) /\ ra = Selected(after.docs, I)
    BY <1>4 DEF RulesWritten, RulePlaces, I
  <2>. QED  BY <1>3, <2>1 DEF Selects
<1>. DEFINE P == 1 .. Cardinality(I)
<1>. HIDE DEF P, rb, ra
<1>6. /\ DOMAIN rb = P /\ DOMAIN ra = P
      /\ \A p \in P : rb[p] = before.docs[at[p]] /\ ra[p] = after.docs[at[p]]
  BY <1>5 DEF P
<1>7. ASSUME \A k \in I : SameLogic(before.docs[k], after.docs[k])
      PROVE  Meaning(before) = Meaning(after)
  <2>. DEFINE m(r) == <<r.corr, r.detection.parses,
                        IF r.detection.parses THEN BuildAst(r.detection) ELSE r.detection,
                        r.logsource>>
  <2>1. Meaning(before) = [i \in P |-> m(rb[i])] /\ Meaning(after) = [i \in P |-> m(ra[i])]
    BY <1>6 DEF Meaning, rb, ra
  <2>2. ASSUME NEW p \in P  PROVE m(rb[p]) = m(ra[p])
    <3>1. at[p] \in I
      BY <1>5 DEF P
    <3>2. /\ rb[p].corr = ra[p].corr /\ rb[p].detection = ra[p].detection
          /\ rb[p].logsource = ra[p].logsource
      BY <1>6, <1>7, <3>1 DEF SameLogic
    <3>. QED  BY <3>2
  <2>. HIDE DEF m
  <2>. QED  BY <2>1, <2>2
<1>8. ASSUME Logic(before) = Logic(after), NEW k \in I
      PROVE  SameLogic(before.docs[k], after.docs[k])
  <2>. DEFINE l(r) == <<r.corr, r.detection, r.logsource>>
  <2>1. Logic(before) = [i \in P |-> l(rb[i])] /\ Logic(after) = [i \in P |-> l(ra[i])]
    BY <1>6 DEF Logic, rb, ra
  <2>2. PICK p \in P : at[p] = k
    BY <1>5 DEF P
  <2>3. l(rb[p]) = l(ra[p])
    <3>. HIDE DEF l
    <3>. QED  BY <1>8, <2>1, <2>2
  <2>4. rb[p].corr = ra[p].corr /\ rb[p].detection = ra[p].detection
        /\ rb[p].logsource = ra[p].logsource
    BY <2>3
  <2>. QED  BY <1>6, <2>2, <2>4 DEF SameLogic
<1>. QED  BY <1>7, <1>8

\* The rules of a text that fails nowhere are those written in it.
LEMMA AllLoad ==
    ASSUME NEW text \in Texts, text.yaml # "raises", ParseText(text).failures = {}
    PROVE  text.yaml = "ok" /\ ParseText(text).rules = RulesWritten(text)
           /\ Len(ParseText(text).rules) = Cardinality(RulePlaces(text))
<1>1. /\ LoadFile(text) = ParseText(text)
      /\ text.yaml # "ok" => ParseText(text).rules = <<>>
      /\ ParseText(text).rules = <<>> => ParseText(text).failures # {}
  BY Loading
<1>2. text.yaml = "ok"
  BY <1>1
<1>3. /\ ParseText(text).rules = Selected(text.docs, Loads(text))
      /\ Loads(text) \subseteq DOMAIN text.docs
      /\ \A k \in DOMAIN text.docs : k \in Loads(text) <=> text.docs[k].kind = "rule"
  BY <1>1, <1>2, Loading
<1>4. Loads(text) = RulePlaces(text)
  BY <1>3 DEF RulePlaces
<1>5. ParseText(text).rules = RulesWritten(text)
  BY <1>3, <1>4 DEF RulesWritten, RulePlaces
<1>6. Len(ParseText(text).rules) = Cardinality(RulePlaces(text))
  <2>. DEFINE ds == text.docs
              I == RulePlaces(text)
  <2>1. ds \in Seq(Docs) /\ I \in SUBSET DOMAIN ds
    BY TextType DEF RulePlaces
  <2>2. ParseText(text).rules = Selected(ds, I)
    BY <1>3, <1>4
  <2>. HIDE DEF ds, I
  <2>3. Len(Selected(ds, I)) = Cardinality(I)
    BY <2>1, SelectedIs
  <2>. QED  BY <2>2, <2>3 DEF I
<1>. QED  BY <1>2, <1>5, <1>6

\* _try_ast_classification, where it can tell.
LEMMA AstTells ==
    ASSUME NEW before \in Texts, NEW after \in Texts,
           before.yaml # "raises", after.yaml # "raises", TryAst(before, after) # NotComparable
    PROVE  LET rb == RulesWritten(before)[1]
               ra == RulesWritten(after)[1]
           IN  /\ before.yaml = "ok" /\ after.yaml = "ok"
               /\ Len(RulesWritten(before)) = 1 /\ Len(RulesWritten(after)) = 1
               /\ TryAst(before, after).bucket # "behavioral" =>
                     /\ rb.corr = ra.corr /\ rb.detection.parses /\ ra.detection.parses
                     /\ BuildAst(rb.detection) = BuildAst(ra.detection)
                     /\ rb.logsource = ra.logsource
               /\ SameLogic(rb, ra) /\ rb.order = ra.order =>
                     TryAst(before, after).bucket # "behavioral"
<1>. DEFINE b == ParseText(before)
            a == ParseText(after)
            rb == b.rules[1]
            ra == a.rules[1]
            t(doc) == <<BuildAst(doc.detection), doc.order, doc.logsource>>
            std == StandardRuleClassification(rb, ra)
            some == Classified("behavioral", "high", "ast")
<1>1. TryAst(before, after) =
         IF b.failures \cup a.failures # {} \/ Len(b.rules) # 1 \/ Len(a.rules) # 1
         THEN NotComparable
         ELSE IF rb.corr # ra.corr THEN some
         ELSE IF rb.corr = "yes" \/ ~rb.detection.parses \/ ~ra.detection.parses
         THEN NotComparable ELSE std
  BY DEF TryAst
<1>2. std.bucket = IF t(rb) # t(ra) THEN "behavioral"
                   ELSE IF rb.meta # ra.meta THEN "semantic_metadata" ELSE "cosmetic"
  BY DEF StandardRuleClassification, Classified
<1>3. some.bucket = "behavioral"
  BY DEF Classified
<1>. HIDE DEF b, a, std, some
<1>4. b.failures = {} /\ a.failures = {} /\ Len(b.rules) = 1 /\ Len(a.rules) = 1
  BY <1>1
<1>5. /\ before.yaml = "ok" /\ after.yaml = "ok"
      /\ b.rules = RulesWritten(before) /\ a.rules = RulesWritten(after)
  BY <1>4, AllLoad DEF a, b
<1>6. TryAst(before, after) =
         IF rb.corr # ra.corr THEN some
         ELSE IF rb.corr = "yes" \/ ~rb.detection.parses \/ ~ra.detection.parses
         THEN NotComparable ELSE std
  BY <1>1, <1>4
<1>7. t(rb) = t(ra) <=> /\ BuildAst(rb.detection) = BuildAst(ra.detection)
                        /\ rb.order = ra.order /\ rb.logsource = ra.logsource
  OBVIOUS
<1>. HIDE DEF t, rb, ra
<1>8. ASSUME TryAst(before, after).bucket # "behavioral"
      PROVE  /\ rb.corr = ra.corr /\ rb.detection.parses /\ ra.detection.parses
             /\ BuildAst(rb.detection) = BuildAst(ra.detection) /\ rb.logsource = ra.logsource
  BY <1>2, <1>3, <1>6, <1>7, <1>8
<1>9. ASSUME SameLogic(rb, ra), rb.order = ra.order
      PROVE  TryAst(before, after).bucket # "behavioral"
  <2>1. t(rb) = t(ra) /\ rb.corr = ra.corr
    BY <1>7, <1>9 DEF SameLogic
  <2>2. TryAst(before, after) = std
    BY <1>6, <2>1
  <2>. QED  BY <1>2, <2>1, <2>2
<1>. QED  BY <1>4, <1>5, <1>8, <1>9 DEF rb, ra

\* _try_yaml_key_classification, where it can tell.
LEMMA KeysTell ==
    ASSUME NEW before \in Texts, NEW after \in Texts, before.yaml = "ok", after.yaml = "ok"
    PROVE  /\ TryYamlKey(before, after) # NotComparable
           /\ TryYamlKey(before, after).bucket # "behavioral" <=>
                 /\ Alike(before, after) /\ RulePlaces(before) = DOMAIN before.docs
                 /\ RulePlaces(after) = DOMAIN after.docs
<1>. DEFINE nth(docs, i) == IF i \in DOMAIN docs THEN docs[i] ELSE [kind |-> "null"]
            pairs == DOMAIN before.docs \cup DOMAIN after.docs
            of(i) == ClassifyDocPair(nth(before.docs, i), nth(after.docs, i))
            buckets == {of(i) : i \in pairs}
            worst == CHOOSE b \in buckets :
                        \A c \in buckets : BucketPriority[c] <= BucketPriority[b]
            bucket == IF pairs = {} THEN "cosmetic" ELSE worst
            Names == {"behavioral", "semantic_metadata", "cosmetic"}
<1>1. TryYamlKey(before, after) = Classified(bucket, "medium", "yaml_key")
  BY DEF TryYamlKey
<1>. HIDE DEF bucket
<1>2. TryYamlKey(before, after).bucket = bucket /\ TryYamlKey(before, after).method = "yaml_key"
  BY <1>1 DEF Classified
<1>3. NotComparable.method = "none"
  BY DEF NotComparable, Classified
<1>4. /\ BucketPriority["behavioral"] = 3 /\ BucketPriority["semantic_metadata"] = 2
      /\ BucketPriority["cosmetic"] = 1
  BY DEF BucketPriority
<1>5. \A i \in pairs : of(i) \in Names
  BY DEF ClassifyDocPair
<1>6. \A i \in pairs : of(i) # "behavioral" <=>
         /\ i \in DOMAIN before.docs /\ i \in DOMAIN after.docs
         /\ before.docs[i].kind = "rule" /\ after.docs[i].kind = "rule"
         /\ SameLogic(before.docs[i], after.docs[i])
  <2>. SUFFICES ASSUME NEW i \in pairs
                PROVE  of(i) # "behavioral" <=>
                          /\ i \in DOMAIN before.docs /\ i \in DOMAIN after.docs
                          /\ before.docs[i].kind = "rule" /\ after.docs[i].kind = "rule"
                          /\ SameLogic(before.docs[i], after.docs[i])
    OBVIOUS
  <2>1. CASE i \notin DOMAIN before.docs \/ i \notin DOMAIN after.docs
    <3>1. nth(before.docs, i).kind = "null" \/ nth(after.docs, i).kind = "null"
      BY <2>1
    <3>2. of(i) = "behavioral"
      BY <3>1 DEF ClassifyDocPair
    <3>. QED  BY <2>1, <3>2
  <2>2. CASE i \in DOMAIN before.docs /\ i \in DOMAIN after.docs
    <3>. DEFINE x == before.docs[i]
                y == after.docs[i]
    <3>1. of(i) = ClassifyDocPair(x, y)
      BY <2>2
    <3>. HIDE DEF x, y, of
    <3>2. <<x.detection, x.logsource, x.corr>> = <<y.detection, y.logsource, y.corr>>
             <=> SameLogic(x, y)
      BY DEF SameLogic
    <3>3. ClassifyDocPair(x, y) # "behavioral" <=>
             x.kind = "rule" /\ y.kind = "rule" /\ SameLogic(x, y)
      BY <3>2 DEF ClassifyDocPair
    <3>. QED  BY <2>2, <3>1, <3>3 DEF x, y
  <2>. QED  BY <2>1, <2>2
<1>. HIDE DEF of
<1>7. ASSUME pairs # {}
      PROVE  /\ worst \in buckets /\ worst \in Names
             /\ \A c \in buckets : c \in Names /\ BucketPriority[c] <= BucketPriority[worst]
  <2>1. buckets # {} /\ buckets \subseteq Names
    BY <1>5, <1>7
  <2>. HIDE DEF buckets
  <2>2. \E b \in buckets : \A c \in buckets : BucketPriority[c] <= BucketPriority[b]
    <3>1. CASE "behavioral" \in buckets
      BY <1>4, <2>1, <3>1
    <3>2. CASE "behavioral" \notin buckets /\ "semantic_metadata" \in buckets
      BY <1>4, <2>1, <3>2
    <3>3. CASE "behavioral" \notin buckets /\ "semantic_metadata" \notin buckets
      <4>1. \A c \in buckets : c = "cosmetic"
        BY <2>1, <3>3
      <4>2. PICK b : b \in buckets
        BY <2>1
      <4>. QED  BY <1>4, <4>1, <4>2
    <3>. QED  BY <3>1, <3>2, <3>3
  <2>. QED  BY <2>1, <2>2
<1>8. bucket # "behavioral" <=> \A i \in pairs : of(i) # "behavioral"
  <2>1. CASE pairs = {}
    BY <2>1 DEF bucket
  <2>2. CASE pairs # {}
    <3>1. bucket = worst
      BY <2>2 DEF bucket
    <3>. HIDE DEF worst
    <3>2. "behavioral" \in buckets => worst = "behavioral"
      BY <1>4, <1>7, <2>2
    <3>3. worst \in buckets
      BY <1>7, <2>2
    <3>. QED  BY <3>1, <3>2, <3>3
  <2>. QED  BY <2>1, <2>2
<1>9. (\A i \in pairs : of(i) # "behavioral") <=>
         /\ Alike(before, after) /\ RulePlaces(before) = DOMAIN before.docs
         /\ RulePlaces(after) = DOMAIN after.docs
  BY <1>6 DEF Alike, RulePlaces
<1>. QED  BY <1>2, <1>3, <1>8, <1>9

-----------------------------------------------------------------------------
\* _try_raw_text_classification: the sections that tell a change of the logic.
LEMMA SectionsTell ==
    ASSUME NEW before \in Texts, NEW after \in Texts,
           TryRawText(before, after).bucket # "behavioral"
    PROVE  (~before.keys /\ ~after.keys) \/ Alike(before, after)
<1>. DEFINE b == TopLevelSections(before)
            a == TopLevelSections(after)
            det(t) == [i \in DOMAIN t.docs |->
                          IF t.docs[i].kind = "rule"
                          THEN <<t.docs[i].corr, t.docs[i].detection, t.docs[i].order, t.style>>
                          ELSE <<>>]
            src(t) == [i \in DOMAIN t.docs |->
                          IF t.docs[i].kind = "rule" THEN <<t.docs[i].logsource>> ELSE <<>>]
            changed == IF before.keys # after.keys THEN DOMAIN b
                       ELSE {k \in DOMAIN b : b[k] # a[k]}
<1>1. /\ "detection" \in DOMAIN b /\ "logsource" \in DOMAIN b
      /\ b["detection"] = det(before) /\ a["detection"] = det(after)
      /\ b["logsource"] = src(before) /\ a["logsource"] = src(after)
  BY DEF TopLevelSections
<1>. SUFFICES ASSUME before.keys \/ after.keys  PROVE Alike(before, after)
  OBVIOUS
<1>2. changed \cap {"detection", "logsource"} # {} =>
         TryRawText(before, after).bucket = "behavioral"
  BY DEF TryRawText, Classified
<1>. HIDE DEF b, a, det, src
<1>3. changed \cap {"detection", "logsource"} = {}
  BY <1>2
<1>4. before.keys = after.keys
  BY <1>1, <1>3
<1>5. before.keys \in BOOLEAN /\ after.keys \in BOOLEAN
  BY DEF Texts
<1>6. CASE before.keys
  <2>1. det(before) = det(after) /\ src(before) = src(after)
    BY <1>1, <1>3, <1>4, <1>6
  <2>2. DOMAIN before.docs = DOMAIN after.docs
    BY <2>1 DEF det
  <2>3. ASSUME NEW i \in DOMAIN before.docs
        PROVE  /\ before.docs[i].kind = "rule" <=> after.docs[i].kind = "rule"
               /\ before.docs[i].kind = "rule" => SameLogic(before.docs[i], after.docs[i])
    <3>. DEFINE x == before.docs[i]
                y == after.docs[i]
    <3>1. (IF x.kind = "rule" THEN <<x.corr, x.detection, x.order, before.style>> ELSE <<>>)
             = (IF y.kind = "rule" THEN <<y.corr, y.detection, y.order, after.style>> ELSE <<>>)
      <4>1. det(before)[i] = det(after)[i]
        BY <2>1
      <4>. QED  BY <2>2, <4>1 DEF det
    <3>2. (IF x.kind = "rule" THEN <<x.logsource>> ELSE <<>>)
             = (IF y.kind = "rule" THEN <<y.logsource>> ELSE <<>>)
      <4>1. src(before)[i] = src(after)[i]
        BY <2>1
      <4>. QED  BY <2>2, <4>1 DEF src
    <3>. HIDE DEF x, y
    <3>3. x.kind = "rule" <=> y.kind = "rule"
      <4>1. <<x.logsource>> # <<>> /\ <<y.logsource>> # <<>>
        OBVIOUS
      <4>. QED  BY <3>2, <4>1
    <3>4. ASSUME x.kind = "rule"  PROVE SameLogic(x, y)
      <4>1. <<x.corr, x.detection, x.order, before.style>>
               = <<y.corr, y.detection, y.order, after.style>>
        BY <3>1, <3>3, <3>4
      <4>2. <<x.logsource>> = <<y.logsource>>
        BY <3>2, <3>3, <3>4
      <4>. QED  BY <4>1, <4>2 DEF SameLogic
    <3>. QED  BY <3>3, <3>4 DEF x, y
  <2>. QED  BY <2>2, <2>3 DEF Alike, RulePlaces
<1>. QED  BY <1>4, <1>5, <1>6

\* A change of what the rules of a file match is behavioural, unless neither
\* text has a key to compare.
LEMMA ChangeOfMeaning ==
    ASSUME NEW before \in Texts, NEW after \in Texts, ~ChangeRaises(before, after),
           ClassifyChange(before, after).bucket # "behavioral", Meaning(before) # Meaning(after)
    PROVE  ~before.keys /\ ~after.keys
<1>1. before # after
  OBVIOUS
<1>2. before.yaml # "raises" /\ after.yaml # "raises"
  BY <1>1 DEF ChangeRaises, ParseText, Uncaught
<1>3. TryAst(before, after) = NotComparable
  <2>. SUFFICES ASSUME TryAst(before, after) # NotComparable  PROVE FALSE
    OBVIOUS
  <2>. DEFINE b == RulesWritten(before)
              a == RulesWritten(after)
  <2>1. TryAst(before, after).bucket # "behavioral"
    BY <1>1 DEF ClassifyChange
  <2>2. /\ Len(b) = 1 /\ Len(a) = 1
        /\ b[1].corr = a[1].corr /\ b[1].detection.parses /\ a[1].detection.parses
        /\ BuildAst(b[1].detection) = BuildAst(a[1].detection)
        /\ b[1].logsource = a[1].logsource
    BY <1>2, <2>1, AstTells
  <2>3. b \in Seq(Docs) /\ a \in Seq(Docs)
    <3>1. \A text \in Texts : RulesWritten(text) \in Seq(Docs)
      <4>. SUFFICES ASSUME NEW text \in Texts  PROVE RulesWritten(text) \in Seq(Docs)
        OBVIOUS
      <4>. DEFINE ds == text.docs
                  I == RulePlaces(text)
      <4>1. ds \in Seq(Docs) /\ I \in SUBSET DOMAIN ds /\ RulesWritten(text) = Selected(ds, I)
        BY TextType DEF RulePlaces, RulesWritten
      <4>. HIDE DEF ds, I
      <4>. QED  BY <4>1, SelectedIs
    <3>. QED  BY <3>1
  <2>4. DOMAIN b = {1} /\ DOMAIN a = {1}
    <3>. HIDE DEF b, a
    <3>1. DOMAIN b = 1 .. 1 /\ DOMAIN a = 1 .. 1
      BY <2>2, <2>3
    <3>. QED  BY <3>1
  <2>. DEFINE m(r) == <<r.corr, r.detection.parses,
                        IF r.detection.parses THEN BuildAst(r.detection) ELSE r.detection,
                        r.logsource>>
  <2>5. Meaning(before) = [i \in DOMAIN b |-> m(b[i])] /\ Meaning(after) = [i \in DOMAIN a |-> m(a[i])]
    BY DEF Meaning
  <2>6. m(b[1]) = m(a[1])
    <3>1. b[1].detection.parses = a[1].detection.parses
      <4>1. \A r \in Docs : r.detection.parses \in BOOLEAN
        BY DEF Docs, Detections
      <4>2. b[1] \in Docs /\ a[1] \in Docs
        <5>. HIDE DEF b, a
        <5>. QED  BY <2>3, <2>4
      <4>. QED  BY <2>2, <4>1, <4>2
    <3>. HIDE DEF b, a
    <3>. QED  BY <2>2, <3>1
  <2>. HIDE DEF m, b, a
  <2>7. Meaning(before) = Meaning(after)
    BY <2>4, <2>5, <2>6
  <2>. QED  BY <2>7
<1>4. ~(before.yaml = "ok" /\ after.yaml = "ok")
  <2>. SUFFICES ASSUME before.yaml = "ok", after.yaml = "ok"  PROVE FALSE
    OBVIOUS
  <2>1. TryYamlKey(before, after) # NotComparable
    BY KeysTell
  <2>2. TryYamlKey(before, after).bucket # "behavioral"
    BY <1>1, <1>3, <2>1 DEF ClassifyChange
  <2>3. Alike(before, after)
    BY <2>2, KeysTell
  <2>. QED  BY <2>3, AlikeIsSame
<1>5. TryYamlKey(before, after) = NotComparable
  BY <1>4 DEF TryYamlKey
<1>6. TryRawText(before, after).bucket # "behavioral"
  BY <1>1, <1>3, <1>5 DEF ClassifyChange
<1>7. ~Alike(before, after)
  BY AlikeIsSame
<1>. QED  BY <1>6, <1>7, SectionsTell

\* A change that leaves the logic as it is, between texts that can be compared,
\* is not behavioural.
LEMMA ChangeOfWording ==
    ASSUME NEW before \in Texts, NEW after \in Texts, Comparable(before, after),
           Logic(before) = Logic(after)
    PROVE  ClassifyChange(before, after).bucket # "behavioral"
<1>1. /\ before.yaml = "ok" /\ after.yaml = "ok"
      /\ DOMAIN before.docs = DOMAIN after.docs
      /\ RulePlaces(before) = DOMAIN before.docs /\ RulePlaces(after) = DOMAIN after.docs
      /\ \A k \in DOMAIN before.docs : before.docs[k].order = after.docs[k].order
  BY TextType DEF Comparable, RulePlaces
<1>2. Alike(before, after)
  BY <1>1, AlikeIsSame
<1>3. /\ TryYamlKey(before, after) # NotComparable
      /\ TryYamlKey(before, after).bucket # "behavioral"
  BY <1>1, <1>2, KeysTell
<1>4. TryAst(before, after) # NotComparable => TryAst(before, after).bucket # "behavioral"
  <2>. SUFFICES ASSUME TryAst(before, after) # NotComparable
                PROVE  TryAst(before, after).bucket # "behavioral"
    OBVIOUS
  <2>. DEFINE I == DOMAIN before.docs
  <2>1. I \in SUBSET (1 .. Len(before.docs)) /\ Len(before.docs) \in Nat
    BY TextType
  <2>. HIDE DEF I
  <2>2. PICK at : Selects(at, I)
    BY <2>1, Selection
  <2>3. /\ RulesWritten(before) = Selected(before.docs, I)
        /\ RulesWritten(after) = Selected(after.docs, I)
    BY <1>1 DEF RulesWritten, RulePlaces, I
  <2>4. /\ RulesWritten(before) = [p \in 1 .. Cardinality(I) |-> before.docs[at[p]]]
        /\ RulesWritten(after) = [p \in 1 .. Cardinality(I) |-> after.docs[at[p]]]
        /\ \A p \in 1 .. Cardinality(I) : at[p] \in I
        /\ Cardinality(I) \in Nat
    BY <2>2, <2>3 DEF Selects
  <2>5. Len(RulesWritten(before)) = 1
    BY <1>1, AstTells
  <2>6. 1 \in 1 .. Cardinality(I)
    <3>1. Len(RulesWritten(before)) = Cardinality(I)
      <4>. DEFINE ds == before.docs
      <4>1. ds \in Seq(Docs) /\ I \in SUBSET DOMAIN ds
        BY TextType DEF I
      <4>. HIDE DEF ds
      <4>2. Len(Selected(ds, I)) = Cardinality(I)
        BY <4>1, SelectedIs
      <4>. QED  BY <2>3, <4>2 DEF ds
    <3>. QED  BY <2>5, <3>1
  <2>7. /\ RulesWritten(before)[1] = before.docs[at[1]]
        /\ RulesWritten(after)[1] = after.docs[at[1]] /\ at[1] \in I
    BY <2>4, <2>6
  <2>8. /\ SameLogic(RulesWritten(before)[1], RulesWritten(after)[1])
        /\ RulesWritten(before)[1].order = RulesWritten(after)[1].order
    BY <1>1, <1>2, <2>7 DEF Alike, I
  <2>. QED  BY <1>1, <2>8, AstTells
<1>5. before = after => ClassifyChange(before, after).bucket = "cosmetic"
  BY DEF ClassifyChange, Classified
<1>. QED  BY <1>3, <1>4, <1>5 DEF ClassifyChange

-----------------------------------------------------------------------------
\* The revisions of a file the second pass found are those it compared.
LEMMA RevisionsAre ==
    ASSUME IInv, NEW i \in Ranked
    PROVE  LET f == Rows[i]
           IN  /\ \A r \in Revisions(f) : Before(r) \in Texts /\ log[r].text \in Texts
               /\ f \in seen2 => \A r \in Revisions(f) :
                     ~ChangeRaises(Before(r), log[r].text)
               /\ f \in seen2 /\ signals[i].neverRevised => \A r \in Revisions(f) :
                     ClassifyChange(Before(r), log[r].text).bucket # "behavioral"
               /\ \A r \in Behavioral(f) :
                     /\ r \in Revisions(f)
                     /\ ClassifyChange(Before(r), log[r].text).bucket = "behavioral"
               /\ signals[i].neverRevised = (Behavioral(f) = {})
               /\ signals[i].age = AgeDays(f)
<1>. DEFINE f == Rows[i]
<1>1. /\ log \in Seq(Commits) /\ mined \in 0 .. Len(log)
      /\ ~DiffRaises(seen2)
      /\ behavioral = {r \in Diffable(seen2) : BucketOf(r) = "behavioral"}
  BY RankedAre DEF IInv, TypeOK, ReportSoFar, Compared
<1>2. signals[i] = SignalsOf(f, SigmaFragility(read[i]))
  BY RankedAre
<1>3. signals[i].neverRevised = (Behavioral(f) = {}) /\ signals[i].age = AgeDays(f)
  <2>. HIDE DEF f
  <2>. QED  BY <1>2 DEF SignalsOf
<1>4. ASSUME NEW r \in Revisions(f)
      PROVE  Before(r) \in Texts /\ log[r].text \in Texts
  <2>1. /\ r \in 1 .. mined /\ log[r].text # NoText /\ Before(r) # NoText
    BY DEF Revisions, TouchesOf
  <2>2. r \in DOMAIN log /\ r \in 1 .. Len(log) + 1
    BY <1>1, <2>1
  <2>3. log[r] \in Commits
    BY <1>1, <2>2
  <2>4. Before(r) \in Drafted \cup {NoText}
    BY <1>1, <2>2, CommittedType DEF Before
  <2>. QED  BY <2>1, <2>3, <2>4 DEF Commits, Drafted
<1>5. ASSUME f \in seen2, NEW r \in Revisions(f)
      PROVE  r \in Diffable(seen2) /\ log[r].file = f
  BY <1>5 DEF Revisions, TouchesOf, Diffable
<1>6. ASSUME f \in seen2, NEW r \in Revisions(f)
      PROVE  ~ChangeRaises(Before(r), log[r].text)
  BY <1>1, <1>5, <1>6 DEF DiffRaises
<1>7. ASSUME f \in seen2, signals[i].neverRevised, NEW r \in Revisions(f)
      PROVE  ClassifyChange(Before(r), log[r].text).bucket # "behavioral"
  <2>1. r \notin Behavioral(f)
    BY <1>3, <1>7
  <2>2. r \notin behavioral
    BY <1>5, <1>7, <2>1 DEF Behavioral
  <2>. QED  BY <1>1, <1>5, <1>7, <2>2 DEF BucketOf
<1>8. ASSUME NEW r \in Behavioral(f)
      PROVE  /\ r \in Revisions(f)
             /\ ClassifyChange(Before(r), log[r].text).bucket = "behavioral"
  BY <1>1 DEF Behavioral, Diffable, Revisions, TouchesOf, BucketOf
<1>. QED  BY <1>3, <1>4, <1>6, <1>7, <1>8

LEMMA NeverHolds == IInv => NeverRevisedIsTrue
<1>. SUFFICES ASSUME IInv, NEW i \in Ranked, signals[i].neverRevised, Rows[i] \in seen2,
                     NEW r \in Revisions(Rows[i]), MeaningChanged(r)
              PROVE  ~Before(r).keys /\ ~log[r].text.keys
  BY DEF NeverRevisedIsTrue
<1>1. /\ Before(r) \in Texts /\ log[r].text \in Texts
      /\ ~ChangeRaises(Before(r), log[r].text)
      /\ ClassifyChange(Before(r), log[r].text).bucket # "behavioral"
  BY RevisionsAre
<1>2. Meaning(Before(r)) # Meaning(log[r].text)
  BY DEF MeaningChanged
<1>. QED  BY <1>1, <1>2, ChangeOfMeaning

LEMMA CosmeticsHold == IInv => CosmeticsDoNotRefresh
<1>. SUFFICES ASSUME IInv, NEW i \in Ranked,
                     \A r \in Revisions(Rows[i]) : /\ ~LogicChanged(r)
                                                   /\ Comparable(Before(r), log[r].text)
              PROVE  /\ signals[i].neverRevised
                     /\ StalenessBand(signals[i]) =
                           StalenessBand([neverRevised |-> TRUE, days |-> None,
                                          age |-> AgeDays(Rows[i])])
  BY DEF CosmeticsDoNotRefresh
<1>1. Behavioral(Rows[i]) = {}
  <2>. SUFFICES ASSUME NEW r \in Behavioral(Rows[i])  PROVE FALSE
    OBVIOUS
  <2>1. /\ r \in Revisions(Rows[i]) /\ Before(r) \in Texts /\ log[r].text \in Texts
        /\ ClassifyChange(Before(r), log[r].text).bucket = "behavioral"
    BY RevisionsAre
  <2>2. Logic(Before(r)) = Logic(log[r].text) /\ Comparable(Before(r), log[r].text)
    BY <2>1 DEF LogicChanged
  <2>. QED  BY <2>1, <2>2, ChangeOfWording
<1>2. signals[i].neverRevised = TRUE /\ signals[i].age = AgeDays(Rows[i])
  BY <1>1, RevisionsAre
<1>3. DaysUntouched(signals[i]) =
         DaysUntouched([neverRevised |-> TRUE, days |-> None, age |-> AgeDays(Rows[i])])
  BY <1>2 DEF DaysUntouched
<1>. QED  BY <1>2, <1>3 DEF StalenessBand

-----------------------------------------------------------------------------
(***************************************************************************)
(* What holds of every report, for any rule files, registries, nesting,    *)
(* history, order of the user's steps and thresholds.                      *)
(***************************************************************************)
\* Texts, commits and reports have their types: an edit of a rule makes a rule
\* of it again, and each rule in a report has a tier or is unscoreable.
THEOREM TriageTypes == Spec => []TypeOK
<1>1. IInv => TypeOK
  BY DEF IInv
<1>. QED  BY <1>1, ReportIsSound, PTL

\* The tier of a rule in a report is what it costs to evade it
\* (_combine_ast_tier, classify_rule), however deep its detection nests.
THEOREM TiersAreCosts == Spec => []TierIsEvasionCost
BY ReportIsSound, CostsHold, PTL

\* A filter that is excluded leaves a rule its tier (_combine_ast_tier,
\* detect_absence), but for a named program and a cloud audit log.
THEOREM FiltersAreNoise == Spec => []FilterIsNoiseReduction
BY ReportIsSound, NoiseHolds, PTL

\* What triage scores is what mechanic scan counts as loaded and not as failed
\* (_sigma_fragility, ScanResult).
THEOREM ScoredAreLoaded == Spec => []ScoredFilesLoad
BY ReportIsSound, LoadsHold, PTL

\* Every file is in a bucket of the scan, and only a file of several documents
\* in both (parse_text).
THEOREM FilesAreAccountedFor == Spec => []EveryFileAccounted
BY ReportIsSound, AccountedHold, PTL

\* A rule is called never revised only if no organic commit changed what it
\* matches (classify_change), however many commits and documents there are.
THEOREM NeverRevisedIsSo == Spec => []NeverRevisedIsTrue
BY ReportIsSound, NeverHolds, PTL

\* Commits that leave the logic of a rule as it is leave it as stale as it was
\* (classify_change, compute_priority).
THEOREM WordingIsCosmetic == Spec => []CosmeticsDoNotRefresh
BY ReportIsSound, CosmeticsHold, PTL

\* A report that finds rules fails for an impossible date and for nothing else
\* (parse_text, compute_semantic_diff).
THEOREM DatesFail == Spec => []OnlyBadDatesFail
BY ReportIsSound, BadDatesHold, PTL

\* Every rule of a report is listed and counted once, deleted on the way or not
\* (build_triage_report, priority_breakdown).
THEOREM RulesAreCounted == Spec => []AllRulesCounted
BY ReportIsSound, CountsHold, PTL

\* The summary and the labels of a report agree (one_line_summary,
\* compute_priority).
THEOREM LabelsAgree == Spec => []AttentionAgreesWithLabels
BY ReportIsSound, AttentionHolds, PTL

\* Within a tier the rules of a report are sorted as promised
\* (sorted_scoreable).
THEOREM SortedAsPromised == Spec => []LongestStaleFirst
BY ReportIsSound, OrderHolds, PTL
=============================================================================

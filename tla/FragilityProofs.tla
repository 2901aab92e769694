---------------------------- MODULE FragilityProofs ----------------------------
(***************************************************************************)
(* Facts about the tier of a criterion and of a rule, whatever the         *)
(* registries hold and however deep the rule nests.                        *)
(***************************************************************************)
EXTENDS Fragility, Induction

-----------------------------------------------------------------------------
(***************************************************************************)
(* Criteria.                                                               *)
(***************************************************************************)
\* The tiers are ranked from 0 to 3, and TTP is the last.
LEMMA RankOrder ==
    \A t \in Tiers : TierRank[t] \in 0 .. 3 /\ TierRank["TTP"] = 3
<1>1. TierRank["IOC"] = 0 /\ TierRank["Artifact"] = 1
  BY DEF TierRank
<1>2. TierRank["Tool"] = 2 /\ TierRank["TTP"] = 3
  BY DEF TierRank
<1> QED
  BY <1>1, <1>2 DEF Tiers

\* Every criterion has a tier.
LEMMA AtomTier ==
    ASSUME NEW f \in Fields, NEW v \in Values, NEW cloud \in BOOLEAN
    PROVE  ClassifyAtom(f, v, cloud) \in Tiers
BY DEF ClassifyAtom, Tiers

\* A rule for a cloud audit log: that one criterion, anywhere in the rule, makes
\* it one, never lowers the tier of another (is_protected,
\* rule_is_cloud_audit_context).
THEOREM CloudContextOnlyRaises ==
    ASSUME NEW f \in Fields, NEW v \in Values,
           NEW before \in BOOLEAN, NEW after \in BOOLEAN, before => after
    PROVE  TierRank[ClassifyAtom(f, v, before)]
              <= TierRank[ClassifyAtom(f, v, after)]
<1> DEFINE old == ClassifyAtom(f, v, before)
           new == ClassifyAtom(f, v, after)
<1>1. old \in Tiers /\ new \in Tiers
  BY AtomTier
<1>2. new = "TTP" \/ old = new
  <2>1. CASE IsProtected(f, v, after)
    BY <2>1 DEF ClassifyAtom
  <2>2. CASE ~IsProtected(f, v, after)
    <3>1. ~IsProtected(f, v, before)
      BY <2>2 DEF IsProtected
    <3> QED
      BY <2>2, <3>1 DEF ClassifyAtom
  <2> QED
    BY <2>1, <2>2
<1> HIDE DEF old, new
<1>3. TierRank[old] <= TierRank[new]
  BY <1>1, <1>2, RankOrder
<1> QED
  BY <1>3 DEF old, new

\* A word the attacker writes is never taken for the tool it names: a criterion
\* on attacker-authored text that nothing protects costs no more than an
\* artifact to evade, whatever lists and patterns its value is on
\* (is_tool_value, classify_atom).
THEOREM AuthoredTextIsNoTool ==
    ASSUME NEW f \in Fields, NEW v \in Values, NEW cloud \in BOOLEAN,
           FieldRole(f) = "ATTACKER_AUTHORED_TEXT", ~IsProtected(f, v, cloud)
    PROVE  ClassifyAtom(f, v, cloud) \in {"IOC", "Artifact"}
BY DEF ClassifyAtom, IsDataSourceSelector, IsToolValue

-----------------------------------------------------------------------------
(***************************************************************************)
(* The levels of what nests.                                               *)
(***************************************************************************)

\* Items are built level by level.
LEMMA ItemsToLevels ==
    /\ Levels(DetectionItems, MaxNesting, ItemsTo)
    /\ \A d \in 1 .. MaxNesting : ItemsTo[d] = ItemsOver(ItemsTo[d - 1])
<1>. DEFINE made(f, n) == f = [d \in 0 .. n |-> IF d = 0 THEN {} ELSE ItemsOver(f[d - 1])]
            T == {n \in Nat : \E f : made(f, n)}
<1>1. 0 \in T
  <2>1. made([d \in 0 .. 0 |-> {}], 0)
    OBVIOUS
  <2>. QED  BY <2>1
<1>2. ASSUME NEW n \in T  PROVE n + 1 \in T
  <2>1. PICK f : made(f, n)
    OBVIOUS
  <2>. DEFINE g == [d \in 0 .. n + 1 |-> IF d = n + 1 THEN ItemsOver(f[n]) ELSE f[d]]
  <2>2. n \in Nat
    OBVIOUS
  <2>3. ASSUME NEW d \in 0 .. n + 1
        PROVE  g[d] = IF d = 0 THEN {} ELSE ItemsOver(g[d - 1])
    <3>1. CASE d = n + 1
      <4>1. g[d] = ItemsOver(f[n]) /\ d # 0 /\ d - 1 = n /\ n # n + 1 /\ n \in 0 .. n + 1
        BY <2>2, <3>1
      <4>2. g[d - 1] = f[n]
        BY <4>1
      <4>. QED  BY <4>1, <4>2
    <3>2. CASE d # n + 1
      <4>1. d \in 0 .. n /\ g[d] = f[d]
        BY <2>2, <3>2
      <4>2. d = 0 \/ (d - 1 \in 0 .. n + 1 /\ d - 1 # n + 1 /\ g[d - 1] = f[d - 1])
        BY <2>2, <4>1
      <4>3. f[d] = IF d = 0 THEN {} ELSE ItemsOver(f[d - 1])
        BY <2>1, <4>1
      <4>. QED  BY <4>1, <4>2, <4>3
    <3>. QED  BY <3>1, <3>2
  <2>4. DOMAIN g = 0 .. n + 1 /\ g = [d \in 0 .. n + 1 |-> g[d]]
    OBVIOUS
  <2>. HIDE DEF g
  <2>5. made(g, n + 1)
    BY <2>3, <2>4
  <2>. QED  BY <2>2, <2>5
<1>3. T \subseteq Nat
  OBVIOUS
<1>. HIDE DEF T
<1>4. T = Nat
  BY <1>1, <1>2, <1>3, SetInduction
<1>5. MaxNesting \in Nat
  BY RuleAstAssumption DEF MaxHeight
<1>. DEFINE L == CHOOSE f : made(f, MaxNesting)
<1>6. \E f : made(f, MaxNesting)
  BY <1>4, <1>5 DEF T
<1>7. made(L, MaxNesting)
  <2>. HIDE DEF made
  <2>. QED  BY <1>6
<1>8. ItemsTo = L
  BY DEF ItemsTo
<1>. HIDE DEF L
<1>9. ItemsTo = [d \in 0 .. MaxNesting |-> IF d = 0 THEN {} ELSE ItemsOver(ItemsTo[d - 1])]
  BY <1>7, <1>8
<1>10. ItemsTo[0] = {} /\ \A d \in 1 .. MaxNesting : ItemsTo[d] = ItemsOver(ItemsTo[d - 1])
  <2>1. ASSUME NEW d \in 0 .. MaxNesting
        PROVE  ItemsTo[d] = IF d = 0 THEN {} ELSE ItemsOver(ItemsTo[d - 1])
    BY <1>9, Zenon
  <2>2. 0 \in 0 .. MaxNesting
    BY <1>5
  <2>3. \A d \in 1 .. MaxNesting : d \in 0 .. MaxNesting /\ d # 0
    BY <1>5
  <2>. QED  BY <2>1, <2>2, <2>3
<1>11. ItemsTo = [d \in 0 .. MaxNesting |-> ItemsTo[d]]
  BY <1>9
<1>12. ASSUME NEW S, NEW R, S \subseteq R  PROVE ItemsOver(S) \subseteq ItemsOver(R)
  BY <1>12 DEF ItemsOver
<1>. DEFINE U == {n \in Nat : n + 1 \in 1 .. MaxNesting => ItemsTo[n] \subseteq ItemsTo[n + 1]}
<1>13. 0 \in U
  BY <1>10
<1>14. ASSUME NEW n \in U  PROVE n + 1 \in U
  <2>1. CASE n + 1 + 1 \in 1 .. MaxNesting
    <3>1. n + 1 \in 1 .. MaxNesting /\ n + 1 - 1 = n /\ n + 1 + 1 - 1 = n + 1
      BY <1>5, <2>1
    <3>2. ItemsTo[n + 1] = ItemsOver(ItemsTo[n]) /\ ItemsTo[n + 1 + 1] = ItemsOver(ItemsTo[n + 1])
      BY <1>10, <2>1, <3>1
    <3>3. ItemsTo[n] \subseteq ItemsTo[n + 1]
      BY <3>1
    <3>4. ItemsTo[n + 1] \subseteq ItemsTo[n + 1 + 1]
      BY <1>12, <3>2, <3>3
    <3>. QED  BY <3>4
  <2>2. CASE n + 1 + 1 \notin 1 .. MaxNesting
    BY <2>2
  <2>. QED  BY <2>1, <2>2
<1>15. U = Nat
  <2>1. U \subseteq Nat
    OBVIOUS
  <2>. HIDE DEF U
  <2>. QED  BY <1>13, <1>14, <2>1, SetInduction
<1>16. ASSUME NEW d \in 1 .. MaxNesting  PROVE ItemsTo[d - 1] \subseteq ItemsTo[d]
  <2>1. d - 1 \in U /\ d - 1 + 1 = d
    BY <1>15
  <2>. QED  BY <2>1
<1>17. Levels(ItemsTo[MaxNesting], MaxNesting, ItemsTo)
  BY <1>5, <1>10, <1>11, <1>16, LevelsOf
<1>. QED  BY <1>10, <1>17 DEF DetectionItems

\* So are conditions.
LEMMA ConditionsToLevels ==
    /\ Levels(Conditions, MaxNesting, ConditionsTo)
    /\ \A d \in 1 .. MaxNesting : ConditionsTo[d] = ConditionsOver(ConditionsTo[d - 1])
<1>. DEFINE made(f, n) == f = [d \in 0 .. n |-> IF d = 0 THEN {} ELSE ConditionsOver(f[d - 1])]
            T == {n \in Nat : \E f : made(f, n)}
<1>1. 0 \in T
  <2>1. made([d \in 0 .. 0 |-> {}], 0)
    OBVIOUS
  <2>. QED  BY <2>1
<1>2. ASSUME NEW n \in T  PROVE n + 1 \in T
  <2>1. PICK f : made(f, n)
    OBVIOUS
  <2>. DEFINE g == [d \in 0 .. n + 1 |-> IF d = n + 1 THEN ConditionsOver(f[n]) ELSE f[d]]
  <2>2. n \in Nat
    OBVIOUS
  <2>3. ASSUME NEW d \in 0 .. n + 1
        PROVE  g[d] = IF d = 0 THEN {} ELSE ConditionsOver(g[d - 1])
    <3>1. CASE d = n + 1
      <4>1. g[d] = ConditionsOver(f[n]) /\ d # 0 /\ d - 1 = n /\ n # n + 1 /\ n \in 0 .. n + 1
        BY <2>2, <3>1
      <4>2. g[d - 1] = f[n]
        BY <4>1
      <4>. QED  BY <4>1, <4>2
    <3>2. CASE d # n + 1
      <4>1. d \in 0 .. n /\ g[d] = f[d]
        BY <2>2, <3>2
      <4>2. d = 0 \/ (d - 1 \in 0 .. n + 1 /\ d - 1 # n + 1 /\ g[d - 1] = f[d - 1])
        BY <2>2, <4>1
      <4>3. f[d] = IF d = 0 THEN {} ELSE ConditionsOver(f[d - 1])
        BY <2>1, <4>1
      <4>. QED  BY <4>1, <4>2, <4>3
    <3>. QED  BY <3>1, <3>2
  <2>4. DOMAIN g = 0 .. n + 1 /\ g = [d \in 0 .. n + 1 |-> g[d]]
    OBVIOUS
  <2>. HIDE DEF g
  <2>5. made(g, n + 1)
    BY <2>3, <2>4
  <2>. QED  BY <2>2, <2>5
<1>3. T \subseteq Nat
  OBVIOUS
<1>. HIDE DEF T
<1>4. T = Nat
  BY <1>1, <1>2, <1>3, SetInduction
<1>5. MaxNesting \in Nat
  BY RuleAstAssumption DEF MaxHeight
<1>. DEFINE L == CHOOSE f : made(f, MaxNesting)
<1>6. \E f : made(f, MaxNesting)
  BY <1>4, <1>5 DEF T
<1>7. made(L, MaxNesting)
  <2>. HIDE DEF made
  <2>. QED  BY <1>6
<1>8. ConditionsTo = L
  BY DEF ConditionsTo
<1>. HIDE DEF L
<1>9. ConditionsTo = [d \in 0 .. MaxNesting |-> IF d = 0 THEN {} ELSE ConditionsOver(ConditionsTo[d - 1])]
  BY <1>7, <1>8
<1>10. ConditionsTo[0] = {} /\ \A d \in 1 .. MaxNesting : ConditionsTo[d] = ConditionsOver(ConditionsTo[d - 1])
  <2>1. ASSUME NEW d \in 0 .. MaxNesting
        PROVE  ConditionsTo[d] = IF d = 0 THEN {} ELSE ConditionsOver(ConditionsTo[d - 1])
    BY <1>9, Zenon
  <2>2. 0 \in 0 .. MaxNesting
    BY <1>5
  <2>3. \A d \in 1 .. MaxNesting : d \in 0 .. MaxNesting /\ d # 0
    BY <1>5
  <2>. QED  BY <2>1, <2>2, <2>3
<1>11. ConditionsTo = [d \in 0 .. MaxNesting |-> ConditionsTo[d]]
  BY <1>9
<1>12. ASSUME NEW S, NEW R, S \subseteq R  PROVE ConditionsOver(S) \subseteq ConditionsOver(R)
  BY <1>12 DEF ConditionsOver
<1>. DEFINE U == {n \in Nat : n + 1 \in 1 .. MaxNesting => ConditionsTo[n] \subseteq ConditionsTo[n + 1]}
<1>13. 0 \in U
  BY <1>10
<1>14. ASSUME NEW n \in U  PROVE n + 1 \in U
  <2>1. CASE n + 1 + 1 \in 1 .. MaxNesting
    <3>1. n + 1 \in 1 .. MaxNesting /\ n + 1 - 1 = n /\ n + 1 + 1 - 1 = n + 1
      BY <1>5, <2>1
    <3>2. ConditionsTo[n + 1] = ConditionsOver(ConditionsTo[n]) /\ ConditionsTo[n + 1 + 1] = ConditionsOver(ConditionsTo[n + 1])
      BY <1>10, <2>1, <3>1
    <3>3. ConditionsTo[n] \subseteq ConditionsTo[n + 1]
      BY <3>1
    <3>4. ConditionsTo[n + 1] \subseteq ConditionsTo[n + 1 + 1]
      BY <1>12, <3>2, <3>3
    <3>. QED  BY <3>4
  <2>2. CASE n + 1 + 1 \notin 1 .. MaxNesting
    BY <2>2
  <2>. QED  BY <2>1, <2>2
<1>15. U = Nat
  <2>1. U \subseteq Nat
    OBVIOUS
  <2>. HIDE DEF U
  <2>. QED  BY <1>13, <1>14, <2>1, SetInduction
<1>16. ASSUME NEW d \in 1 .. MaxNesting  PROVE ConditionsTo[d - 1] \subseteq ConditionsTo[d]
  <2>1. d - 1 \in U /\ d - 1 + 1 = d
    BY <1>15
  <2>. QED  BY <2>1
<1>17. Levels(ConditionsTo[MaxNesting], MaxNesting, ConditionsTo)
  BY <1>5, <1>10, <1>11, <1>16, LevelsOf
<1>. QED  BY <1>10, <1>17 DEF Conditions

\* And trees.
LEMMA TreesToLevels ==
    /\ Levels(Trees, MaxHeight, TreesTo)
    /\ \A d \in 1 .. MaxHeight : TreesTo[d] = TreesOver(TreesTo[d - 1])
<1>. DEFINE made(f, n) == f = [d \in 0 .. n |-> IF d = 0 THEN {} ELSE TreesOver(f[d - 1])]
            T == {n \in Nat : \E f : made(f, n)}
<1>1. 0 \in T
  <2>1. made([d \in 0 .. 0 |-> {}], 0)
    OBVIOUS
  <2>. QED  BY <2>1
<1>2. ASSUME NEW n \in T  PROVE n + 1 \in T
  <2>1. PICK f : made(f, n)
    OBVIOUS
  <2>. DEFINE g == [d \in 0 .. n + 1 |-> IF d = n + 1 THEN TreesOver(f[n]) ELSE f[d]]
  <2>2. n \in Nat
    OBVIOUS
  <2>3. ASSUME NEW d \in 0 .. n + 1
        PROVE  g[d] = IF d = 0 THEN {} ELSE TreesOver(g[d - 1])
    <3>1. CASE d = n + 1
      <4>1. g[d] = TreesOver(f[n]) /\ d # 0 /\ d - 1 = n /\ n # n + 1 /\ n \in 0 .. n + 1
        BY <2>2, <3>1
      <4>2. g[d - 1] = f[n]
        BY <4>1
      <4>. QED  BY <4>1, <4>2
    <3>2. CASE d # n + 1
      <4>1. d \in 0 .. n /\ g[d] = f[d]
        BY <2>2, <3>2
      <4>2. d = 0 \/ (d - 1 \in 0 .. n + 1 /\ d - 1 # n + 1 /\ g[d - 1] = f[d - 1])
        BY <2>2, <4>1
      <4>3. f[d] = IF d = 0 THEN {} ELSE TreesOver(f[d - 1])
        BY <2>1, <4>1
      <4>. QED  BY <4>1, <4>2, <4>3
    <3>. QED  BY <3>1, <3>2
  <2>4. DOMAIN g = 0 .. n + 1 /\ g = [d \in 0 .. n + 1 |-> g[d]]
    OBVIOUS
  <2>. HIDE DEF g
  <2>5. made(g, n + 1)
    BY <2>3, <2>4
  <2>. QED  BY <2>2, <2>5
<1>3. T \subseteq Nat
  OBVIOUS
<1>. HIDE DEF T
<1>4. T = Nat
  BY <1>1, <1>2, <1>3, SetInduction
<1>5. MaxHeight \in Nat
  <2>1. MaxNesting \in Nat
    BY RuleAstAssumption
  <2>. QED  BY <2>1 DEF MaxHeight
<1>. DEFINE L == CHOOSE f : made(f, MaxHeight)
<1>6. \E f : made(f, MaxHeight)
  BY <1>4, <1>5 DEF T
<1>7. made(L, MaxHeight)
  <2>. HIDE DEF made
  <2>. QED  BY <1>6
<1>8. TreesTo = L
  BY DEF TreesTo
<1>. HIDE DEF L
<1>9. TreesTo = [d \in 0 .. MaxHeight |-> IF d = 0 THEN {} ELSE TreesOver(TreesTo[d - 1])]
  BY <1>7, <1>8
<1>10. TreesTo[0] = {} /\ \A d \in 1 .. MaxHeight : TreesTo[d] = TreesOver(TreesTo[d - 1])
  <2>1. ASSUME NEW d \in 0 .. MaxHeight
        PROVE  TreesTo[d] = IF d = 0 THEN {} ELSE TreesOver(TreesTo[d - 1])
    BY <1>9, Zenon
  <2>2. 0 \in 0 .. MaxHeight
    BY <1>5
  <2>3. \A d \in 1 .. MaxHeight : d \in 0 .. MaxHeight /\ d # 0
    BY <1>5
  <2>. QED  BY <2>1, <2>2, <2>3
<1>11. TreesTo = [d \in 0 .. MaxHeight |-> TreesTo[d]]
  BY <1>9
<1>12. ASSUME NEW S, NEW R, S \subseteq R  PROVE TreesOver(S) \subseteq TreesOver(R)
  <2>1. [1 .. 1 -> S] \subseteq [1 .. 1 -> R] /\ Seq(S) \subseteq Seq(R)
    BY <1>12
  <2>. QED  BY <2>1 DEF TreesOver
<1>. DEFINE U == {n \in Nat : n + 1 \in 1 .. MaxHeight => TreesTo[n] \subseteq TreesTo[n + 1]}
<1>13. 0 \in U
  BY <1>10
<1>14. ASSUME NEW n \in U  PROVE n + 1 \in U
  <2>1. CASE n + 1 + 1 \in 1 .. MaxHeight
    <3>1. n + 1 \in 1 .. MaxHeight /\ n + 1 - 1 = n /\ n + 1 + 1 - 1 = n + 1
      BY <1>5, <2>1
    <3>2. TreesTo[n + 1] = TreesOver(TreesTo[n]) /\ TreesTo[n + 1 + 1] = TreesOver(TreesTo[n + 1])
      BY <1>10, <2>1, <3>1
    <3>3. TreesTo[n] \subseteq TreesTo[n + 1]
      BY <3>1
    <3>4. TreesTo[n + 1] \subseteq TreesTo[n + 1 + 1]
      BY <1>12, <3>2, <3>3
    <3>. QED  BY <3>4
  <2>2. CASE n + 1 + 1 \notin 1 .. MaxHeight
    BY <2>2
  <2>. QED  BY <2>1, <2>2
<1>15. U = Nat
  <2>1. U \subseteq Nat
    OBVIOUS
  <2>. HIDE DEF U
  <2>. QED  BY <1>13, <1>14, <2>1, SetInduction
<1>16. ASSUME NEW d \in 1 .. MaxHeight  PROVE TreesTo[d - 1] \subseteq TreesTo[d]
  <2>1. d - 1 \in U /\ d - 1 + 1 = d
    BY <1>15
  <2>. QED  BY <2>1
<1>17. Levels(TreesTo[MaxHeight], MaxHeight, TreesTo)
  BY <1>5, <1>10, <1>11, <1>16, LevelsOf
<1>. QED  BY <1>10, <1>17 DEF Trees

-----------------------------------------------------------------------------
(***************************************************************************)
(* Trees and their nodes.                                                  *)
(***************************************************************************)
\* What a tree is.
LEMMA TreeType ==
    ASSUME NEW S, NEW n \in TreesOver(S)
    PROVE  /\ n.node \in {"leaf", "and", "or", "any", "all", "not", "selection"}
           /\ n.negated \in BOOLEAN
           /\ n.node = "leaf" => /\ n.field \in Fields /\ n.value \in Values
                                 /\ n.null \in BOOLEAN /\ n.ref \in BOOLEAN
           /\ n.node \in {"and", "or", "any", "all"} => n.children \in Seq(S)
           /\ n.node \in {"not", "selection"} => n.children \in [1 .. 1 -> S]
           /\ n.node = "selection" => /\ n.name \in SelectionNames
                                      /\ n.kind \in {"filter", "selection"}
BY DEF TreesOver

LEMMA Heights ==
    /\ MaxHeight \in Nat /\ MaxNesting \in Nat /\ MaxNesting >= 1
    /\ Trees = TreesTo[MaxHeight] /\ TreesTo[0] = {}
    /\ \A d \in 1 .. MaxHeight : TreesTo[d] = TreesOver(TreesTo[d - 1])
    /\ \A d \in 0 .. MaxHeight : TreesTo[d] \subseteq Trees
<1>1. MaxNesting \in Nat /\ MaxNesting >= 1
  <2>1. MaxNesting \in Nat /\ MaxNesting # 0
    BY RuleAstAssumption
  <2>. QED  BY <2>1
<1>. QED  BY <1>1, TreesToLevels DEF MaxHeight, Trees, Levels

\* The children of a tree of some height, and of any tree.
LEMMA Children ==
    ASSUME NEW d \in 1 .. MaxHeight, NEW n \in TreesTo[d], n.node # "leaf"
    PROVE  \A i \in DOMAIN n.children : /\ n.children[i] \in TreesTo[d - 1]
                                        /\ n.children[i] \in Trees
<1>1. n \in TreesOver(TreesTo[d - 1])
  BY Heights
<1>2. \A i \in DOMAIN n.children : n.children[i] \in TreesTo[d - 1]
  BY <1>1, TreeType
<1>3. d - 1 \in 0 .. MaxHeight
  BY Heights
<1>. QED  BY <1>2, <1>3, Heights

LEMMA ATree ==
    ASSUME NEW n \in Trees
    PROVE  /\ MaxHeight \in 1 .. MaxHeight /\ n \in TreesTo[MaxHeight]
           /\ n \in TreesOver(TreesTo[MaxHeight - 1])
           /\ n.node # "leaf" => \A i \in DOMAIN n.children : n.children[i] \in Trees
<1>1. MaxHeight \in 1 .. MaxHeight
  BY Heights DEF MaxHeight
<1>. QED  BY <1>1, Heights, Children

\* What holds of a tree as soon as it holds of its children holds of all.
LEMMA TreeInduction ==
    ASSUME NEW P,
           \A n \in Trees : (n.node # "leaf" =>
                               \A i \in DOMAIN n.children : n.children[i] \in P)
                           => n \in P
    PROVE  Trees \subseteq P
<1>1. ASSUME NEW d \in 1 .. MaxHeight, TreesTo[d - 1] \subseteq P, NEW n \in TreesTo[d]
      PROVE  n \in P
  <2>1. n \in Trees
    BY Heights
  <2>2. n.node # "leaf" => \A i \in DOMAIN n.children : n.children[i] \in P
    BY <1>1, Children
  <2>. QED  BY <2>1, <2>2
<1>2. \A d \in 1 .. MaxHeight : TreesTo[d - 1] \subseteq P => TreesTo[d] \subseteq P
  BY <1>1
<1>. QED  BY <1>2, TreesToLevels, Heights, LevelInduction

\* A function of trees that is given by its values for the children exists.
SameBelow(m, g, h) ==
    m.node # "leaf" =>
       \A i \in DOMAIN m.children : g[m.children[i]] = h[m.children[i]]
FromChildren(W, F) ==
    /\ W # {}
    /\ \A m \in Trees : \A g, h \in [Trees -> W] :
          SameBelow(m, g, h) => F[<<m, g>>] = F[<<m, h>>]
    /\ \A m \in Trees : \A g \in [Trees -> W] : F[<<m, g>>] \in W
TreeFunction(f, W, F) == f \in [Trees -> W] /\ \A m \in Trees : f[m] = F[<<m, f>>]

LEMMA TreeRecursion ==
    ASSUME NEW W, NEW F, FromChildren(W, F)
    PROVE  \E f : TreeFunction(f, W, F)
<1>. DEFINE V == [d \in 0 .. MaxHeight |-> W]
<1>1. MaxHeight \in Nat /\ Levels(Trees, MaxHeight, TreesTo)
  BY Heights, TreesToLevels
<1>2. ASSUME NEW d \in 1 .. MaxHeight, NEW m \in TreesTo[d],
             NEW g \in [Trees -> W], NEW h \in [Trees -> W],
             \A y \in TreesTo[d - 1] : g[y] = h[y]
      PROVE  F[<<m, g>>] = F[<<m, h>>]
  <2>1. m \in Trees /\ SameBelow(m, g, h)
    BY <1>2, Heights, Children DEF SameBelow
  <2>. QED  BY <2>1 DEF FromChildren
<1>3. ASSUME NEW d \in 1 .. MaxHeight, NEW m \in TreesTo[d], NEW g \in [Trees -> W]
      PROVE  F[<<m, g>>] \in V[d]
  <2>1. m \in Trees /\ V[d] = W
    BY <1>1, Heights
  <2>. QED  BY <2>1 DEF FromChildren
<1>4. V \in [0 .. MaxHeight -> SUBSET W]
  OBVIOUS
<1>. HIDE DEF V
<1>5. Recursion(Trees, W, MaxHeight, TreesTo, V, F)
  BY <1>1, <1>2, <1>3, <1>4 DEF Recursion, FromChildren
<1>6. PICK f : Solution(f, Trees, W, MaxHeight, TreesTo, V, F)
  BY <1>5, LevelRecursion
<1>7. f \in [Trees -> W] /\ f = [m \in Trees |-> F[<<m, f>>]]
  BY <1>6 DEF Solution
<1>8. TreeFunction(f, W, F)
  BY <1>7 DEF TreeFunction
<1>. WITNESS f
<1>. QED  BY <1>8

\* Nodes follows its equation.
LEMMA NodesAre ==
    ASSUME NEW n \in Trees
    PROVE  /\ Nodes(n) \subseteq Trees
           /\ Nodes(n) = {n} \cup (IF n.node = "leaf" THEN {} ELSE
                UNION {Nodes(n.children[i]) : i \in DOMAIN n.children})
<1>. DEFINE W == SUBSET Trees
            of(m, g) == {m} \cup (IF m.node = "leaf" THEN {} ELSE
                          UNION {g[m.children[i]] : i \in DOMAIN m.children})
            F == [p \in Trees \X [Trees -> W] |-> of(p[1], p[2])]
            nodes == CHOOSE g : g = [m \in Trees |-> of(m, g)]
<1>1. \A m \in Trees : \A g \in [Trees -> W] : F[<<m, g>>] = of(m, g)
  OBVIOUS
<1>2. ASSUME NEW m \in Trees, NEW g \in [Trees -> W]  PROVE of(m, g) \in W
  BY ATree
<1>3. ASSUME NEW m \in Trees, NEW g, NEW h, SameBelow(m, g, h)
      PROVE  of(m, g) = of(m, h)
  BY <1>3 DEF SameBelow
<1>4. W # {}
  OBVIOUS
<1>. HIDE DEF F, of, W
<1>5. FromChildren(W, F)
  BY <1>1, <1>2, <1>3, <1>4 DEF FromChildren
<1>6. PICK f : TreeFunction(f, W, F)
  BY <1>5, TreeRecursion
<1>7. f \in [Trees -> W] /\ f = [m \in Trees |-> of(m, f)]
  BY <1>1, <1>6 DEF TreeFunction
<1>8. nodes = [m \in Trees |-> of(m, nodes)]
  <2>. DEFINE is(g) == g = [m \in Trees |-> of(m, g)]
  <2>1. is(f)
    BY <1>7
  <2>2. nodes = CHOOSE g : is(g)
    OBVIOUS
  <2>. HIDE DEF is, nodes
  <2>3. is(nodes)
    BY <2>1, <2>2
  <2>. QED  BY <2>3 DEF is
<1>. HIDE DEF nodes
<1>9. ASSUME NEW m \in Trees  PROVE nodes[m] = of(m, nodes) /\ f[m] = of(m, f)
  BY <1>7, <1>8, Zenon
<1>10. \A m \in Trees : nodes[m] = f[m]
  <2>. DEFINE P == {m \in Trees : nodes[m] = f[m]}
  <2>1. ASSUME NEW m \in Trees,
               m.node # "leaf" => \A i \in DOMAIN m.children : m.children[i] \in P
        PROVE  m \in P
    <3>1. SameBelow(m, nodes, f)
      BY <2>1 DEF SameBelow
    <3>. QED  BY <1>3, <1>9, <3>1
  <2>. HIDE DEF P
  <2>2. Trees \subseteq P
    BY <2>1, TreeInduction
  <2>. QED  BY <2>2 DEF P
<1>11. \A m \in Trees : Nodes(m) = nodes[m]
  BY DEF Nodes, nodes, of
<1>12. Nodes(n) = of(n, nodes) /\ nodes[n] \in W
  BY <1>7, <1>9, <1>10, <1>11
<1>13. of(n, nodes) = {n} \cup (IF n.node = "leaf" THEN {} ELSE
                UNION {Nodes(n.children[i]) : i \in DOMAIN n.children})
  <2>1. CASE n.node = "leaf"
    BY <2>1 DEF of
  <2>2. CASE n.node # "leaf"
    <3>1. \A i \in DOMAIN n.children : nodes[n.children[i]] = Nodes(n.children[i])
      BY <1>11, <2>2, ATree
    <3>. QED  BY <2>2, <3>1 DEF of
  <2>. QED  BY <2>1, <2>2
<1>. QED  BY <1>11, <1>12, <1>13 DEF W

-----------------------------------------------------------------------------
(***************************************************************************)
(* The tier of a tree.                                                     *)
(***************************************************************************)
Ranks == -1 .. 3

LEMMA RankBounds ==
    ASSUME NEW S \in SUBSET Ranks, S # {}
    PROVE  /\ Max(S) \in S /\ \A r \in S : r <= Max(S)
           /\ Min(S) \in S /\ \A r \in S : r >= Min(S)
<1>1. Ranks = {-1, 0, 1, 2, 3}
  BY DEF Ranks
<1>2. \E x \in S : \A y \in S : x >= y
  <2>1. CASE 3 \in S
    BY <1>1, <2>1
  <2>2. CASE 3 \notin S /\ 2 \in S
    BY <1>1, <2>2
  <2>3. CASE 3 \notin S /\ 2 \notin S /\ 1 \in S
    BY <1>1, <2>3
  <2>4. CASE 3 \notin S /\ 2 \notin S /\ 1 \notin S /\ 0 \in S
    BY <1>1, <2>4
  <2>5. CASE S = {-1}
    BY <2>5
  <2>. QED  BY <1>1, <2>1, <2>2, <2>3, <2>4, <2>5
<1>3. \E x \in S : \A y \in S : x <= y
  <2>1. CASE -1 \in S
    BY <1>1, <2>1
  <2>2. CASE -1 \notin S /\ 0 \in S
    BY <1>1, <2>2
  <2>3. CASE -1 \notin S /\ 0 \notin S /\ 1 \in S
    BY <1>1, <2>3
  <2>4. CASE -1 \notin S /\ 0 \notin S /\ 1 \notin S /\ 2 \in S
    BY <1>1, <2>4
  <2>5. CASE S = {3}
    BY <2>5
  <2>. QED  BY <1>1, <2>1, <2>2, <2>3, <2>4, <2>5
<1>4. Max(S) \in S /\ \A y \in S : Max(S) >= y
  BY <1>2 DEF Max
<1>5. Min(S) \in S /\ \A y \in S : Min(S) <= y
  BY <1>3 DEF Min
<1>6. \A y \in S : y \in Int
  BY DEF Ranks
<1>. QED  BY <1>4, <1>5, <1>6

\* A leaf has a rank.
LEMMA LeafRank ==
    ASSUME NEW n \in Trees, n.node = "leaf", NEW cloud \in BOOLEAN, NEW sole \in BOOLEAN
    PROVE  /\ RankOf(n, cloud) \in 0 .. 3
           /\ RankOfCriterion(n, cloud, sole) \in Ranks
<1>1. n.field \in Fields /\ n.value \in Values
  BY ATree, TreeType
<1>2. RankOf(n, cloud) \in 0 .. 3
  BY <1>1, AtomTier, RankOrder DEF RankOf
<1>. QED  BY <1>2 DEF RankOfCriterion, Ranks, Nothing

\* CombineAstTier follows its equation.
LEMMA CombineAre ==
    ASSUME NEW n \in Trees, NEW cloud \in BOOLEAN, NEW sole \in BOOLEAN
    PROVE  LET rank(m) == CombineAstTier(m, cloud, sole)
               ranks == {rank(n.children[i]) : i \in DOMAIN n.children} \ {Nothing}
           IN  /\ rank(n) \in Ranks
               /\ n.node = "leaf" => rank(n) = RankOfCriterion(n, cloud, sole)
               /\ n.node = "not" \/ (n.node = "selection" /\ n.kind = "filter")
                     => rank(n) = Nothing
               /\ n.node \notin {"leaf", "not"}
                  /\ ~(n.node = "selection" /\ n.kind = "filter") =>
                     rank(n) = IF ranks = {} THEN Nothing
                               ELSE IF n.node \in {"or", "any"} THEN Max(ranks)
                               ELSE Min(ranks)
<1>. DEFINE of(m, g) ==
              LET ranks == {g[m.children[i]] : i \in DOMAIN m.children} \ {Nothing}
              IN  CASE m.node = "leaf" -> RankOfCriterion(m, cloud, sole)
                    [] m.node = "not" -> Nothing
                    [] m.node = "selection" /\ m.kind = "filter" -> Nothing
                    [] OTHER -> IF ranks = {} THEN Nothing
                                ELSE IF m.node \in {"or", "any"} THEN Max(ranks)
                                ELSE Min(ranks)
            F == [p \in Trees \X [Trees -> Ranks] |-> of(p[1], p[2])]
            combine == CHOOSE g : g = [m \in Trees |-> of(m, g)]
<1>1. \A m \in Trees : \A g \in [Trees -> Ranks] : F[<<m, g>>] = of(m, g)
  OBVIOUS
<1>2. ASSUME NEW m \in Trees, NEW g \in [Trees -> Ranks]  PROVE of(m, g) \in Ranks
  <2>. DEFINE ranks == {g[m.children[i]] : i \in DOMAIN m.children} \ {Nothing}
  <2>1. Nothing \in Ranks
    BY DEF Nothing, Ranks
  <2>2. CASE m.node = "leaf"
    BY <2>2, LeafRank
  <2>3. CASE m.node # "leaf"
    <3>1. ranks \in SUBSET Ranks
      BY <2>3, ATree
    <3>. HIDE DEF ranks
    <3>2. ranks # {} => Max(ranks) \in Ranks /\ Min(ranks) \in Ranks
      BY <3>1, RankBounds
    <3>. QED  BY <2>1, <2>3, <3>2 DEF ranks
  <2>. QED  BY <2>2, <2>3
<1>3. ASSUME NEW m \in Trees, NEW g, NEW h, SameBelow(m, g, h)
      PROVE  of(m, g) = of(m, h)
  <2>1. CASE m.node = "leaf"
    BY <2>1
  <2>2. CASE m.node # "leaf"
    <3>1. {g[m.children[i]] : i \in DOMAIN m.children}
             = {h[m.children[i]] : i \in DOMAIN m.children}
      BY <1>3, <2>2 DEF SameBelow
    <3>. QED  BY <2>2, <3>1
  <2>. QED  BY <2>1, <2>2
<1>4. Ranks # {}
  BY DEF Ranks
<1>. HIDE DEF F, of
<1>5. FromChildren(Ranks, F)
  BY <1>1, <1>2, <1>3, <1>4 DEF FromChildren
<1>6. PICK f : TreeFunction(f, Ranks, F)
  BY <1>5, TreeRecursion
<1>7. f \in [Trees -> Ranks] /\ f = [m \in Trees |-> of(m, f)]
  BY <1>1, <1>6 DEF TreeFunction
<1>8. combine = [m \in Trees |-> of(m, combine)]
  <2>. DEFINE is(g) == g = [m \in Trees |-> of(m, g)]
  <2>1. is(f)
    BY <1>7
  <2>2. combine = CHOOSE g : is(g)
    OBVIOUS
  <2>. HIDE DEF is, combine
  <2>3. is(combine)
    BY <2>1, <2>2
  <2>. QED  BY <2>3 DEF is
<1>. HIDE DEF combine
<1>9. ASSUME NEW m \in Trees  PROVE combine[m] = of(m, combine) /\ f[m] = of(m, f)
  BY <1>7, <1>8, Zenon
<1>10. \A m \in Trees : combine[m] = f[m]
  <2>. DEFINE P == {m \in Trees : combine[m] = f[m]}
  <2>1. ASSUME NEW m \in Trees,
               m.node # "leaf" => \A i \in DOMAIN m.children : m.children[i] \in P
        PROVE  m \in P
    <3>1. SameBelow(m, combine, f)
      BY <2>1 DEF SameBelow
    <3>. QED  BY <1>3, <1>9, <3>1
  <2>. HIDE DEF P
  <2>2. Trees \subseteq P
    BY <2>1, TreeInduction
  <2>. QED  BY <2>2 DEF P
<1>11. \A m : CombineAstTier(m, cloud, sole) = combine[m]
  BY DEF CombineAstTier, combine, of
<1>12. combine[n] = of(n, combine) /\ combine[n] \in Ranks
  BY <1>7, <1>9, <1>10
<1>13. {CombineAstTier(n.children[i], cloud, sole) : i \in DOMAIN n.children}
          = {combine[n.children[i]] : i \in DOMAIN n.children}
  BY <1>11
<1>. QED  BY <1>11, <1>12, <1>13 DEF of

\* StillFires follows its equation.
LEMMA FiresAre ==
    ASSUME NEW n \in Trees, NEW reach \in Ranks, NEW cloud \in BOOLEAN,
           NEW sole \in BOOLEAN
    PROVE  LET fires(m) == StillFires(m, reach, cloud, sole)
           IN  /\ fires(n) \in BOOLEAN
               /\ n.node = "leaf" =>
                     (fires(n) <=> /\ ~n.negated
                                   /\ \/ IsDataSourceSelector(n.field) /\ ~sole
                                      \/ RankOf(n, cloud) > reach)
               /\ n.node = "not" => (fires(n) <=> ~fires(n.children[1]))
               /\ n.node \in {"selection", "and", "all"} =>
                     (fires(n) <=> \A i \in DOMAIN n.children : fires(n.children[i]))
               /\ n.node \in {"or", "any"} =>
                     (fires(n) <=> \E i \in DOMAIN n.children : fires(n.children[i]))
<1>. DEFINE of(m, g) ==
              \/ /\ m.node = "leaf" /\ ~m.negated
                 /\ \/ IsDataSourceSelector(m.field) /\ ~sole
                    \/ RankOf(m, cloud) > reach
              \/ m.node = "not" /\ ~g[m.children[1]]
              \/ /\ m.node \in {"selection", "and", "all"}
                 /\ \A i \in DOMAIN m.children : g[m.children[i]]
              \/ /\ m.node \in {"or", "any"}
                 /\ \E i \in DOMAIN m.children : g[m.children[i]]
            F == [p \in Trees \X [Trees -> BOOLEAN] |-> of(p[1], p[2])]
            burn == CHOOSE g : g = [m \in Trees |-> of(m, g)]
<1>1. \A m \in Trees : \A g \in [Trees -> BOOLEAN] : F[<<m, g>>] = of(m, g)
  <2>. HIDE DEF of
  <2>. QED  OBVIOUS
<1>0. ASSUME NEW m \in Trees, m.node # "leaf"
      PROVE  /\ m.node \in {"and", "or", "any", "all", "not", "selection"}
             /\ m.node \in {"not", "selection"} => 1 \in DOMAIN m.children
  BY <1>0, ATree, TreeType
<1>2. ASSUME NEW m \in Trees, NEW g \in [Trees -> BOOLEAN]  PROVE of(m, g) \in BOOLEAN
  <2>1. CASE m.node = "leaf"
    BY <2>1
  <2>2. CASE m.node = "not"
    BY <2>2
  <2>3. CASE m.node = "selection"
    BY <1>0, <2>3, ATree
  <2>4. CASE m.node \in {"and", "all"}
    BY <2>4
  <2>5. CASE m.node \in {"or", "any"}
    BY <2>5
  <2>. QED  BY <1>0, <2>1, <2>2, <2>3, <2>4, <2>5
<1>3. ASSUME NEW m \in Trees, NEW g, NEW h, SameBelow(m, g, h)
      PROVE  of(m, g) = of(m, h)
  <2>1. CASE m.node = "leaf"
    BY <2>1
  <2>2. CASE m.node # "leaf"
    <3>1. \A i \in DOMAIN m.children : g[m.children[i]] = h[m.children[i]]
      BY <1>3, <2>2 DEF SameBelow
    <3>2. CASE m.node \in {"not", "selection"}
      BY <1>0, <2>2, <3>1, <3>2
    <3>3. CASE m.node \in {"and", "all"}
      BY <3>1, <3>3
    <3>4. CASE m.node \in {"or", "any"}
      BY <3>1, <3>4
    <3>. QED  BY <1>0, <2>2, <3>2, <3>3, <3>4
  <2>. QED  BY <2>1, <2>2
<1>. HIDE DEF F, of
<1>5. FromChildren(BOOLEAN, F)
  BY <1>1, <1>2, <1>3 DEF FromChildren
<1>6. PICK f : TreeFunction(f, BOOLEAN, F)
  BY <1>5, TreeRecursion
<1>7. f \in [Trees -> BOOLEAN] /\ f = [m \in Trees |-> of(m, f)]
  BY <1>1, <1>6 DEF TreeFunction
<1>8. burn = [m \in Trees |-> of(m, burn)]
  <2>. DEFINE is(g) == g = [m \in Trees |-> of(m, g)]
  <2>1. is(f)
    BY <1>7
  <2>2. burn = CHOOSE g : is(g)
    OBVIOUS
  <2>. HIDE DEF is, burn
  <2>3. is(burn)
    BY <2>1, <2>2
  <2>. QED  BY <2>3 DEF is
<1>. HIDE DEF burn
<1>9. ASSUME NEW m \in Trees  PROVE burn[m] = of(m, burn) /\ f[m] = of(m, f)
  BY <1>7, <1>8, Zenon
<1>10. \A m \in Trees : burn[m] = f[m]
  <2>. DEFINE P == {m \in Trees : burn[m] = f[m]}
  <2>1. ASSUME NEW m \in Trees,
               m.node # "leaf" => \A i \in DOMAIN m.children : m.children[i] \in P
        PROVE  m \in P
    <3>1. SameBelow(m, burn, f)
      BY <2>1 DEF SameBelow
    <3>. QED  BY <1>3, <1>9, <3>1
  <2>. HIDE DEF P
  <2>2. Trees \subseteq P
    BY <2>1, TreeInduction
  <2>. QED  BY <2>2 DEF P
<1>11. \A m : StillFires(m, reach, cloud, sole) = burn[m]
  BY DEF StillFires, burn, of
<1>12. burn[n] = of(n, burn) /\ burn[n] \in BOOLEAN
  BY <1>7, <1>9, <1>10
<1>13. LET fires(m) == burn[m]
       IN  /\ fires(n) \in BOOLEAN
           /\ n.node = "leaf" =>
                 (fires(n) <=> /\ ~n.negated
                               /\ \/ IsDataSourceSelector(n.field) /\ ~sole
                                  \/ RankOf(n, cloud) > reach)
           /\ n.node = "not" => (fires(n) <=> ~fires(n.children[1]))
           /\ n.node \in {"selection", "and", "all"} =>
                 (fires(n) <=> \A i \in DOMAIN n.children : fires(n.children[i]))
           /\ n.node \in {"or", "any"} =>
                 (fires(n) <=> \E i \in DOMAIN n.children : fires(n.children[i]))
  <2>1. CASE n.node = "leaf"
    BY <1>12, <2>1 DEF of
  <2>2. CASE n.node = "not"
    BY <1>12, <2>2 DEF of
  <2>4. CASE n.node \in {"selection", "and", "all"}
    BY <1>12, <2>4 DEF of
  <2>5. CASE n.node \in {"or", "any"}
    BY <1>12, <2>5 DEF of
  <2>. QED  BY <1>0, <1>12, <2>1, <2>2, <2>4, <2>5
<1>. QED  BY <1>11, <1>13

-----------------------------------------------------------------------------
(***************************************************************************)
(* The syntax tree of a rule.                                              *)
(***************************************************************************)
LEMMA ItemType ==
    ASSUME NEW S, NEW it \in ItemsOver(S)
    PROVE  /\ it.item \in {"values", "list"}
           /\ it.item = "values" => /\ it.field \in Fields /\ it.values \in Seq(Values)
                                    /\ it.all \in BOOLEAN /\ it.ref \in BOOLEAN
           /\ it.item = "list" => it.link \in {"and", "or"} /\ it.of \in Seq(S)
BY DEF ItemsOver

LEMMA ItemLevels ==
    /\ DetectionItems = ItemsTo[MaxNesting] /\ ItemsTo[0] = {}
    /\ \A d \in 1 .. MaxNesting : ItemsTo[d] = ItemsOver(ItemsTo[d - 1])
    /\ \A d \in 0 .. MaxNesting : ItemsTo[d] \subseteq DetectionItems
BY Heights, ItemsToLevels DEF DetectionItems, Levels

\* The parts of an item of some level, and of any item.
LEMMA ItemParts ==
    ASSUME NEW d \in 1 .. MaxNesting, NEW it \in ItemsTo[d], it.item # "values"
    PROVE  /\ it.link \in {"and", "or"} /\ it.of \in Seq(ItemsTo[d - 1])
           /\ it.of \in Seq(DetectionItems)
           /\ \A i \in DOMAIN it.of : /\ it.of[i] \in ItemsTo[d - 1]
                                      /\ it.of[i] \in DetectionItems
<1>1. it.link \in {"and", "or"} /\ it.of \in Seq(ItemsTo[d - 1])
  BY ItemLevels, ItemType
<1>2. d - 1 \in 0 .. MaxNesting
  BY Heights
<1>. QED  BY <1>1, <1>2, ItemLevels

LEMMA AnItem ==
    ASSUME NEW it \in DetectionItems
    PROVE  /\ MaxNesting \in 1 .. MaxNesting /\ it \in ItemsTo[MaxNesting]
           /\ it \in ItemsOver(ItemsTo[MaxNesting - 1])
           /\ it.item # "values" => /\ it.link \in {"and", "or"}
                                    /\ it.of \in Seq(DetectionItems)
<1>1. MaxNesting \in 1 .. MaxNesting
  BY Heights
<1>. QED  BY <1>1, ItemLevels, ItemParts

LEMMA ItemInduction ==
    ASSUME NEW P,
           \A it \in DetectionItems :
              (it.item # "values" => \A i \in DOMAIN it.of : it.of[i] \in P) => it \in P
    PROVE  DetectionItems \subseteq P
<1>1. ASSUME NEW d \in 1 .. MaxNesting, ItemsTo[d - 1] \subseteq P, NEW it \in ItemsTo[d]
      PROVE  it \in P
  <2>1. it \in DetectionItems
    BY Heights, ItemLevels
  <2>2. it.item # "values" => \A i \in DOMAIN it.of : it.of[i] \in P
    BY <1>1, ItemParts
  <2>. QED  BY <2>1, <2>2
<1>2. \A d \in 1 .. MaxNesting : ItemsTo[d - 1] \subseteq P => ItemsTo[d] \subseteq P
  BY <1>1
<1>. QED  BY <1>2, ItemsToLevels, Heights, LevelInduction

\* Trees rise.
LEMMA Rise ==
    ASSUME NEW d \in 0 .. MaxHeight, NEW e \in d .. MaxHeight
    PROVE  TreesTo[d] \subseteq TreesTo[e]
<1>1. \A k \in 1 .. MaxHeight : TreesTo[k - 1] \subseteq TreesTo[k]
  BY TreesToLevels DEF Levels
<1>. QED  BY <1>1, Heights, LevelsRise

\* A leaf, and a group of trees of some height.
LEMMA Grown ==
    ASSUME NEW d \in 0 .. MaxHeight - 1
    PROVE  /\ \A f \in Fields, v \in Values, ref \in BOOLEAN, neg \in BOOLEAN :
                Leaf(f, v, ref, neg) \in TreesTo[d + 1]
           /\ \A f \in Fields, neg \in BOOLEAN : NullLeaf(f, neg) \in TreesTo[d + 1]
           /\ \A op \in {"and", "or", "any", "all"}, neg \in BOOLEAN, s \in Seq(TreesTo[d]) :
                Group(op, neg, s) \in TreesTo[d + 1]
<1>1. d + 1 \in 1 .. MaxHeight /\ d + 1 - 1 = d
  BY Heights
<1>2. TreesTo[d + 1] = TreesOver(TreesTo[d])
  BY <1>1, Heights
<1>3. "" \in Values
  BY RuleAstAssumption
<1>4. \A f \in Fields, v \in Values, ref \in BOOLEAN, neg \in BOOLEAN :
                Leaf(f, v, ref, neg) \in TreesTo[d + 1]
  BY <1>2 DEF Leaf, TreesOver
<1>5. \A f \in Fields, neg \in BOOLEAN : NullLeaf(f, neg) \in TreesTo[d + 1]
  BY <1>2, <1>3 DEF NullLeaf, TreesOver
<1>6. \A op \in {"and", "or", "any", "all"}, neg \in BOOLEAN, s \in Seq(TreesTo[d]) :
                Group(op, neg, s) \in TreesTo[d + 1]
  BY <1>2 DEF Group, TreesOver
<1>. QED  BY <1>4, <1>5, <1>6

LEMMA BuildItemType ==
    ASSUME NEW it \in DetectionItems, it.item = "values", NEW negated \in BOOLEAN,
           NEW d \in 2 .. MaxHeight
    PROVE  BuildItem(it, negated) \in TreesTo[d]
<1>1. /\ it.field \in Fields /\ it.values \in Seq(Values)
      /\ it.all \in BOOLEAN /\ it.ref \in BOOLEAN
  BY AnItem, ItemType
<1>. DEFINE leaf(i) == Leaf(it.field, it.values[i], it.ref, negated)
<1>2. 0 \in 0 .. MaxHeight - 1 /\ 1 \in 0 .. MaxHeight - 1 /\ 0 + 1 = 1 /\ 1 + 1 = 2
  BY Heights DEF MaxHeight
<1>3. \A i \in DOMAIN it.values : leaf(i) \in TreesTo[1] /\ leaf(i) \in TreesTo[2]
  BY <1>1, <1>2, Grown
<1>4. NullLeaf(it.field, negated) \in TreesTo[2]
  BY <1>1, <1>2, Grown
<1>5. [i \in DOMAIN it.values |-> leaf(i)] \in Seq(TreesTo[1])
  <2>1. DOMAIN it.values = 1 .. Len(it.values) /\ Len(it.values) \in Nat
    BY <1>1
  <2>. HIDE DEF leaf
  <2>. QED  BY <1>3, <2>1
<1>6. \A op \in {"and", "or"} :
         Group(op, negated, [i \in DOMAIN it.values |-> leaf(i)]) \in TreesTo[2]
  BY <1>2, <1>5, Grown
<1>7. Len(it.values) = 1 => 1 \in DOMAIN it.values
  BY <1>1
<1>8. BuildItem(it, negated) \in TreesTo[2]
  <2>1. CASE Len(it.values) = 0
    BY <1>4, <2>1 DEF BuildItem
  <2>2. CASE Len(it.values) = 1
    BY <1>3, <1>7, <2>2 DEF BuildItem
  <2>3. CASE Len(it.values) \notin {0, 1}
    BY <1>6, <2>3 DEF BuildItem
  <2>. QED  BY <2>1, <2>2, <2>3
<1>9. 2 \in 0 .. MaxHeight /\ d \in 2 .. MaxHeight
  BY Heights
<1>. QED  BY <1>8, <1>9, Rise

\* BuildDetection follows its equation, and builds a tree one higher than the
\* item is nested.
LEMMA DetectionAre ==
    ASSUME NEW negated \in BOOLEAN
    PROVE  LET built(it) == BuildDetection(it, negated)
           IN  /\ \A d \in 1 .. MaxNesting : \A it \in ItemsTo[d] : built(it) \in TreesTo[d + 1]
               /\ \A it \in DetectionItems :
                     built(it) = IF it.item = "values" THEN BuildItem(it, negated)
                                 ELSE IF Len(it.of) = 1 THEN built(it.of[1])
                                 ELSE Group(it.link, negated,
                                            [i \in DOMAIN it.of |-> built(it.of[i])])
<1>. DEFINE of(it, g) ==
              IF it.item = "values" THEN BuildItem(it, negated)
              ELSE IF Len(it.of) = 1 THEN g[it.of[1]]
              ELSE Group(it.link, negated, [i \in DOMAIN it.of |-> g[it.of[i]]])
            V == [d \in 0 .. MaxNesting |-> TreesTo[d + 1]]
            F == [p \in DetectionItems \X [DetectionItems -> Trees] |-> of(p[1], p[2])]
            build == CHOOSE g : g = [it \in DetectionItems |-> of(it, g)]
<1>0. /\ MaxNesting \in Nat /\ \A d \in 0 .. MaxNesting : d + 1 \in 1 .. MaxHeight
      /\ \A d \in 0 .. MaxNesting : d + 1 \in 0 .. MaxHeight - 1
  BY Heights DEF MaxHeight
<1>1. \A it \in DetectionItems : \A g \in [DetectionItems -> Trees] :
         F[<<it, g>>] = of(it, g)
  <2>. HIDE DEF of
  <2>. QED  OBVIOUS
<1>2. V \in [0 .. MaxNesting -> SUBSET Trees]
  BY <1>0, Heights
<1>3. ASSUME NEW d \in 1 .. MaxNesting, NEW it \in ItemsTo[d],
             NEW g \in [DetectionItems -> Trees],
             \A y \in ItemsTo[d - 1] : g[y] \in V[d - 1]
      PROVE  of(it, g) \in V[d]
  <2>1. /\ d \in 0 .. MaxNesting /\ d - 1 \in 0 .. MaxNesting /\ V[d] = TreesTo[d + 1]
        /\ V[d - 1] = TreesTo[d] /\ it \in DetectionItems
        /\ d \in 0 .. MaxHeight - 1 /\ d + 1 \in 2 .. MaxHeight
        /\ d \in 0 .. MaxHeight /\ d + 1 \in d .. MaxHeight
    BY <1>0, ItemLevels
  <2>. HIDE DEF V
  <2>2. CASE it.item = "values"
    BY <2>1, <2>2, BuildItemType
  <2>3. CASE it.item # "values"
    <3>1. /\ it.link \in {"and", "or"} /\ it.of \in Seq(ItemsTo[d - 1])
          /\ \A i \in DOMAIN it.of : it.of[i] \in ItemsTo[d - 1]
      BY <2>3, ItemParts
    <3>2. DOMAIN it.of = 1 .. Len(it.of) /\ Len(it.of) \in Nat
      BY <3>1
    <3>3. \A i \in DOMAIN it.of : g[it.of[i]] \in TreesTo[d]
      BY <1>3, <2>1, <3>1
    <3>4. CASE Len(it.of) = 1
      <4>1. g[it.of[1]] \in TreesTo[d] /\ TreesTo[d] \subseteq TreesTo[d + 1]
        BY <2>1, <3>2, <3>3, <3>4, Rise
      <4>. QED  BY <2>1, <2>3, <3>4, <4>1
    <3>5. CASE Len(it.of) # 1
      <4>1. [i \in DOMAIN it.of |-> g[it.of[i]]] \in Seq(TreesTo[d])
        BY <3>2, <3>3
      <4>2. Group(it.link, negated, [i \in DOMAIN it.of |-> g[it.of[i]]]) \in TreesTo[d + 1]
        BY <2>1, <3>1, <4>1, Grown
      <4>. QED  BY <2>1, <2>3, <3>5, <4>2
    <3>. QED  BY <3>4, <3>5
  <2>. QED  BY <2>2, <2>3
<1>4. ASSUME NEW it \in DetectionItems, NEW g, NEW h,
             it.item # "values" => \A i \in DOMAIN it.of : g[it.of[i]] = h[it.of[i]]
      PROVE  of(it, g) = of(it, h)
  <2>1. CASE it.item = "values"
    BY <2>1
  <2>2. CASE it.item # "values" /\ Len(it.of) = 1
    <3>1. 1 \in DOMAIN it.of
      BY <2>2, AnItem
    <3>. QED  BY <1>4, <2>2, <3>1
  <2>3. CASE it.item # "values" /\ Len(it.of) # 1
    BY <1>4, <2>3
  <2>. QED  BY <2>1, <2>2, <2>3
<1>5. ASSUME NEW d \in 1 .. MaxNesting, NEW it \in ItemsTo[d], NEW g, NEW h,
             \A y \in ItemsTo[d - 1] : g[y] = h[y]
      PROVE  of(it, g) = of(it, h)
  <2>1. it \in DetectionItems
    BY <1>0, ItemLevels
  <2>2. it.item # "values" => \A i \in DOMAIN it.of : g[it.of[i]] = h[it.of[i]]
    BY <1>5, ItemParts
  <2>. HIDE DEF of
  <2>. QED  BY <1>4, <2>1, <2>2
<1>6. Trees # {}
  <2>1. V[MaxNesting] = TreesTo[MaxNesting + 1] /\ MaxNesting + 1 \in 2 .. MaxHeight
    BY Heights DEF MaxHeight
  <2>2. MaxNesting + 1 \in 0 .. MaxHeight /\ MaxNesting \in 0 .. MaxHeight - 1
    BY Heights DEF MaxHeight
  <2>3. Group("and", negated, <<>>) \in TreesTo[MaxNesting + 1]
    <3>1. <<>> \in Seq(TreesTo[MaxNesting]) /\ "and" \in {"and", "or", "any", "all"}
      OBVIOUS
    <3>. QED  BY <2>2, <3>1, Grown
  <2>. QED  BY <2>2, <2>3, Heights
<1>. HIDE DEF F, of, V
<1>7. \A d \in 1 .. MaxNesting : \A it \in ItemsTo[d] : it \in DetectionItems
  BY <1>0, ItemLevels
<1>8. Recursion(DetectionItems, Trees, MaxNesting, ItemsTo, V, F)
  <2>1. \A d \in 1 .. MaxNesting : \A it \in ItemsTo[d] : \A g, h \in [DetectionItems -> Trees] :
           (\A y \in ItemsTo[d - 1] : g[y] = h[y]) => F[<<it, g>>] = F[<<it, h>>]
    BY <1>1, <1>5, <1>7
  <2>2. \A d \in 1 .. MaxNesting : \A it \in ItemsTo[d] : \A g \in [DetectionItems -> Trees] :
           (\A y \in ItemsTo[d - 1] : g[y] \in V[d - 1]) => F[<<it, g>>] \in V[d]
    BY <1>1, <1>3, <1>7
  <2>. QED  BY <1>0, <1>2, <1>6, <2>1, <2>2, ItemsToLevels DEF Recursion
<1>9. PICK f : Solution(f, DetectionItems, Trees, MaxNesting, ItemsTo, V, F)
  BY <1>8, LevelRecursion
<1>10. /\ f \in [DetectionItems -> Trees] /\ f = [it \in DetectionItems |-> of(it, f)]
       /\ \A d \in 0 .. MaxNesting : \A it \in ItemsTo[d] : f[it] \in V[d]
  BY <1>1, <1>9 DEF Solution
<1>11. build = [it \in DetectionItems |-> of(it, build)]
  <2>. DEFINE is(g) == g = [it \in DetectionItems |-> of(it, g)]
  <2>1. is(f)
    BY <1>10
  <2>2. build = CHOOSE g : is(g)
    OBVIOUS
  <2>. HIDE DEF is, build
  <2>3. is(build)
    BY <2>1, <2>2
  <2>. QED  BY <2>3 DEF is
<1>. HIDE DEF build
<1>12. ASSUME NEW it \in DetectionItems
       PROVE  build[it] = of(it, build) /\ f[it] = of(it, f)
  BY <1>10, <1>11, Zenon
<1>13. \A it \in DetectionItems : build[it] = f[it]
  <2>. DEFINE P == {it \in DetectionItems : build[it] = f[it]}
  <2>1. ASSUME NEW it \in DetectionItems,
               it.item # "values" => \A i \in DOMAIN it.of : it.of[i] \in P
        PROVE  it \in P
    BY <1>4, <1>12, <2>1
  <2>. HIDE DEF P
  <2>2. DetectionItems \subseteq P
    BY <2>1, ItemInduction
  <2>. QED  BY <2>2 DEF P
<1>14. \A it : BuildDetection(it, negated) = build[it]
  BY DEF BuildDetection, build, of
<1>15. ASSUME NEW d \in 1 .. MaxNesting, NEW it \in ItemsTo[d]
       PROVE  BuildDetection(it, negated) \in TreesTo[d + 1]
  <2>1. V[d] = TreesTo[d + 1] /\ it \in DetectionItems /\ d \in 0 .. MaxNesting
    BY <1>0, <1>7 DEF V
  <2>. QED  BY <1>10, <1>13, <1>14, <2>1
<1>16. ASSUME NEW it \in DetectionItems
       PROVE  BuildDetection(it, negated) =
                 IF it.item = "values" THEN BuildItem(it, negated)
                 ELSE IF Len(it.of) = 1 THEN BuildDetection(it.of[1], negated)
                 ELSE Group(it.link, negated,
                            [i \in DOMAIN it.of |-> BuildDetection(it.of[i], negated)])
  BY <1>12, <1>14 DEF of
<1>. QED  BY <1>15, <1>16

LEMMA ConditionType ==
    ASSUME NEW S, NEW c \in ConditionsOver(S)
    PROVE  /\ c.cond \in {"id", "any", "all", "not", "and", "or"}
           /\ c.cond = "id" => c.args \in [1 .. 1 -> SelectionNames]
           /\ c.cond \in {"any", "all"} => c.args \in Seq(SelectionNames)
           /\ c.cond = "not" => c.args \in [1 .. 1 -> S]
           /\ c.cond \in {"and", "or"} => c.args \in Seq(S)
BY DEF ConditionsOver

LEMMA ConditionLevels ==
    /\ Conditions = ConditionsTo[MaxNesting] /\ ConditionsTo[0] = {}
    /\ \A d \in 1 .. MaxNesting : ConditionsTo[d] = ConditionsOver(ConditionsTo[d - 1])
    /\ \A d \in 0 .. MaxNesting : ConditionsTo[d] \subseteq Conditions
BY Heights, ConditionsToLevels DEF Conditions, Levels

\* The parts of a condition of some level, and of any condition.
Links == {"not", "and", "or"}

LEMMA ConditionParts ==
    ASSUME NEW d \in 1 .. MaxNesting, NEW c \in ConditionsTo[d], c.cond \in Links
    PROVE  \A i \in DOMAIN c.args : /\ c.args[i] \in ConditionsTo[d - 1]
                                    /\ c.args[i] \in Conditions
<1>1. c \in ConditionsOver(ConditionsTo[d - 1])
  BY ConditionLevels
<1>2. \A i \in DOMAIN c.args : c.args[i] \in ConditionsTo[d - 1]
  BY <1>1, ConditionType DEF Links
<1>3. d - 1 \in 0 .. MaxNesting
  BY Heights
<1>. QED  BY <1>2, <1>3, ConditionLevels

LEMMA ACondition ==
    ASSUME NEW c \in Conditions
    PROVE  /\ MaxNesting \in 1 .. MaxNesting /\ c \in ConditionsTo[MaxNesting]
           /\ c \in ConditionsOver(ConditionsTo[MaxNesting - 1])
           /\ c.cond \in {"id", "any", "all"} \cup Links
           /\ c.cond \in Links => \A i \in DOMAIN c.args : c.args[i] \in Conditions
<1>1. MaxNesting \in 1 .. MaxNesting
  BY Heights
<1>2. c \in ConditionsTo[MaxNesting] /\ c \in ConditionsOver(ConditionsTo[MaxNesting - 1])
  BY <1>1, ConditionLevels
<1>3. c.cond \in {"id", "any", "all"} \cup Links
  BY <1>2, ConditionType DEF Links
<1>. QED  BY <1>1, <1>2, <1>3, ConditionParts

LEMMA ConditionInduction ==
    ASSUME NEW P,
           \A c \in Conditions :
              (c.cond \in Links => \A i \in DOMAIN c.args : c.args[i] \in P) => c \in P
    PROVE  Conditions \subseteq P
<1>1. ASSUME NEW d \in 1 .. MaxNesting, ConditionsTo[d - 1] \subseteq P,
             NEW c \in ConditionsTo[d]
      PROVE  c \in P
  <2>1. c \in Conditions
    BY Heights, ConditionLevels
  <2>2. c.cond \in Links => \A i \in DOMAIN c.args : c.args[i] \in P
    BY <1>1, ConditionParts
  <2>. QED  BY <2>1, <2>2
<1>2. \A d \in 1 .. MaxNesting : ConditionsTo[d - 1] \subseteq P => ConditionsTo[d] \subseteq P
  BY <1>1
<1>. QED  BY <1>2, ConditionsToLevels, Heights, LevelInduction

LEMMA SelectionType ==
    ASSUME NEW sels \in [SelectionNames -> DetectionItems], NEW name \in SelectionNames,
           NEW neg \in BOOLEAN
    PROVE  /\ BuildDetection(sels[name], neg) \in TreesTo[MaxNesting + 1]
           /\ BuildSelection(name, sels, neg) \in TreesTo[MaxNesting + 2]
<1>1. sels[name] \in ItemsTo[MaxNesting] /\ MaxNesting \in 1 .. MaxNesting
  BY AnItem
<1>2. BuildDetection(sels[name], neg) \in TreesTo[MaxNesting + 1]
  BY <1>1, DetectionAre
<1>3. MaxNesting + 2 \in 1 .. MaxHeight /\ MaxNesting + 2 - 1 = MaxNesting + 1
  BY Heights DEF MaxHeight
<1>4. TreesTo[MaxNesting + 2] = TreesOver(TreesTo[MaxNesting + 1])
  BY <1>3, Heights
<1>5. <<BuildDetection(sels[name], neg)>> \in [1 .. 1 -> TreesTo[MaxNesting + 1]]
  BY <1>2
<1>6. SelectionKind(name) \in {"filter", "selection"}
  BY DEF SelectionKind
<1>. QED  BY <1>2, <1>4, <1>5, <1>6 DEF BuildSelection, TreesOver

\* BuildCondition follows its equation, and builds a tree of bounded height.
LEMMA ConditionAre ==
    ASSUME NEW sels \in [SelectionNames -> DetectionItems]
    PROVE  LET built(c, neg) == BuildCondition(c, sels, neg)
               polarity(c, neg) == IF c.cond = "not" THEN ~neg ELSE neg
           IN  /\ \A c \in Conditions, neg \in BOOLEAN : built(c, neg) \in Trees
               /\ \A c \in Conditions, neg \in BOOLEAN :
                     built(c, neg) =
                        IF c.cond = "id" THEN BuildSelection(c.args[1], sels, neg)
                        ELSE IF c.cond \in {"any", "all"}
                        THEN Group(c.cond, neg, [i \in DOMAIN c.args |->
                                                    BuildSelection(c.args[i], sels, neg)])
                        ELSE Group(c.cond, polarity(c, neg),
                                   [i \in DOMAIN c.args |->
                                       built(c.args[i], polarity(c, neg))])
<1>. DEFINE pol(c, neg) == IF c.cond = "not" THEN ~neg ELSE neg
            node(c, neg, g) ==
              LET polarity == IF c.cond = "not" THEN ~neg ELSE neg
              IN  CASE c.cond = "id" -> BuildSelection(c.args[1], sels, neg)
                    [] c.cond \in {"any", "all"} ->
                          Group(c.cond, neg, [i \in DOMAIN c.args |->
                                                 BuildSelection(c.args[i], sels, neg)])
                    [] OTHER -> Group(c.cond, polarity,
                                      [i \in DOMAIN c.args |-> g[c.args[i]][polarity]])
            of(c, g) == [neg \in BOOLEAN |-> node(c, neg, g)]
            X == Conditions
            W == [BOOLEAN -> Trees]
            H == MaxNesting + 2
            V == [d \in 0 .. MaxNesting |-> [BOOLEAN -> TreesTo[H + d]]]
            F == [p \in X \X [X -> W] |-> of(p[1], p[2])]
            build == CHOOSE g : g = [c \in Conditions |-> of(c, g)]
<1>0. /\ MaxNesting \in Nat /\ H \in Nat /\ \A d \in 0 .. MaxNesting : H + d \in 1 .. MaxHeight
      /\ \A d \in 1 .. MaxNesting : /\ d \in 0 .. MaxNesting /\ d - 1 \in 0 .. MaxNesting
                                    /\ H + d - 1 \in 0 .. MaxHeight - 1
                                    /\ H \in 0 .. MaxHeight - 1
                                    /\ H \in 0 .. MaxHeight
                                    /\ H + d - 1 \in H .. MaxHeight
                                    /\ H + d \in H .. MaxHeight
                                    /\ H + d \in 1 .. MaxHeight
                                    /\ H + d - 1 + 1 = H + d /\ H + (d - 1) = H + d - 1
  BY Heights DEF MaxHeight
<1>1. \A c \in X : \A g \in [X -> W] : F[<<c, g>>] = of(c, g)
  <2>. HIDE DEF of
  <2>. QED  OBVIOUS
<1>2. V \in [0 .. MaxNesting -> SUBSET W]
  <2>1. \A d \in 0 .. MaxNesting : TreesTo[H + d] \subseteq Trees
    BY <1>0, Heights
  <2>. QED  BY <2>1
<1>6. \A c, neg : neg \in BOOLEAN => pol(c, neg) \in BOOLEAN
  OBVIOUS
<1>7. ASSUME NEW d \in 1 .. MaxNesting, NEW c \in ConditionsTo[d], NEW neg \in BOOLEAN,
             NEW g \in [X -> W], \A y \in ConditionsTo[d - 1] : g[y] \in V[d - 1]
      PROVE  node(c, neg, g) \in TreesTo[H + d]
  <2>1. V[d - 1] = [BOOLEAN -> TreesTo[H + d - 1]]
    BY <1>0
  <2>2. TreesTo[H] \subseteq TreesTo[H + d] /\ TreesTo[H] \subseteq TreesTo[H + d - 1]
    BY <1>0, Rise
  <2>3. c \in ConditionsOver(ConditionsTo[d - 1])
    BY ConditionLevels
  <2>4. \A op \in {"and", "or", "any", "all"}, n \in BOOLEAN, s \in Seq(TreesTo[H + d - 1]) :
           Group(op, n, s) \in TreesTo[H + d]
    BY <1>0, Grown
  <2>5. \A name \in SelectionNames : BuildSelection(name, sels, neg) \in TreesTo[H]
    BY SelectionType
  <2>6. CASE c.cond = "id"
    <3>1. c.args[1] \in SelectionNames
      BY <2>3, <2>6, ConditionType
    <3>. QED  BY <2>2, <2>5, <2>6, <3>1
  <2>7. CASE c.cond \in {"any", "all"}
    <3>1. c.args \in Seq(SelectionNames)
      BY <2>3, <2>7, ConditionType
    <3>2. [i \in DOMAIN c.args |-> BuildSelection(c.args[i], sels, neg)]
             \in Seq(TreesTo[H + d - 1])
      BY <2>2, <2>5, <3>1
    <3>. QED  BY <2>4, <2>7, <3>2
  <2>8. CASE c.cond \in Links
    <3>1. \A i \in DOMAIN c.args : c.args[i] \in ConditionsTo[d - 1]
      BY <2>8, ConditionParts
    <3>. HIDE DEF V
    <3>2. \A i \in DOMAIN c.args : g[c.args[i]][pol(c, neg)] \in TreesTo[H + d - 1]
      BY <1>6, <1>7, <2>1, <3>1
    <3>3. node(c, neg, g) = Group(c.cond, pol(c, neg),
                                  [i \in DOMAIN c.args |-> g[c.args[i]][pol(c, neg)]])
      BY <2>8 DEF Links
    <3>. DEFINE s == [i \in DOMAIN c.args |-> g[c.args[i]][pol(c, neg)]]
    <3>4. CASE c.cond = "not"
      <4>1. c.args \in [1 .. 1 -> ConditionsTo[d - 1]]
        BY <2>3, <3>4, ConditionType
      <4>2. s \in [1 .. 1 -> TreesTo[H + d - 1]]
        BY <3>2, <4>1
      <4>3. TreesTo[H + d] = TreesOver(TreesTo[H + d - 1])
        BY <1>0, Heights
      <4>. HIDE DEF s
      <4>4. Group("not", pol(c, neg), s) \in TreesTo[H + d]
        BY <1>6, <4>2, <4>3 DEF Group, TreesOver
      <4>. QED  BY <3>3, <3>4, <4>4 DEF s
    <3>5. CASE c.cond \in {"and", "or"}
      <4>1. c.args \in Seq(ConditionsTo[d - 1])
        BY <2>3, <3>5, ConditionType
      <4>2. s \in Seq(TreesTo[H + d - 1])
        BY <3>2, <4>1
      <4>3. pol(c, neg) \in BOOLEAN
        BY <1>6
      <4>. HIDE DEF s, pol
      <4>4. Group(c.cond, pol(c, neg), s) \in TreesTo[H + d]
        BY <2>4, <3>5, <4>2, <4>3
      <4>. QED  BY <3>3, <4>4 DEF s
    <3>. QED  BY <2>8, <3>4, <3>5 DEF Links
  <2>9. c.cond \in {"id", "any", "all"} \cup Links
    BY <2>3, ConditionType DEF Links
  <2>. HIDE DEF node
  <2>. QED  BY <2>6, <2>7, <2>8, <2>9
<1>8. ASSUME NEW c \in Conditions, NEW g, NEW h,
             c.cond \in Links => \A i \in DOMAIN c.args : g[c.args[i]] = h[c.args[i]]
      PROVE  of(c, g) = of(c, h)
  <2>. SUFFICES ASSUME NEW neg \in BOOLEAN  PROVE node(c, neg, g) = node(c, neg, h)
    OBVIOUS
  <2>1. CASE c.cond \in {"id", "any", "all"}
    BY <2>1
  <2>2. CASE c.cond \in Links
    <3>1. [i \in DOMAIN c.args |-> g[c.args[i]][pol(c, neg)]]
             = [i \in DOMAIN c.args |-> h[c.args[i]][pol(c, neg)]]
      BY <1>8, <2>2
    <3>. QED  BY <2>2, <3>1 DEF Links
  <2>. HIDE DEF node
  <2>. QED  BY <2>1, <2>2, ACondition
<1>9. W # {}
  <2>1. <<>> \in Seq(TreesTo[H]) /\ "and" \in {"and", "or", "any", "all"}
    OBVIOUS
  <2>2. H \in 0 .. MaxHeight - 1 /\ H + 1 \in 0 .. MaxHeight
    BY Heights DEF MaxHeight
  <2>3. Group("and", TRUE, <<>>) \in TreesTo[H + 1]
    BY <2>1, <2>2, Grown
  <2>4. Group("and", TRUE, <<>>) \in Trees
    BY <2>2, <2>3, Heights
  <2>5. [neg \in BOOLEAN |-> Group("and", TRUE, <<>>)] \in W
    BY <2>4
  <2>. QED  BY <2>5
<1>4. \A d \in 0 .. MaxNesting : V[d] = [BOOLEAN -> TreesTo[H + d]]
  OBVIOUS
<1>3. ASSUME NEW d \in 1 .. MaxNesting, NEW c \in ConditionsTo[d], NEW g \in [X -> W],
             \A y \in ConditionsTo[d - 1] : g[y] \in V[d - 1]
      PROVE  of(c, g) \in V[d]
  <2>. HIDE DEF node, V, W, H
  <2>1. \A neg \in BOOLEAN : node(c, neg, g) \in TreesTo[H + d]
    BY <1>3, <1>7
  <2>2. V[d] = [BOOLEAN -> TreesTo[H + d]]
    BY <1>0, <1>4
  <2>. QED  BY <2>1, <2>2
<1>5. \A c, g : \A neg \in BOOLEAN : of(c, g)[neg] = node(c, neg, g)
  OBVIOUS
<1>. HIDE DEF F, of, V, node, H, W
<1>10. \A d \in 1 .. MaxNesting : \A c \in ConditionsTo[d] : c \in X
  BY <1>0, ConditionLevels
<1>11. \A d \in 1 .. MaxNesting : \A c \in ConditionsTo[d] : \A g, h \in [X -> W] :
          (\A y \in ConditionsTo[d - 1] : g[y] = h[y]) => F[<<c, g>>] = F[<<c, h>>]
  <2>. SUFFICES ASSUME NEW d \in 1 .. MaxNesting, NEW c \in ConditionsTo[d], NEW g \in [X -> W],
                       NEW h \in [X -> W], \A y \in ConditionsTo[d - 1] : g[y] = h[y]
                PROVE  F[<<c, g>>] = F[<<c, h>>]
    OBVIOUS
  <2>1. c.cond \in Links => \A i \in DOMAIN c.args : g[c.args[i]] = h[c.args[i]]
    BY ConditionParts
  <2>2. of(c, g) = of(c, h)
    BY <1>8, <1>10, <2>1
  <2>. QED  BY <1>1, <1>10, <2>2
<1>12. Recursion(X, W, MaxNesting, ConditionsTo, V, F)
  <2>1. \A d \in 1 .. MaxNesting : \A c \in ConditionsTo[d] : \A g \in [X -> W] :
          (\A y \in ConditionsTo[d - 1] : g[y] \in V[d - 1]) => F[<<c, g>>] \in V[d]
    BY <1>1, <1>3, <1>10
  <2>. QED  BY <1>0, <1>2, <1>9, <1>11, <2>1, ConditionsToLevels DEF Recursion
<1>13. PICK f : Solution(f, X, W, MaxNesting, ConditionsTo, V, F)
  BY <1>12, LevelRecursion
<1>14. /\ f \in [X -> W] /\ f = [c \in Conditions |-> of(c, f)]
  BY <1>1, <1>13 DEF Solution
<1>16. build = [c \in Conditions |-> of(c, build)]
  <2>. DEFINE is(g) == g = [c \in Conditions |-> of(c, g)]
  <2>1. is(f)
    BY <1>14
  <2>2. build = CHOOSE g : is(g)
    OBVIOUS
  <2>. HIDE DEF is, build
  <2>3. is(build)
    BY <2>1, <2>2
  <2>. QED  BY <2>3 DEF is
<1>. HIDE DEF build
<1>17. ASSUME NEW c \in Conditions
       PROVE  build[c] = of(c, build) /\ f[c] = of(c, f)
  BY <1>14, <1>16, Zenon
<1>18. \A c \in Conditions : build[c] = f[c]
  <2>. DEFINE P == {c \in Conditions : build[c] = f[c]}
  <2>1. ASSUME NEW c \in Conditions,
               c.cond \in Links => \A i \in DOMAIN c.args : c.args[i] \in P
        PROVE  c \in P
    BY <1>8, <1>17, <2>1
  <2>. HIDE DEF P
  <2>2. Conditions \subseteq P
    BY <2>1, ConditionInduction
  <2>. QED  BY <2>2 DEF P
<1>19. \A c, neg : BuildCondition(c, sels, neg) = build[c][neg]
  BY DEF BuildCondition, build, of, node
<1>20. ASSUME NEW c \in Conditions, NEW neg \in BOOLEAN
       PROVE  BuildCondition(c, sels, neg) \in Trees
  <2>1. f[c][neg] \in Trees
    BY <1>14 DEF W
  <2>. QED  BY <1>18, <1>19, <2>1
<1>21. ASSUME NEW c \in Conditions, NEW neg \in BOOLEAN
       PROVE  BuildCondition(c, sels, neg) =
                 IF c.cond = "id" THEN BuildSelection(c.args[1], sels, neg)
                 ELSE IF c.cond \in {"any", "all"}
                 THEN Group(c.cond, neg, [i \in DOMAIN c.args |->
                                             BuildSelection(c.args[i], sels, neg)])
                 ELSE Group(c.cond, pol(c, neg),
                            [i \in DOMAIN c.args |->
                                BuildCondition(c.args[i], sels, pol(c, neg))])
  <2>1. build[c][neg] = node(c, neg, build)
    BY <1>5, <1>17
  <2>2. build[c][neg] = IF c.cond = "id" THEN BuildSelection(c.args[1], sels, neg)
                 ELSE IF c.cond \in {"any", "all"}
                 THEN Group(c.cond, neg, [i \in DOMAIN c.args |->
                                             BuildSelection(c.args[i], sels, neg)])
                 ELSE Group(c.cond, pol(c, neg),
                            [i \in DOMAIN c.args |-> build[c.args[i]][pol(c, neg)]])
    BY <2>1, ACondition DEF node
  <2>. QED  BY <1>19, <2>2
<1>. QED  BY <1>20, <1>21

-----------------------------------------------------------------------------
(***************************************************************************)
(* The shape of a rule's tree: a node's flag is the polarity it was built  *)
(* with, flipped at a NOT; every leaf stands under a selection.            *)
(***************************************************************************)
LEMMA NodesWithin ==
    ASSUME NEW t \in Trees, NEW m \in Nodes(t)
    PROVE  /\ m \in Trees /\ t \in Nodes(t) /\ Nodes(m) \subseteq Nodes(t)
           /\ Leaves(m) \subseteq Leaves(t)
           /\ m.node # "leaf" => \A i \in DOMAIN m.children :
                 m.children[i] \in Nodes(t) /\ m.children[i] \in Trees
<1>. DEFINE P == {n \in Trees : \A k \in Nodes(n) : Nodes(k) \subseteq Nodes(n)}
<1>1. ASSUME NEW n \in Trees,
             n.node # "leaf" => \A i \in DOMAIN n.children : n.children[i] \in P
      PROVE  n \in P
  <2>1. ASSUME NEW k \in Nodes(n)  PROVE Nodes(k) \subseteq Nodes(n)
    <3>1. CASE k = n
      BY <3>1
    <3>2. CASE k # n
      <4>1. n.node # "leaf" /\ \E i \in DOMAIN n.children : k \in Nodes(n.children[i])
        BY <3>2, NodesAre
      <4>2. PICK i \in DOMAIN n.children : k \in Nodes(n.children[i])
        BY <4>1
      <4>3. Nodes(k) \subseteq Nodes(n.children[i])
        BY <1>1, <4>1, <4>2
      <4>4. Nodes(n.children[i]) \subseteq Nodes(n)
        BY <4>1, NodesAre
      <4>. QED  BY <4>3, <4>4
    <3>. QED  BY <3>1, <3>2
  <2>. QED  BY <2>1
<1>. HIDE DEF P
<1>2. Trees \subseteq P
  BY <1>1, TreeInduction
<1>3. m \in Trees /\ t \in Nodes(t) /\ Nodes(m) \subseteq Nodes(t)
  BY <1>2, NodesAre DEF P
<1>4. ASSUME m.node # "leaf", NEW i \in DOMAIN m.children
      PROVE  m.children[i] \in Nodes(t) /\ m.children[i] \in Trees
  <2>1. m.children[i] \in Trees
    BY <1>3, <1>4, ATree
  <2>2. m.children[i] \in Nodes(m.children[i])
    BY <2>1, NodesAre
  <2>3. Nodes(m.children[i]) \subseteq Nodes(m)
    BY <1>3, <1>4, NodesAre
  <2>. QED  BY <1>3, <2>1, <2>2, <2>3
<1>. QED  BY <1>3, <1>4 DEF Leaves

\* The nodes of a leaf and of any other node.
LEMMA NodesOfLeaf ==
    ASSUME NEW n \in Trees, n.node = "leaf"
    PROVE  Nodes(n) = {n} /\ Leaves(n) = {n}
BY NodesAre DEF Leaves

LEMMA NodesOfNode ==
    ASSUME NEW n \in Trees, n.node # "leaf"
    PROVE  /\ Nodes(n) = {n} \cup UNION {Nodes(n.children[i]) : i \in DOMAIN n.children}
           /\ Leaves(n) = UNION {Leaves(n.children[i]) : i \in DOMAIN n.children}
<1>1. Nodes(n) = {n} \cup UNION {Nodes(n.children[i]) : i \in DOMAIN n.children}
  BY NodesAre
<1>. QED  BY <1>1 DEF Leaves

\* The polarity a tree was built with.
Entered(t) == IF t.node = "not" THEN ~t.negated ELSE t.negated
Consistent(t) ==
    \A m \in Nodes(t) : m.node # "leaf" =>
       \A i \in DOMAIN m.children : Entered(m.children[i]) = m.negated
Held(t) ==
    \A l \in Leaves(t) : \E s \in Nodes(t) : s.node = "selection" /\ l \in Leaves(s)
\* What a selection is made of.
Detected(t, neg) ==
    \A m \in Nodes(t) : m.node \in {"leaf", "and", "or"} /\ m.negated = neg

LEMMA DetectedIsConsistent ==
    ASSUME NEW t \in Trees, NEW neg, Detected(t, neg)
    PROVE  Consistent(t) /\ Entered(t) = neg
<1>1. ASSUME NEW m \in Nodes(t)
      PROVE  Entered(m) = neg /\ m.negated = neg
  <2>1. m.node # "not" /\ m.negated = neg
    BY DEF Detected
  <2>. QED  BY <2>1 DEF Entered
<1>2. t \in Nodes(t)
  BY NodesAre
<1>3. ASSUME NEW m \in Nodes(t), m.node # "leaf", NEW i \in DOMAIN m.children
      PROVE  Entered(m.children[i]) = m.negated
  <2>1. m.children[i] \in Nodes(t)
    BY <1>3, NodesWithin
  <2>. QED  BY <1>1, <2>1
<1>. QED  BY <1>1, <1>2, <1>3 DEF Consistent

\* A group of trees that are alike is like them.
LEMMA GroupDetected ==
    ASSUME NEW op \in {"and", "or"}, NEW neg \in BOOLEAN, NEW I, NEW s,
           DOMAIN s = I, \A i \in I : Detected(s[i], neg), Group(op, neg, s) \in Trees
    PROVE  Detected(Group(op, neg, s), neg)
<1>. DEFINE g == Group(op, neg, s)
<1>1. g.node = op /\ g.negated = neg /\ g.children = s
  BY DEF Group
<1>. HIDE DEF g
<1>2. g.node # "leaf" /\ g.node \in {"leaf", "and", "or"} /\ g \in Trees
  BY <1>1 DEF g
<1>3. Nodes(g) = {g} \cup UNION {Nodes(s[i]) : i \in I}
  BY <1>1, <1>2, NodesOfNode
<1>4. Detected(g, neg)
  BY <1>1, <1>2, <1>3 DEF Detected
<1>. QED  BY <1>4 DEF g

LEMMA DetectionTree ==
    ASSUME NEW it \in DetectionItems, NEW neg \in BOOLEAN
    PROVE  /\ BuildDetection(it, neg) \in Trees
           /\ Detected(BuildDetection(it, neg), neg)
<1>. DEFINE built(i) == BuildDetection(i, neg)
            P == {i \in DetectionItems : Detected(built(i), neg)}
<1>1. \A i \in DetectionItems : built(i) \in Trees
  <2>1. MaxNesting + 1 \in 0 .. MaxHeight
    BY Heights DEF MaxHeight
  <2>2. \A i \in DetectionItems : built(i) \in TreesTo[MaxNesting + 1]
    BY DetectionAre, AnItem
  <2>. QED  BY <2>1, <2>2, Heights
<1>2. ASSUME NEW l \in Trees, l.node = "leaf", l.negated = neg
      PROVE  Detected(l, neg)
  BY <1>2, NodesOfLeaf DEF Detected
<1>3. ASSUME NEW i \in DetectionItems, i.item = "values"  PROVE Detected(built(i), neg)
  <2>1. /\ i.field \in Fields /\ i.values \in Seq(Values)
        /\ i.all \in BOOLEAN /\ i.ref \in BOOLEAN
    BY <1>3, AnItem, ItemType
  <2>2. built(i) = BuildItem(i, neg)
    BY <1>3, DetectionAre
  <2>3. /\ 0 \in 0 .. MaxHeight - 1 /\ 0 + 1 \in 0 .. MaxHeight
    BY Heights DEF MaxHeight
  <2>. DEFINE leaf(k) == Leaf(i.field, i.values[k], i.ref, neg)
              null == NullLeaf(i.field, neg)
  <2>4. null \in Trees /\ \A k \in DOMAIN i.values : leaf(k) \in Trees
    <3>1. null \in TreesTo[0 + 1] /\ \A k \in DOMAIN i.values : leaf(k) \in TreesTo[0 + 1]
      BY <2>1, <2>3, Grown
    <3>. QED  BY <2>3, <3>1, Heights
  <2>5. /\ null.node = "leaf" /\ null.negated = neg
        /\ \A k : leaf(k).node = "leaf" /\ leaf(k).negated = neg
    BY DEF Leaf, NullLeaf
  <2>6. Detected(null, neg) /\ \A k \in DOMAIN i.values : Detected(leaf(k), neg)
    BY <1>2, <2>4, <2>5
  <2>. HIDE DEF leaf, null
  <2>7. CASE Len(i.values) = 0
    BY <2>2, <2>6, <2>7 DEF BuildItem, null
  <2>8. CASE Len(i.values) = 1
    BY <2>1, <2>2, <2>6, <2>8 DEF BuildItem, leaf
  <2>9. CASE Len(i.values) \notin {0, 1}
    <3>. DEFINE op == IF i.all THEN "and" ELSE "or"
                s == [k \in DOMAIN i.values |-> leaf(k)]
    <3>1. built(i) = Group(op, neg, s) /\ op \in {"and", "or"}
      BY <2>2, <2>9 DEF BuildItem, leaf
    <3>2. DOMAIN s = DOMAIN i.values /\ \A k \in DOMAIN i.values : Detected(s[k], neg)
      BY <2>6
    <3>. HIDE DEF s, op
    <3>. QED  BY <1>1, <3>1, <3>2, GroupDetected
  <2>. QED  BY <2>1, <2>7, <2>8, <2>9
<1>4. ASSUME NEW i \in DetectionItems,
             i.item # "values" => \A k \in DOMAIN i.of : i.of[k] \in P
      PROVE  i \in P
  <2>1. CASE i.item = "values"
    BY <1>3, <2>1
  <2>2. CASE i.item # "values" /\ Len(i.of) = 1
    <3>1. built(i) = built(i.of[1])
      BY <2>2, DetectionAre
    <3>2. i.of \in Seq(DetectionItems)
      BY <2>2, AnItem
    <3>3. 1 \in DOMAIN i.of
      BY <2>2, <3>2
    <3>4. i.of[1] \in P
      BY <1>4, <2>2, <3>3
    <3>. HIDE DEF built
    <3>. QED  BY <3>1, <3>4
  <2>3. CASE i.item # "values" /\ Len(i.of) # 1
    <3>. DEFINE s == [k \in DOMAIN i.of |-> built(i.of[k])]
    <3>1. built(i) = Group(i.link, neg, s) /\ i.link \in {"and", "or"}
      <4>1. built(i) = Group(i.link, neg, [k \in DOMAIN i.of |-> built(i.of[k])])
        BY <2>3, DetectionAre
      <4>. HIDE DEF built
      <4>. QED  BY <2>3, <4>1, AnItem
    <3>2. DOMAIN s = DOMAIN i.of /\ \A k \in DOMAIN i.of : Detected(s[k], neg)
      BY <1>4, <2>3
    <3>. HIDE DEF s
    <3>3. Detected(built(i), neg)
      BY <1>1, <3>1, <3>2, GroupDetected
    <3>. QED  BY <3>3
  <2>. QED  BY <2>1, <2>2, <2>3
<1>. HIDE DEF P
<1>5. DetectionItems \subseteq P
  BY <1>4, ItemInduction
<1>. QED  BY <1>1, <1>5 DEF P

LEMMA SelectionTree ==
    ASSUME NEW sels \in [SelectionNames -> DetectionItems], NEW name \in SelectionNames,
           NEW neg \in BOOLEAN
    PROVE  LET t == BuildSelection(name, sels, neg)
               d == BuildDetection(sels[name], neg)
           IN  /\ t \in Trees /\ t.node = "selection" /\ t.negated = neg
               /\ t.kind = SelectionKind(name)
               /\ DOMAIN t.children = 1 .. 1 /\ t.children[1] = d
               /\ d \in Trees /\ Detected(d, neg)
               /\ Nodes(t) = {t} \cup Nodes(d) /\ Leaves(t) = Leaves(d)
               /\ Entered(t) = neg /\ Consistent(t) /\ Held(t)
<1>. DEFINE t == BuildSelection(name, sels, neg)
            d == BuildDetection(sels[name], neg)
<1>1. MaxNesting + 2 \in 0 .. MaxHeight
  BY Heights DEF MaxHeight
<1>2. t \in Trees
  BY <1>1, SelectionType, Heights
<1>3. d \in Trees /\ Detected(d, neg)
  BY DetectionTree
<1>4. /\ t.node = "selection" /\ t.negated = neg /\ t.kind = SelectionKind(name)
      /\ DOMAIN t.children = 1 .. 1 /\ t.children[1] = d
  BY DEF BuildSelection
<1>. HIDE DEF t, d
<1>5. Nodes(t) = {t} \cup Nodes(d) /\ Leaves(t) = Leaves(d)
  <2>1. \A S : UNION {S} = S
    OBVIOUS
  <2>2. {Nodes(t.children[i]) : i \in DOMAIN t.children} = {Nodes(d)}
    BY <1>4
  <2>3. {Leaves(t.children[i]) : i \in DOMAIN t.children} = {Leaves(d)}
    BY <1>4
  <2>4. /\ Nodes(t) = {t} \cup UNION {Nodes(t.children[i]) : i \in DOMAIN t.children}
        /\ Leaves(t) = UNION {Leaves(t.children[i]) : i \in DOMAIN t.children}
    BY <1>2, <1>4, NodesOfNode
  <2>. QED  BY <2>1, <2>2, <2>3, <2>4
<1>6. Entered(t) = neg
  BY <1>4 DEF Entered
<1>7. Consistent(d) /\ Entered(d) = neg
  BY <1>3, DetectedIsConsistent
<1>8. Consistent(t)
  BY <1>4, <1>5, <1>7 DEF Consistent
<1>9. Held(t)
  BY <1>2, <1>4, <1>5 DEF Held
<1>. QED  BY <1>2, <1>3, <1>4, <1>5, <1>6, <1>8, <1>9 DEF t, d

\* What a node takes over from its children.
LEMMA NodeShape ==
    ASSUME NEW n \in Trees, n.node # "leaf",
           \A i \in DOMAIN n.children : /\ Entered(n.children[i]) = n.negated
                                        /\ Consistent(n.children[i])
                                        /\ Held(n.children[i])
    PROVE  Consistent(n) /\ Held(n)
<1>1. Consistent(n)
  BY NodesOfNode DEF Consistent
<1>2. ASSUME NEW l \in Leaves(n)
      PROVE  \E s \in Nodes(n) : s.node = "selection" /\ l \in Leaves(s)
  <2>1. PICK i \in DOMAIN n.children : l \in Leaves(n.children[i])
    BY NodesOfNode
  <2>2. PICK s \in Nodes(n.children[i]) : s.node = "selection" /\ l \in Leaves(s)
    BY <2>1 DEF Held
  <2>. QED  BY <2>2, NodesOfNode
<1>. QED  BY <1>1, <1>2 DEF Held

LEMMA ConditionTree ==
    ASSUME NEW sels \in [SelectionNames -> DetectionItems], NEW c \in Conditions,
           NEW neg \in BOOLEAN
    PROVE  LET t == BuildCondition(c, sels, neg)
           IN  t \in Trees /\ Entered(t) = neg /\ Consistent(t) /\ Held(t)
<1>. DEFINE built(k, n) == BuildCondition(k, sels, n)
            Shaped(t, n) == t \in Trees /\ Entered(t) = n /\ Consistent(t) /\ Held(t)
            P == {k \in Conditions : \A n \in BOOLEAN : Shaped(built(k, n), n)}
<1>0. \A k \in Conditions, n \in BOOLEAN : built(k, n) \in Trees
  BY ConditionAre
<1>1. ASSUME NEW k \in Conditions, NEW n \in BOOLEAN, k.cond = "id"
      PROVE  Shaped(built(k, n), n)
  <2>1. k.args[1] \in SelectionNames
    BY <1>1, ACondition, ConditionType
  <2>2. built(k, n) = BuildSelection(k.args[1], sels, n)
    BY <1>1, ConditionAre
  <2>. HIDE DEF built
  <2>. QED  BY <2>1, <2>2, SelectionTree
<1>2. ASSUME NEW k \in Conditions, NEW n \in BOOLEAN, k.cond \in {"any", "all"}
      PROVE  Shaped(built(k, n), n)
  <2>1. k.args \in Seq(SelectionNames)
    BY <1>2, ACondition, ConditionType
  <2>. DEFINE s == [i \in DOMAIN k.args |-> BuildSelection(k.args[i], sels, n)]
              t == Group(k.cond, n, s)
  <2>2. built(k, n) = t /\ t \in Trees
    BY <1>0, <1>2, ConditionAre
  <2>3. t.node = k.cond /\ t.negated = n /\ t.children = s /\ DOMAIN s = DOMAIN k.args
    BY DEF Group
  <2>4. \A i \in DOMAIN k.args : Entered(s[i]) = n /\ Consistent(s[i]) /\ Held(s[i])
    BY <2>1, SelectionTree
  <2>. HIDE DEF s, t, built
  <2>5. Entered(t) = n /\ t.node # "leaf"
    BY <1>2, <2>3 DEF Entered
  <2>6. Consistent(t) /\ Held(t)
    BY <2>2, <2>3, <2>4, <2>5, NodeShape
  <2>. QED  BY <2>2, <2>5, <2>6
<1>3. ASSUME NEW k \in Conditions, NEW n \in BOOLEAN, k.cond \in Links,
             \A i \in DOMAIN k.args : k.args[i] \in P
      PROVE  Shaped(built(k, n), n)
  <2>. DEFINE pol == IF k.cond = "not" THEN ~n ELSE n
              s == [i \in DOMAIN k.args |-> built(k.args[i], pol)]
              t == Group(k.cond, pol, s)
  <2>1. built(k, n) = t /\ t \in Trees
    BY <1>0, <1>3, ConditionAre DEF Links
  <2>2. t.node = k.cond /\ t.negated = pol /\ t.children = s /\ DOMAIN s = DOMAIN k.args
    BY DEF Group
  <2>3. pol \in BOOLEAN
    OBVIOUS
  <2>4. \A i \in DOMAIN k.args : Entered(s[i]) = pol /\ Consistent(s[i]) /\ Held(s[i])
    <3>. HIDE DEF built, pol
    <3>. QED  BY <1>3, <2>3
  <2>5. Entered(t) = n
    BY <2>2 DEF Entered
  <2>. HIDE DEF s, t, built, pol
  <2>6. t.node # "leaf"
    BY <1>3, <2>2 DEF Links
  <2>7. Consistent(t) /\ Held(t)
    BY <2>1, <2>2, <2>4, <2>6, NodeShape
  <2>. QED  BY <2>1, <2>5, <2>7
<1>. HIDE DEF built, Shaped
<1>4. ASSUME NEW k \in Conditions,
             k.cond \in Links => \A i \in DOMAIN k.args : k.args[i] \in P
      PROVE  k \in P
  BY <1>1, <1>2, <1>3, <1>4, ACondition
<1>. HIDE DEF P
<1>5. Conditions \subseteq P
  BY <1>4, ConditionInduction
<1>. QED  BY <1>5 DEF P, Shaped, built

-----------------------------------------------------------------------------
(***************************************************************************)
(* What it costs to evade a tree.                                          *)
(***************************************************************************)
HasCounting(t, sole) == \E l \in Leaves(t) : Counts(l, sole)

\* What of a node of a plain rule is needed, and that of all nodes of a tree.
Sound(n, sole) ==
    /\ n.node = "leaf" /\ n.null => n.negated
    /\ n.node # "leaf" =>
          /\ n.children # <<>>
          /\ \/ n.node = "not"
             \/ n.node = "selection" /\ n.kind = "filter"
             => \A l \in Leaves(n) : l.negated
          /\ n.node \in {"or", "any"} => \A i, k \in DOMAIN n.children :
                HasCounting(n.children[i], sole) = HasCounting(n.children[k], sole)
Evadable(t, sole) == Consistent(t) /\ \A n \in Nodes(t) : Sound(n, sole)

LEMMA SomeChild ==
    ASSUME NEW n \in Trees, n.node # "leaf", n.children # <<>>
    PROVE  DOMAIN n.children # {}
<1>1. CASE n.node \in {"and", "or", "any", "all"}
  <2>1. n.children \in Seq(TreesTo[MaxHeight - 1])
    BY <1>1, ATree, TreeType
  <2>. QED  BY <2>1
<1>2. CASE n.node \in {"not", "selection"}
  <2>1. n.children \in [1 .. 1 -> TreesTo[MaxHeight - 1]]
    BY <1>2, ATree, TreeType
  <2>. QED  BY <2>1
<1>. QED  BY <1>1, <1>2, ATree, TreeType

\* Entered without a negation, a tree costs its rank if something in it counts
\* and fires in any case if nothing does; entered with one it does not fire.
Costs(t, reach, cloud, sole) ==
    LET rank == CombineAstTier(t, cloud, sole)
        fires == StillFires(t, reach, cloud, sole)
    IN  /\ ~Entered(t) /\ HasCounting(t, sole) =>
              rank \in 0 .. 3 /\ (fires <=> reach < rank)
        /\ ~Entered(t) /\ ~HasCounting(t, sole) => rank = Nothing /\ fires
        /\ Entered(t) => ~fires

LEMMA LeafCosts ==
    ASSUME NEW t \in Trees, t.node = "leaf", NEW reach \in Ranks, NEW cloud \in BOOLEAN,
           NEW sole \in BOOLEAN, Sound(t, sole)
    PROVE  Costs(t, reach, cloud, sole)
<1>. DEFINE rank == CombineAstTier(t, cloud, sole)
            fires == StillFires(t, reach, cloud, sole)
<1>1. /\ rank = RankOfCriterion(t, cloud, sole)
      /\ fires <=> /\ ~t.negated
                   /\ \/ IsDataSourceSelector(t.field) /\ ~sole
                      \/ RankOf(t, cloud) > reach
  <2>1. rank = RankOfCriterion(t, cloud, sole)
    BY CombineAre
  <2>2. fires <=> /\ ~t.negated
                  /\ \/ IsDataSourceSelector(t.field) /\ ~sole
                     \/ RankOf(t, cloud) > reach
    BY FiresAre
  <2>. QED  BY <2>1, <2>2
<1>2. RankOf(t, cloud) \in 0 .. 3 /\ fires \in BOOLEAN
  BY LeafRank, FiresAre
<1>3. HasCounting(t, sole) <=> Counts(t, sole)
  BY NodesOfLeaf DEF HasCounting
<1>4. Entered(t) = t.negated /\ t.negated \in BOOLEAN /\ t.null \in BOOLEAN
  BY ATree, TreeType DEF Entered
<1>5. t.null => t.negated
  BY DEF Sound
<1>. HIDE DEF rank, fires
<1>6. CASE t.negated
  BY <1>1, <1>4, <1>6 DEF Costs, rank, fires
<1>7. CASE ~t.negated /\ Counts(t, sole)
  <2>1. rank = RankOf(t, cloud)
    BY <1>1, <1>7 DEF RankOfCriterion
  <2>2. ~(IsDataSourceSelector(t.field) /\ ~sole)
    BY <1>7 DEF Counts
  <2>3. fires <=> reach < RankOf(t, cloud)
    BY <1>1, <1>2, <1>7, <2>2 DEF Ranks
  <2>. QED  BY <1>2, <1>3, <1>4, <1>7, <2>1, <2>3 DEF Costs, rank, fires
<1>8. CASE ~t.negated /\ ~Counts(t, sole)
  <2>1. rank = Nothing
    BY <1>1, <1>8 DEF RankOfCriterion
  <2>2. IsDataSourceSelector(t.field) /\ ~sole
    BY <1>4, <1>5, <1>8 DEF Counts
  <2>3. fires
    BY <1>1, <1>2, <1>8, <2>2
  <2>. QED  BY <1>3, <1>4, <1>8, <2>1, <2>3 DEF Costs, rank, fires
<1>. QED  BY <1>4, <1>6, <1>7, <1>8

LEMMA NodeCosts ==
    ASSUME NEW t \in Trees, t.node # "leaf", NEW reach \in Ranks, NEW cloud \in BOOLEAN,
           NEW sole \in BOOLEAN, Sound(t, sole),
           \A i \in DOMAIN t.children : /\ Entered(t.children[i]) = t.negated
                                        /\ Costs(t.children[i], reach, cloud, sole)
    PROVE  Costs(t, reach, cloud, sole)
<1>. DEFINE rank(m) == CombineAstTier(m, cloud, sole)
            fires(m) == StillFires(m, reach, cloud, sole)
            counts(m) == HasCounting(m, sole)
            child(i) == t.children[i]
            I == DOMAIN t.children
            ranks == {rank(child(i)) : i \in I} \ {Nothing}
<1>1. /\ t.node \in {"and", "or", "any", "all", "not", "selection"}
      /\ t.negated \in BOOLEAN
      /\ t.node = "selection" => t.kind \in {"filter", "selection"}
      /\ t.node = "not" => 1 \in I
  BY ATree, TreeType
<1>2. I # {} /\ \A i \in I : child(i) \in Trees
  BY SomeChild, ATree DEF Sound
<1>3. counts(t) <=> \E i \in I : counts(child(i))
  BY NodesOfNode DEF HasCounting
<1>4. /\ fires(t) \in BOOLEAN
      /\ t.node = "not" => (fires(t) <=> ~fires(child(1)))
      /\ t.node \in {"selection", "and", "all"} => (fires(t) <=> \A i \in I : fires(child(i)))
      /\ t.node \in {"or", "any"} => (fires(t) <=> \E i \in I : fires(child(i)))
  BY FiresAre
<1>5. /\ t.node = "not" \/ (t.node = "selection" /\ t.kind = "filter") => rank(t) = Nothing
      /\ t.node \notin {"leaf", "not"} /\ ~(t.node = "selection" /\ t.kind = "filter") =>
            rank(t) = IF ranks = {} THEN Nothing
                      ELSE IF t.node \in {"or", "any"} THEN Max(ranks) ELSE Min(ranks)
  BY CombineAre
<1>6. \A i \in I : /\ ~t.negated /\ counts(child(i)) =>
                        rank(child(i)) \in 0 .. 3 /\ (fires(child(i)) <=> reach < rank(child(i)))
                   /\ ~t.negated /\ ~counts(child(i)) =>
                        rank(child(i)) = Nothing /\ fires(child(i))
                   /\ t.negated => ~fires(child(i))
  BY DEF Costs
<1>7. /\ \/ t.node = "not" \/ (t.node = "selection" /\ t.kind = "filter") => ~counts(t)
      /\ t.node \in {"or", "any"} => \A i, k \in I : counts(child(i)) = counts(child(k))
  BY DEF Sound, HasCounting, Counts
<1>8. t.node # "not" => Entered(t) = t.negated
  BY DEF Entered
<1>9. t.node = "not" => Entered(t) = ~t.negated
  BY DEF Entered
<1>10. ranks \in SUBSET Ranks /\ \A r \in ranks : r # Nothing
  <2>1. \A i \in I : rank(child(i)) \in Ranks
    BY <1>2, CombineAre
  <2>. HIDE DEF rank, child, I
  <2>. QED  BY <2>1
<1>. HIDE DEF fires, counts, child, I
<1>11. CASE t.node = "not"
  <2>1. ~counts(t) /\ ~counts(child(1))
    BY <1>1, <1>3, <1>7, <1>11
  <2>2. rank(t) = Nothing
    BY <1>5, <1>11
  <2>3. CASE t.negated
    <3>1. fires(t) /\ ~Entered(t)
      BY <1>1, <1>4, <1>6, <1>9, <1>11, <2>3
    <3>. QED  BY <2>1, <2>2, <3>1 DEF Costs, fires, counts
  <2>4. CASE ~t.negated
    <3>1. ~fires(t) /\ Entered(t)
      BY <1>1, <1>4, <1>6, <1>9, <1>11, <2>1, <2>4
    <3>. QED  BY <3>1 DEF Costs, fires
  <2>. QED  BY <1>1, <2>3, <2>4
<1>12. CASE t.node # "not" /\ t.negated
  <2>1. ~fires(t)
    BY <1>1, <1>2, <1>4, <1>6, <1>12
  <2>. QED  BY <1>8, <1>12, <2>1 DEF Costs, fires
<1>13. CASE t.node # "not" /\ ~t.negated /\ ~counts(t)
  <2>1. fires(t)
    BY <1>1, <1>2, <1>3, <1>4, <1>6, <1>13
  <2>2. rank(t) = Nothing
    <3>1. ranks = {}
      BY <1>3, <1>6, <1>13
    <3>. QED  BY <1>1, <1>5, <1>13, <3>1
  <2>. QED  BY <1>8, <1>13, <2>1, <2>2 DEF Costs, fires, counts
<1>14. CASE t.node # "not" /\ ~t.negated /\ counts(t)
  <2>1. ~(t.node = "selection" /\ t.kind = "filter") /\ t.node \notin {"leaf", "not"}
    BY <1>7, <1>14
  <2>2. PICK j \in I : counts(child(j))
    BY <1>3, <1>14
  <2>3. rank(child(j)) \in 0 .. 3 /\ rank(child(j)) # Nothing
    BY <1>6, <1>14, <2>2 DEF Nothing
  <2>4. rank(child(j)) \in ranks
    BY <2>3
  <2>5. /\ \A i \in I : counts(child(i)) => rank(child(i)) \in ranks
        /\ \A r \in ranks : r \in 0 .. 3 /\ \E i \in I : counts(child(i)) /\ r = rank(child(i))
    BY <1>6, <1>14 DEF Nothing
  <2>6. \A r \in ranks : r \in Int /\ reach \in Int
    BY <2>5 DEF Ranks
  <2>. DEFINE R == ranks
  <2>7. R \in SUBSET Ranks /\ R # {}
    BY <1>10, <2>4
  <2>8. /\ Max(R) \in R /\ \A r \in R : r <= Max(R)
        /\ Min(R) \in R /\ \A r \in R : r >= Min(R)
    <3>. HIDE DEF R
    <3>. QED  BY <2>7, RankBounds
  <2>. HIDE DEF rank
  <2>9. CASE t.node \in {"or", "any"}
    <3>1. rank(t) = Max(R)
      BY <1>5, <2>1, <2>4, <2>9
    <3>2. \A i \in I : counts(child(i))
      BY <1>7, <2>2, <2>9
    <3>. HIDE DEF R
    <3>3. fires(t) <=> reach < Max(R)
      <4>1. ASSUME reach < Max(R)  PROVE fires(t)
        <5>1. PICK i \in I : counts(child(i)) /\ Max(R) = rank(child(i))
          BY <2>5, <2>8 DEF R
        <5>. QED  BY <1>4, <1>6, <1>14, <2>9, <4>1, <5>1
      <4>2. ASSUME fires(t)  PROVE reach < Max(R)
        <5>1. PICK i \in I : fires(child(i))
          BY <1>4, <2>9, <4>2
        <5>2. reach < rank(child(i)) /\ rank(child(i)) <= Max(R) /\ rank(child(i)) \in Int
          BY <1>6, <1>14, <2>5, <2>8, <3>2, <5>1 DEF R
        <5>3. Max(R) \in Int /\ reach \in Int
          BY <2>5, <2>6, <2>8 DEF R
        <5>. QED  BY <5>2, <5>3
      <4>. QED  BY <1>4, <4>1, <4>2
    <3>4. Max(R) \in 0 .. 3
      BY <2>5, <2>8 DEF R
    <3>. QED  BY <1>8, <1>14, <3>1, <3>3, <3>4 DEF Costs, fires, counts, rank
  <2>10. CASE t.node \in {"and", "all", "selection"}
    <3>1. rank(t) = Min(R)
      BY <1>5, <2>1, <2>4, <2>10
    <3>. HIDE DEF R
    <3>3. fires(t) <=> reach < Min(R)
      <4>1. ASSUME reach < Min(R), NEW i \in I  PROVE fires(child(i))
        <5>1. CASE counts(child(i))
          <6>1. rank(child(i)) >= Min(R) /\ rank(child(i)) \in Int
            BY <2>5, <2>8, <5>1 DEF R
          <6>2. Min(R) \in Int /\ reach \in Int
            BY <2>5, <2>6, <2>8 DEF R
          <6>. QED  BY <1>6, <1>14, <4>1, <5>1, <6>1, <6>2
        <5>2. CASE ~counts(child(i))
          BY <1>6, <1>14, <5>2
        <5>. QED  BY <5>1, <5>2
      <4>2. ASSUME fires(t)  PROVE reach < Min(R)
        <5>1. PICK i \in I : counts(child(i)) /\ Min(R) = rank(child(i))
          BY <2>5, <2>8 DEF R
        <5>. QED  BY <1>4, <1>6, <1>14, <2>10, <4>2, <5>1
      <4>. QED  BY <1>4, <2>10, <4>1, <4>2
    <3>4. Min(R) \in 0 .. 3
      BY <2>5, <2>8 DEF R
    <3>. QED  BY <1>8, <1>14, <3>1, <3>3, <3>4 DEF Costs, fires, counts, rank
  <2>. QED  BY <1>1, <1>14, <2>9, <2>10
<1>. QED  BY <1>1, <1>11, <1>12, <1>13, <1>14

\* Of a tree without negation above it.
LEMMA TreeCosts ==
    ASSUME NEW t \in Trees, NEW reach \in Ranks, NEW cloud \in BOOLEAN, NEW sole \in BOOLEAN,
           Evadable(t, sole)
    PROVE  Costs(t, reach, cloud, sole)
<1>. DEFINE P == {n \in Trees : Evadable(n, sole) => Costs(n, reach, cloud, sole)}
<1>1. ASSUME NEW n \in Trees,
             n.node # "leaf" => \A i \in DOMAIN n.children : n.children[i] \in P,
             Evadable(n, sole)
      PROVE  Costs(n, reach, cloud, sole)
  <2>1. n \in Nodes(n) /\ Sound(n, sole)
    BY <1>1, NodesWithin, NodesAre DEF Evadable
  <2>2. CASE n.node = "leaf"
    BY <2>1, <2>2, LeafCosts
  <2>3. CASE n.node # "leaf"
    <3>1. ASSUME NEW i \in DOMAIN n.children
          PROVE  /\ Entered(n.children[i]) = n.negated
                 /\ Costs(n.children[i], reach, cloud, sole)
      <4>1. Entered(n.children[i]) = n.negated
        BY <1>1, <2>1, <2>3 DEF Evadable, Consistent
      <4>2. Nodes(n.children[i]) \subseteq Nodes(n)
        BY <2>3, NodesOfNode
      <4>3. Evadable(n.children[i], sole)
        BY <1>1, <4>2 DEF Evadable, Consistent
      <4>. QED  BY <1>1, <2>3, <4>1, <4>3
    <3>. QED  BY <2>1, <2>3, <3>1, NodeCosts
  <2>. QED  BY <2>2, <2>3
<1>2. \A n \in Trees : (n.node # "leaf" => \A i \in DOMAIN n.children : n.children[i] \in P)
                          => n \in P
  BY <1>1
<1>. HIDE DEF P
<1>3. Trees \subseteq P
  BY <1>2, TreeInduction
<1>. QED  BY <1>3 DEF P

-----------------------------------------------------------------------------
(***************************************************************************)
(* Rules.                                                                  *)
(***************************************************************************)
\* What build_ast makes of a rule.
Built(ast) ==
    /\ ast \in Seq(Trees)
    /\ \A c \in DOMAIN ast : ~Entered(ast[c]) /\ Consistent(ast[c]) /\ Held(ast[c])

LEMMA AstIsBuilt ==
    ASSUME NEW detection \in Detections
    PROVE  Built(BuildAst(detection))
<1>1. /\ detection.conditions \in Seq(Conditions)
      /\ detection.selections \in [SelectionNames -> DetectionItems]
  BY DEF Detections
<1>. DEFINE tree(c) == BuildCondition(detection.conditions[c], detection.selections, FALSE)
<1>2. ASSUME NEW c \in DOMAIN detection.conditions
      PROVE  /\ tree(c) \in Trees
             /\ ~Entered(tree(c)) /\ Consistent(tree(c)) /\ Held(tree(c))
  <2>1. detection.conditions[c] \in Conditions
    BY <1>1
  <2>. HIDE DEF tree
  <2>. QED  BY <1>1, <2>1, ConditionTree DEF tree
<1>. HIDE DEF tree
<1>3. BuildAst(detection) = [c \in DOMAIN detection.conditions |-> tree(c)]
  BY DEF BuildAst, tree
<1>4. BuildAst(detection) \in Seq(Trees)
  BY <1>1, <1>2, <1>3
<1>. QED  BY <1>2, <1>3, <1>4 DEF Built

\* The rank of a rule.
LEMMA RuleRank ==
    ASSUME NEW rule, rule.ast \in Seq(Trees)
    PROVE  LET cloud == IsCloudAuditContext(LeavesOfRule(rule.ast))
               sole  == EventIdIsSoleCriterion(rule.ast)
               root(c) == CombineAstTier(rule.ast[c], cloud, sole)
               roots == {root(c) : c \in DOMAIN rule.ast} \ {Nothing}
               rank == ClassifyRule(rule).rank
           IN  /\ cloud \in BOOLEAN /\ sole \in BOOLEAN
               /\ rank \in Ranks
               /\ \A c \in DOMAIN rule.ast : root(c) \in Ranks
               /\ ~Unscoreable(rule) /\ StructuralHits(rule) = {} =>
                     /\ roots = {} => rank = Nothing
                     /\ roots # {} => rank \in roots /\ \A r \in roots : r <= rank
               /\ ~Unscoreable(rule) /\ StructuralHits(rule) # {} => rank = 3
               /\ Unscoreable(rule) => rank = Nothing
<1>. DEFINE cloud == IsCloudAuditContext(LeavesOfRule(rule.ast))
            sole  == EventIdIsSoleCriterion(rule.ast)
            root(c) == CombineAstTier(rule.ast[c], cloud, sole)
            roots == {root(c) : c \in DOMAIN rule.ast} \ {Nothing}
            rank == ClassifyRule(rule).rank
<1>1. cloud \in BOOLEAN /\ sole \in BOOLEAN
  BY DEF IsCloudAuditContext, EventIdIsSoleCriterion
<1>2. \A c \in DOMAIN rule.ast : rule.ast[c] \in Trees
  OBVIOUS
<1>. HIDE DEF cloud, sole
<1>3. \A c \in DOMAIN rule.ast : root(c) \in Ranks
  BY <1>1, <1>2, CombineAre
<1>4. roots \in SUBSET Ranks
  <2>. HIDE DEF root
  <2>. QED  BY <1>3
<1>5. ClassifyRule(rule) =
         IF Unscoreable(rule) THEN [rank |-> Nothing, findings |-> {}]
         ELSE IF StructuralHits(rule) # {}
         THEN [rank |-> TierRank["TTP"], findings |-> StructuralHits(rule)]
         ELSE [rank |-> IF roots = {} THEN Nothing ELSE Max(roots), findings |-> {}]
  BY DEF ClassifyRule, cloud, sole
<1>. HIDE DEF roots
<1>6. roots # {} => Max(roots) \in roots /\ \A r \in roots : r <= Max(roots)
  BY <1>4, RankBounds
<1>7. Nothing \in Ranks /\ TierRank["TTP"] = 3 /\ 3 \in Ranks
  BY DEF Nothing, Ranks, TierRank
<1>8. rank = IF Unscoreable(rule) THEN Nothing
             ELSE IF StructuralHits(rule) # {} THEN 3
             ELSE IF roots = {} THEN Nothing ELSE Max(roots)
  BY <1>5, <1>7
<1>. HIDE DEF rank
<1>9. rank \in Ranks
  BY <1>4, <1>6, <1>7, <1>8
<1>10. /\ ~Unscoreable(rule) /\ StructuralHits(rule) = {} =>
            /\ roots = {} => rank = Nothing
            /\ roots # {} => rank \in roots /\ \A r \in roots : r <= rank
       /\ ~Unscoreable(rule) /\ StructuralHits(rule) # {} => rank = 3
       /\ Unscoreable(rule) => rank = Nothing
  BY <1>6, <1>8
<1>. QED  BY <1>1, <1>3, <1>9, <1>10 DEF cloud, sole, roots, rank

\* The tier of a rule is what it costs to evade it, however deep the rule nests
\* and whatever its criteria are (_combine_ast_tier, classify_rule).
LEMMA RuleCosts ==
    ASSUME NEW rule, Built(rule.ast), rule.corr = FALSE, Plain(rule), StructuralHits(rule) = {},
           ClassifyRule(rule).rank # Nothing, NEW reach \in Ranks
    PROVE  RuleStillFires(rule, reach) <=> reach < ClassifyRule(rule).rank
<1>. DEFINE ast == rule.ast
            cloud == IsCloudAuditContext(LeavesOfRule(ast))
            sole  == EventIdIsSoleCriterion(ast)
            root(c) == CombineAstTier(ast[c], cloud, sole)
            roots == {root(c) : c \in DOMAIN ast} \ {Nothing}
            rank == ClassifyRule(rule).rank
            fires(c) == StillFires(ast[c], reach, cloud, sole)
            counts(c) == HasCounting(ast[c], sole)
<1>1. /\ ast \in Seq(Trees) /\ \A c \in DOMAIN ast : ast[c] \in Trees
      /\ \A c \in DOMAIN ast : ~Entered(ast[c]) /\ Consistent(ast[c]) /\ Held(ast[c])
  BY DEF Built
<1>2. cloud \in BOOLEAN /\ sole \in BOOLEAN
  BY <1>1, RuleRank
<1>3. rank \in roots /\ \A r \in roots : r <= rank
  <2>1. ~Unscoreable(rule)
    BY <1>1, RuleRank
  <2>2. /\ roots = {} => rank = Nothing
        /\ roots # {} => rank \in roots /\ \A r \in roots : r <= rank
    BY <1>1, <2>1, RuleRank
  <2>. QED  BY <2>2
<1>4. \A c, d \in DOMAIN ast : counts(c) = counts(d)
  BY DEF Plain, HasCounting
<1>5. ASSUME NEW n \in NodesOfRule(ast), n.node # "leaf"
      PROVE  /\ n.children # <<>>
             /\ \/ n.node = "not"
                \/ n.node = "selection" /\ n.kind = "filter"
                => \A l \in Leaves(n) : l.negated
             /\ n.node \in {"or", "any"} => \A i, k \in DOMAIN n.children :
                   HasCounting(n.children[i], sole) = HasCounting(n.children[k], sole)
  BY <1>5 DEF Plain, HasCounting
<1>6. ASSUME NEW s \in SelectionsOfRule(ast), s.kind # "filter", NEW l \in Leaves(s)
      PROVE  ~l.null
  <2>1. ~Absence(ast)
    BY DEF StructuralHits
  <2>. QED  BY <1>6, <2>1 DEF Absence
<1>. HIDE DEF sole, cloud
<1>7. ASSUME NEW c \in DOMAIN ast  PROVE Evadable(ast[c], sole)
  <2>1. Nodes(ast[c]) \subseteq NodesOfRule(ast)
    BY DEF NodesOfRule
  <2>2. ASSUME NEW l \in Nodes(ast[c]), l.node = "leaf", l.null  PROVE l.negated
    <3>1. l \in Leaves(ast[c])
      BY <2>2 DEF Leaves
    <3>2. PICK s \in Nodes(ast[c]) : s.node = "selection" /\ l \in Leaves(s)
      BY <1>1, <3>1 DEF Held
    <3>3. s \in SelectionsOfRule(ast) /\ s \in NodesOfRule(ast) /\ s.node # "leaf"
      BY <2>1, <3>2 DEF SelectionsOfRule
    <3>4. s.kind = "filter"
      BY <1>6, <2>2, <3>2, <3>3
    <3>. QED  BY <1>5, <3>2, <3>3, <3>4
  <2>3. \A n \in Nodes(ast[c]) : Sound(n, sole)
    BY <1>5, <2>1, <2>2 DEF Sound
  <2>. QED  BY <1>1, <2>3 DEF Evadable
<1>8. ASSUME NEW c \in DOMAIN ast
      PROVE  /\ counts(c) => root(c) \in 0 .. 3 /\ (fires(c) <=> reach < root(c))
             /\ ~counts(c) => root(c) = Nothing
  <2>1. Costs(ast[c], reach, cloud, sole)
    BY <1>1, <1>2, <1>7, TreeCosts
  <2>. QED  BY <1>1, <2>1 DEF Costs
<1>9. RuleStillFires(rule, reach) <=> \E c \in DOMAIN ast : fires(c)
  BY DEF RuleStillFires, cloud, sole
<1>. HIDE DEF root, fires, counts, rank, ast
<1>10. PICK j \in DOMAIN ast : rank = root(j) /\ root(j) # Nothing
  BY <1>3
<1>11. \A c \in DOMAIN ast : counts(c)
  BY <1>4, <1>8, <1>10
<1>12. \A c \in DOMAIN ast : root(c) \in roots /\ root(c) \in 0 .. 3
  BY <1>8, <1>11 DEF Nothing
<1>13. (\E c \in DOMAIN ast : fires(c)) <=> reach < rank
  <2>1. ASSUME NEW c \in DOMAIN ast, fires(c)  PROVE reach < rank
    <3>1. reach < root(c) /\ root(c) <= rank /\ root(c) \in Int
      BY <1>3, <1>8, <1>11, <1>12, <2>1
    <3>2. rank \in Int /\ reach \in Int
      BY <1>10, <1>12 DEF Ranks
    <3>. QED  BY <3>1, <3>2
  <2>2. ASSUME reach < rank  PROVE fires(j)
    BY <1>8, <1>10, <1>11, <2>2
  <2>. QED  BY <2>1, <2>2
<1>. QED  BY <1>9, <1>13 DEF rank

\* A rule's first condition with the exclusion of one more filter.
Excluded(ast, new, s) ==
    /\ ast \in Seq(Trees) /\ new \in Seq(Trees) /\ 1 \in DOMAIN ast
    /\ DOMAIN new = DOMAIN ast /\ \A c \in DOMAIN ast : c # 1 => new[c] = ast[c]
    /\ s \in Trees /\ s.node = "selection" /\ s.kind = "filter"
    /\ \A m \in Nodes(s) : m = s \/ m.node \in {"leaf", "and", "or"}
    /\ \A l \in Leaves(s) : l.negated
    /\ \E n, m \in Trees :
          /\ new[1] = n /\ n.node = "and" /\ DOMAIN n.children = 1 .. 2
          /\ n.children[1] = ast[1] /\ n.children[2] = m
          /\ m.node = "not" /\ DOMAIN m.children = 1 .. 1 /\ m.children[1] = s

LEMMA ExcludedNodes ==
    ASSUME NEW ast, NEW new, NEW s, Excluded(ast, new, s)
    PROVE  /\ LeavesOfRule(new) = LeavesOfRule(ast) \cup Leaves(s)
           /\ SelectionsOfRule(new) = SelectionsOfRule(ast) \cup {s}
           /\ \A cloud \in BOOLEAN, sole \in BOOLEAN : \A c \in DOMAIN ast :
                 CombineAstTier(new[c], cloud, sole) = CombineAstTier(ast[c], cloud, sole)
<1>1. /\ ast \in Seq(Trees) /\ new \in Seq(Trees) /\ 1 \in DOMAIN ast
      /\ DOMAIN new = DOMAIN ast /\ \A c \in DOMAIN ast : c # 1 => new[c] = ast[c]
      /\ s \in Trees /\ s.node = "selection" /\ s.kind = "filter"
      /\ \A m \in Nodes(s) : m = s \/ m.node \in {"leaf", "and", "or"}
  BY DEF Excluded
<1>2. PICK n \in Trees, m \in Trees :
          /\ new[1] = n /\ n.node = "and" /\ DOMAIN n.children = 1 .. 2
          /\ n.children[1] = ast[1] /\ n.children[2] = m
          /\ m.node = "not" /\ DOMAIN m.children = 1 .. 1 /\ m.children[1] = s
  BY DEF Excluded
<1>3. ast[1] \in Trees
  BY <1>1
<1>4. Nodes(m) = {m} \cup Nodes(s)
  <2>1. {Nodes(m.children[i]) : i \in DOMAIN m.children} = {Nodes(s)}
    BY <1>2
  <2>2. UNION {Nodes(s)} = Nodes(s)
    OBVIOUS
  <2>3. Nodes(m) = {m} \cup UNION {Nodes(m.children[i]) : i \in DOMAIN m.children}
    BY <1>2, NodesOfNode
  <2>. QED  BY <2>1, <2>2, <2>3
<1>5. Nodes(n) = {n} \cup Nodes(ast[1]) \cup Nodes(m)
  <2>1. Nodes(n) = {n} \cup UNION {Nodes(n.children[i]) : i \in DOMAIN n.children}
    BY <1>2, NodesOfNode
  <2>2. 1 .. 2 = {1, 2}
    OBVIOUS
  <2>3. {Nodes(n.children[i]) : i \in DOMAIN n.children} = {Nodes(ast[1]), Nodes(m)}
    BY <1>2, <2>2
  <2>4. UNION {Nodes(ast[1]), Nodes(m)} = Nodes(ast[1]) \cup Nodes(m)
    OBVIOUS
  <2>. QED  BY <2>1, <2>3, <2>4
<1>6. NodesOfRule(new) = NodesOfRule(ast) \cup {n, m} \cup Nodes(s)
  <2>1. \A x : x \in NodesOfRule(new) <=> \E c \in DOMAIN ast : x \in Nodes(new[c])
    BY <1>1 DEF NodesOfRule
  <2>2. \A x : x \in NodesOfRule(ast) <=> \E c \in DOMAIN ast : x \in Nodes(ast[c])
    BY DEF NodesOfRule
  <2>3. \A c \in DOMAIN ast : c # 1 => Nodes(new[c]) = Nodes(ast[c])
    BY <1>1
  <2>4. Nodes(new[1]) = Nodes(ast[1]) \cup {n, m} \cup Nodes(s)
    BY <1>2, <1>4, <1>5
  <2>. QED  BY <1>1, <2>1, <2>2, <2>3, <2>4
<1>7. LeavesOfRule(new) = LeavesOfRule(ast) \cup Leaves(s)
  BY <1>2, <1>6 DEF LeavesOfRule, Leaves
<1>8. s \in Nodes(s)
  BY <1>1, NodesAre
<1>9. SelectionsOfRule(new) = SelectionsOfRule(ast) \cup {s}
  BY <1>1, <1>2, <1>6, <1>8 DEF SelectionsOfRule
<1>10. ASSUME NEW cloud \in BOOLEAN, NEW sole \in BOOLEAN, NEW c \in DOMAIN ast
       PROVE  CombineAstTier(new[c], cloud, sole) = CombineAstTier(ast[c], cloud, sole)
  <2>. DEFINE rank(x) == CombineAstTier(x, cloud, sole)
              ranks == {rank(n.children[i]) : i \in DOMAIN n.children} \ {Nothing}
  <2>1. rank(m) = Nothing
    BY <1>2, CombineAre
  <2>2. rank(ast[1]) \in Ranks
    BY <1>3, CombineAre
  <2>3. rank(n) = IF ranks = {} THEN Nothing ELSE Min(ranks)
    <3>1. n.node \notin {"leaf", "not"} /\ ~(n.node = "selection" /\ n.kind = "filter")
      BY <1>2
    <3>2. rank(n) = IF ranks = {} THEN Nothing
                    ELSE IF n.node \in {"or", "any"} THEN Max(ranks) ELSE Min(ranks)
      BY <3>1, CombineAre
    <3>. HIDE DEF rank, ranks
    <3>. QED  BY <1>2, <3>2
  <2>. HIDE DEF rank
  <2>4. ranks = {rank(ast[1])} \ {Nothing}
    <3>1. 1 .. 2 = {1, 2}
      OBVIOUS
    <3>2. {rank(n.children[i]) : i \in DOMAIN n.children} = {rank(ast[1]), rank(m)}
      BY <1>2, <3>1
    <3>. QED  BY <2>1, <3>2
  <2>5. rank(n) = rank(ast[1])
    <3>1. CASE rank(ast[1]) = Nothing
      BY <2>3, <2>4, <3>1
    <3>2. CASE rank(ast[1]) # Nothing
      <4>1. ranks = {rank(ast[1])}
        BY <2>4, <3>2
      <4>2. ranks \in SUBSET Ranks /\ ranks # {}
        BY <2>2, <4>1
      <4>. HIDE DEF ranks
      <4>3. Min(ranks) \in ranks
        BY <4>2, RankBounds
      <4>. QED  BY <2>3, <4>1, <4>2, <4>3
    <3>. QED  BY <3>1, <3>2
  <2>6. new[c] = IF c = 1 THEN n ELSE ast[c]
    BY <1>1, <1>2
  <2>. QED  BY <2>5, <2>6 DEF rank
<1>. QED  BY <1>7, <1>9, <1>10

\* A filter is noise reduction (_combine_ast_tier, detect_absence).
LEMMA FilterIsNoise ==
    ASSUME NEW ast, NEW new, NEW s, Excluded(ast, new, s),
           NEW rule, NEW filtered, rule = [corr |-> FALSE, ast |-> ast],
           filtered = [corr |-> FALSE, ast |-> new], ~Unscoreable(rule)
    PROVE  \/ ClassifyRule(filtered).rank = ClassifyRule(rule).rank
           \/ "FIELD_MISMATCH" \in ClassifyRule(filtered).findings
           \/ IsCloudAuditContext(LeavesOfRule(new)) # IsCloudAuditContext(LeavesOfRule(ast))
<1>. SUFFICES ASSUME "FIELD_MISMATCH" \notin ClassifyRule(filtered).findings,
                     IsCloudAuditContext(LeavesOfRule(new))
                        = IsCloudAuditContext(LeavesOfRule(ast))
              PROVE  ClassifyRule(filtered).rank = ClassifyRule(rule).rank
  OBVIOUS
<1>0. /\ rule.corr = FALSE /\ rule.ast = ast /\ filtered.corr = FALSE /\ filtered.ast = new
      /\ ast \in Seq(Trees) /\ new \in Seq(Trees) /\ DOMAIN new = DOMAIN ast
      /\ s.kind = "filter" /\ \A l \in Leaves(s) : l.negated
  BY DEF Excluded
<1>1. /\ LeavesOfRule(new) = LeavesOfRule(ast) \cup Leaves(s)
      /\ SelectionsOfRule(new) = SelectionsOfRule(ast) \cup {s}
      /\ \A cloud \in BOOLEAN, sole \in BOOLEAN : \A c \in DOMAIN ast :
            CombineAstTier(new[c], cloud, sole) = CombineAstTier(ast[c], cloud, sole)
  BY ExcludedNodes
<1>2. ~Unscoreable(filtered)
  BY <1>0, <1>1 DEF Unscoreable
<1>3. ~FieldMismatch(new)
  <2>1. "FIELD_MISMATCH" \in StructuralHits(filtered) <=> FieldMismatch(new)
    BY <1>0 DEF StructuralHits
  <2>2. StructuralHits(filtered) # {} => ClassifyRule(filtered).findings = StructuralHits(filtered)
    BY <1>2 DEF ClassifyRule
  <2>. QED  BY <2>1, <2>2
<1>4. ~FieldMismatch(ast)
  BY <1>1, <1>3 DEF FieldMismatch
<1>5. Absence(new) <=> Absence(ast)
  BY <1>0, <1>1 DEF Absence
<1>6. StructuralHits(filtered) = StructuralHits(rule)
  BY <1>0, <1>3, <1>4, <1>5 DEF StructuralHits
<1>7. Positive(new) = Positive(ast)
  BY <1>0, <1>1 DEF Positive
<1>8. EventIdIsSoleCriterion(new) = EventIdIsSoleCriterion(ast)
  BY <1>7 DEF EventIdIsSoleCriterion
<1>. DEFINE cloud == IsCloudAuditContext(LeavesOfRule(ast))
            sole == EventIdIsSoleCriterion(ast)
            of(t) == {CombineAstTier(t[c], cloud, sole) : c \in DOMAIN ast} \ {Nothing}
<1>9. cloud \in BOOLEAN /\ sole \in BOOLEAN
  BY DEF IsCloudAuditContext, EventIdIsSoleCriterion
<1>. HIDE DEF cloud, sole
<1>10. of(new) = of(ast)
  BY <1>1, <1>9
<1>11. /\ ClassifyRule(rule).rank = IF StructuralHits(rule) # {} THEN TierRank["TTP"]
                                    ELSE IF of(ast) = {} THEN Nothing ELSE Max(of(ast))
  BY <1>0 DEF ClassifyRule, cloud, sole
<1>12. /\ ClassifyRule(filtered).rank = IF StructuralHits(filtered) # {} THEN TierRank["TTP"]
                                        ELSE IF of(new) = {} THEN Nothing ELSE Max(of(new))
  BY <1>0, <1>2, <1>8 DEF ClassifyRule, cloud, sole
<1>. QED  BY <1>6, <1>10, <1>11, <1>12
=============================================================================

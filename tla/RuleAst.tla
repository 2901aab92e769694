------------------------------- MODULE RuleAst -------------------------------
(***************************************************************************)
(* The syntax tree mechanic builds of a Sigma rule's detection             *)
(* (ast_repr.py).                                                          *)
(*                                                                         *)
(* A detection is what pySigma parsed: selections by name, and conditions  *)
(* over them.  What nests does so up to a bound, as it does in Python.     *)
(***************************************************************************)
EXTENDS Atoms, Sequences

CONSTANTS
    SelectionNames, \* the names of selections
    MaxNesting      \* bound on the nesting of a selection and of a condition

ASSUME RuleAstAssumption ==
    /\ MaxNesting \in Nat \ {0}
    /\ "" \in Values           \* what NullLeaf has for a value

\* Detection items, by nesting: a field with its values (the modifiers all and
\* fieldref as flags), or items linked with AND or OR.
ItemsOver(items) ==
    [item : {"values"}, field : Fields, values : Seq(Values), all : BOOLEAN,
     ref : BOOLEAN]
    \cup [item : {"list"}, link : {"and", "or"}, of : Seq(items)]
ItemsTo[d \in 0 .. MaxNesting] ==
    IF d = 0 THEN {} ELSE ItemsOver(ItemsTo[d - 1])
DetectionItems == ItemsTo[MaxNesting]

\* Conditions, by nesting: a selection, the selectors "1 of" and "all of" with
\* their pattern resolved, and NOT, AND and OR.
ConditionsOver(conditions) ==
    [cond : {"id"}, args : [1 .. 1 -> SelectionNames]]
    \cup [cond : {"any", "all"}, args : Seq(SelectionNames)]
    \cup [cond : {"not"}, args : [1 .. 1 -> conditions]]
    \cup [cond : {"and", "or"}, args : Seq(conditions)]
ConditionsTo[d \in 0 .. MaxNesting] ==
    IF d = 0 THEN {} ELSE ConditionsOver(ConditionsTo[d - 1])
Conditions == ConditionsTo[MaxNesting]

Detections == [parses : BOOLEAN, selections : [SelectionNames -> DetectionItems],
               conditions : Seq(Conditions)]

\* The nodes of the syntax tree, by height: of a condition, with a selection
\* and its items under each name.
TreesOver(trees) ==
    [node : {"leaf"}, field : Fields, value : Values, null : BOOLEAN,
     ref : BOOLEAN, negated : BOOLEAN]
    \cup [node : {"and", "or", "any", "all"}, negated : BOOLEAN,
          children : Seq(trees)]
    \cup [node : {"not"}, negated : BOOLEAN, children : [1 .. 1 -> trees]]
    \cup [node : {"selection"}, name : SelectionNames,
          kind : {"filter", "selection"}, negated : BOOLEAN,
          children : [1 .. 1 -> trees]]
MaxHeight == 2 * MaxNesting + 2
TreesTo[d \in 0 .. MaxHeight] ==
    IF d = 0 THEN {} ELSE TreesOver(TreesTo[d - 1])
Trees == TreesTo[MaxHeight]

-----------------------------------------------------------------------------
\* _leaf and _null_leaf.  ref tells the modifier fieldref.
Leaf(field, value, ref, negated) ==
    [node |-> "leaf", field |-> field, value |-> value, null |-> FALSE,
     ref |-> ref, negated |-> negated]
NullLeaf(field, negated) ==
    [node |-> "leaf", field |-> field, value |-> "", null |-> TRUE,
     ref |-> FALSE, negated |-> negated]

Group(op, negated, children) ==
    [node |-> op, negated |-> negated, children |-> children]

\* build_detection_item_node: several values of a field are alternatives,
\* unless the modifier all was used.  An item's own negation, which only a
\* processing pipeline sets, is left out.
BuildItem(item, negated) ==
    LET leaf(i) == Leaf(item.field, item.values[i], item.ref, negated)
    IN  CASE Len(item.values) = 0 -> NullLeaf(item.field, negated)
          [] Len(item.values) = 1 -> leaf(1)
          [] OTHER -> Group(IF item.all THEN "and" ELSE "or", negated,
                            [i \in DOMAIN item.values |-> leaf(i)])

\* build_detection_node: a group of one is that one.
BuildDetection(item, negated) ==
    LET build[it \in DetectionItems] ==
          IF it.item = "values" THEN BuildItem(it, negated)
          ELSE IF Len(it.of) = 1 THEN build[it.of[1]]
          ELSE Group(it.link, negated,
                     [i \in DOMAIN it.of |-> build[it.of[i]]])
    IN  build[item]

\* _selection_kind looks at the name; the names used here.
SelectionKind(name) ==
    IF name \in {"filter", "filter_main"} THEN "filter" ELSE "selection"

\* build_selection_node.
BuildSelection(name, selections, negated) ==
    [node |-> "selection", name |-> name, kind |-> SelectionKind(name),
     negated |-> negated,
     children |-> <<BuildDetection(selections[name], negated)>>]

\* Mutant: a NOT leaves the polarity of what is under it alone.
BuildConditionUnflipped(cond, selections, negated) ==
    LET build[c \in Conditions] ==
          CASE c.cond = "id" -> BuildSelection(c.args[1], selections, negated)
            [] c.cond \in {"any", "all"} ->
                  Group(c.cond, negated,
                        [i \in DOMAIN c.args |->
                            BuildSelection(c.args[i], selections, negated)])
            [] OTHER -> Group(c.cond, negated,
                              [i \in DOMAIN c.args |-> build[c.args[i]]])
    IN  build[cond]

\* build_condition_node: a NOT flips the polarity of all that is under it, a
\* selector stands for the selections its pattern names.
BuildCondition(cond, selections, negated) ==
    LET build[c \in Conditions] == [neg \in BOOLEAN |->
          LET polarity == IF c.cond = "not" THEN ~neg ELSE neg
          IN  CASE c.cond = "id" -> BuildSelection(c.args[1], selections, neg)
                [] c.cond \in {"any", "all"} ->
                      Group(c.cond, neg,
                            [i \in DOMAIN c.args |->
                                BuildSelection(c.args[i], selections, neg)])
                [] OTHER -> Group(c.cond, polarity,
                                  [i \in DOMAIN c.args |->
                                      build[c.args[i]][polarity]])]
    IN  build[cond][negated]

\* build_ast: one tree for each condition.
BuildAst(detection) ==
    [c \in DOMAIN detection.conditions |->
        BuildCondition(detection.conditions[c], detection.selections, FALSE)]

\* iter_leaves and iter_selections, as sets.
Nodes(n) ==
    LET nodes[m \in Trees] ==
          {m} \cup (IF m.node = "leaf" THEN {}
                    ELSE UNION {nodes[m.children[i]] : i \in DOMAIN m.children})
    IN  nodes[n]
Leaves(n) == {m \in Nodes(n) : m.node = "leaf"}

NodesOfRule(ast) == UNION {Nodes(ast[c]) : c \in DOMAIN ast}
LeavesOfRule(ast) == {n \in NodesOfRule(ast) : n.node = "leaf"}
SelectionsOfRule(ast) == {n \in NodesOfRule(ast) : n.node = "selection"}
=============================================================================

----------------------------- MODULE SemanticDiff -----------------------------
(***************************************************************************)
(* Is a change of a rule file behavioural?  semantic_diff.classify_change  *)
(* asks the syntax trees, then the keys of the documents, then the text.   *)
(* Modelled for Sigma, the only format of the triage.                      *)
(***************************************************************************)
EXTENDS RuleFiles, RuleAst

Docs == [kind : {"rule", "scalar", "null"}, corr : {"no", "yes", "malformed"},
         fault : Faults, detection : Detections, logsource : {0, 1},
         meta : {0, 1}, title : {0, 1}, order : {0, 1}]
Texts == [yaml : {"ok", "error", "raises"}, keys : BOOLEAN, head : {0, 1},
          style : {0, 1}, eol : {0, 1}, docs : Seq(Docs)]

\* BUCKET_PRIORITY; "unknown" is the bucket None.
BucketPriority == [behavioral |-> 3, semantic_metadata |-> 2,
                   cosmetic |-> 1, unknown |-> 0]

Classified(bucket, confidence, method) ==
    [bucket |-> bucket, confidence |-> confidence, method |-> method]
NotComparable == Classified("unknown", "low", "none")

\* Mutant: whatever changed in a rule is behavioural.
StandardRuleClassificationOfAnything(before, after) ==
    Classified(IF before # after THEN "behavioral" ELSE "cosmetic",
               "high", "ast")

\* _standard_rule_classification.  The tree has the keys of a selection in
\* their order.
StandardRuleClassification(before, after) ==
    LET tree(doc) == <<BuildAst(doc.detection), doc.order, doc.logsource>>
    IN  Classified(IF tree(before) # tree(after) THEN "behavioral"
                   ELSE IF before.meta # after.meta THEN "semantic_metadata"
                   ELSE "cosmetic", "high", "ast")

\* _try_ast_classification.
TryAst(before, after) ==
    LET b == ParseText(before)
        a == ParseText(after)
    IN  IF \/ b.failures \cup a.failures # {}
           \/ Len(b.rules) # 1 \/ Len(a.rules) # 1 THEN NotComparable
        ELSE LET rb == b.rules[1]
                 ra == a.rules[1]
             IN  IF rb.corr # ra.corr
                 THEN Classified("behavioral", "high", "ast")
                 ELSE IF \/ rb.corr = "yes"
                         \/ ~rb.detection.parses \/ ~ra.detection.parses
                 THEN NotComparable
                 ELSE StandardRuleClassification(rb, ra)

\* Mutant: only the detection of a document is behavioural.
ClassifyDocPairByDetection(b, a) ==
    IF b.kind # "rule" \/ a.kind # "rule" THEN "behavioral"
    ELSE IF b.detection # a.detection THEN "behavioral"
    ELSE IF b.meta # a.meta THEN "semantic_metadata" ELSE "cosmetic"

\* _classify_doc_pair; a document that is not there is None, like one that is
\* empty.  Mappings are equal whatever the order of their keys.
ClassifyDocPair(b, a) ==
    IF b.kind # "rule" \/ a.kind # "rule" THEN "behavioral"
    ELSE IF <<b.detection, b.logsource, b.corr>>
          # <<a.detection, a.logsource, a.corr>> THEN "behavioral"
    ELSE IF b.meta # a.meta THEN "semantic_metadata"
    ELSE "cosmetic"

\* _try_yaml_key_classification, with _worst.
TryYamlKey(before, after) ==
    LET nth(docs, i) == IF i \in DOMAIN docs THEN docs[i]
                        ELSE [kind |-> "null"]
        pairs == DOMAIN before.docs \cup DOMAIN after.docs
        buckets == {ClassifyDocPair(nth(before.docs, i), nth(after.docs, i)) :
                    i \in pairs}
    IN  IF before.yaml # "ok" \/ after.yaml # "ok" THEN NotComparable
        ELSE Classified(IF pairs = {} THEN "cosmetic"
                        ELSE CHOOSE b \in buckets : \A c \in buckets :
                                BucketPriority[c] <= BucketPriority[b],
                        "medium", "yaml_key")

\* _top_level_sections: the text under each key, over all documents.  What
\* stands between two documents is under the last key of the first.
TopLevelSections(text) ==
    LET of(Section(_)) == [i \in DOMAIN text.docs |->
                              IF text.docs[i].kind = "rule"
                              THEN Section(text.docs[i]) ELSE <<>>]
    IN  [detection |-> of(LAMBDA d : <<d.corr, d.detection, d.order,
                                       text.style>>),
         logsource |-> of(LAMBDA d : <<d.logsource>>),
         meta      |-> [i \in DOMAIN text.docs |->
                          <<text.docs[i].kind, text.docs[i].meta>>],
         title     |-> of(LAMBDA d : <<d.title, d.fault>>)]

\* _try_raw_text_classification.  What stands before the first key is in no
\* section; how lines end is in no line.
TryRawText(before, after) ==
    LET b == TopLevelSections(before)
        a == TopLevelSections(after)
        changed == IF before.keys # after.keys THEN DOMAIN b
                   ELSE {k \in DOMAIN b : b[k] # a[k]}
    IN  IF ~before.keys /\ ~after.keys
        THEN Classified("unknown", "low", "unknown")
        ELSE IF changed = {}
        THEN IF [before EXCEPT !.eol = 0] = [after EXCEPT !.eol = 0]
             THEN Classified("cosmetic", "low", "raw_text_section")
             ELSE Classified("unknown", "low", "unknown")
        ELSE Classified(
                IF changed \cap {"detection", "logsource"} # {}
                THEN "behavioral"
                ELSE IF "meta" \in changed THEN "semantic_metadata"
                ELSE "cosmetic", "low", "raw_text_section")

\* classify_change.  It raises what parse_text raises.
ChangeRaises(before, after) ==
    before # after /\ (ParseText(before).raises \/ ParseText(after).raises)
ClassifyChange(before, after) ==
    IF before = after THEN Classified("cosmetic", "high", "ast")
    ELSE IF TryAst(before, after) # NotComparable THEN TryAst(before, after)
    ELSE IF TryYamlKey(before, after) # NotComparable
    THEN TryYamlKey(before, after)
    ELSE TryRawText(before, after)

-----------------------------------------------------------------------------
\* The rules of a text, and their logic as it is written.
RulesWritten(text) ==
    Selected(text.docs, {k \in DOMAIN text.docs : text.docs[k].kind = "rule"})
Logic(text) ==
    LET rules == RulesWritten(text)
    IN  [i \in DOMAIN rules |->
            <<rules[i].corr, rules[i].detection, rules[i].logsource>>]

\* What a text makes the rules of its file match, however it is written: what
\* no condition of a rule refers to is not part of it.
Meaning(text) ==
    LET rules == RulesWritten(text)
    IN  [i \in DOMAIN rules |->
            <<rules[i].corr, rules[i].detection.parses,
              IF rules[i].detection.parses THEN BuildAst(rules[i].detection)
              ELSE rules[i].detection, rules[i].logsource>>]
=============================================================================

------------------------------ MODULE RuleFiles ------------------------------
(***************************************************************************)
(* What loading makes of a rule file (loader.py, with the checks of        *)
(* categories.py): the rules it holds and the failures it counts.          *)
(*                                                                         *)
(* A text is a record of                                                   *)
(*    yaml   "ok", "error" where PyYAML raises a YAMLError, "raises" where *)
(*           it raises something else (a ValueError, for 30 February)      *)
(*    keys   has it top-level keys, to the eye                             *)
(*    head, style  what stands before the first key, and inside detection: *)
(*           comments and layout                                           *)
(*    eol    how its lines end                                             *)
(*    docs   the documents, each a record of                               *)
(*       kind       "rule", "scalar" or "null"                             *)
(*       corr       has it a correlation: "no", "yes", or "malformed"      *)
(*       fault      what is wrong with it, if anything                     *)
(*       detection, logsource, meta (tags, status, level, fields), title   *)
(*       order      the order of the keys inside detection                 *)
(***************************************************************************)
EXTENDS Arrange

CONSTANT NoText     \* there is no such file, or no such blob

Faults == {"none", "id", "date", "construct"}

-----------------------------------------------------------------------------
\* run_preflight, and then pySigma's from_dict: the category of the failure, or
\* "ok".  A condition that does not parse is not noticed before build_ast.
Preflight(doc) ==
    CASE doc.fault = "id" -> "bare_int_id"
      [] doc.fault = "date" -> "null_date_split"
      [] doc.corr = "malformed" -> "correlation_as_standard_rule"
      [] OTHER -> "ok"
ConstructRule(doc) ==
    IF Preflight(doc) # "ok" THEN Preflight(doc)
    ELSE IF doc.fault = "construct" THEN "uncategorized"
    ELSE "ok"

Category(doc) == IF doc.kind = "scalar" THEN "non_mapping_document"
                 ELSE ConstructRule(doc)

\* Mutant: a bare document marker is not seen to be empty.
NoDocumentAtAll(text) == text.docs = <<>>

NoDocument(text) == \A i \in DOMAIN text.docs : text.docs[i].kind = "null"

\* Mutant: nothing that PyYAML raises is caught.
UncaughtAnything(text) == text.yaml # "ok"

\* parse_text catches a YAMLError and nothing else.
Uncaught(text) == text.yaml = "raises"

\* parse_text: the rules and the categories of the failures.  Each document
\* is on its own, unless the text is not YAML at all.
ParseText(text) ==
    LET loads(doc) == doc.kind # "null" /\ Category(doc) = "ok"
        categories == {Category(text.docs[i]) : i \in
                       {k \in DOMAIN text.docs : text.docs[k].kind # "null"}}
    IN  [raises   |-> Uncaught(text),
         rules    |-> IF text.yaml = "ok"
                      THEN Selected(text.docs, {k \in DOMAIN text.docs :
                                                   loads(text.docs[k])})
                      ELSE <<>>,
         failures |-> CASE text.yaml = "raises" -> {}
                        [] text.yaml = "error" -> {"yaml_parse"}
                        [] text.yaml = "ok" ->
                              IF NoDocument(text)
                              THEN {"empty_or_no_documents"}
                              ELSE categories \ {"ok"}]

\* load_file.
LoadFile(text) ==
    IF text = NoText
    THEN [raises |-> FALSE, rules |-> <<>>, failures |-> {"unreadable_file"}]
    ELSE ParseText(text)

-----------------------------------------------------------------------------
(***************************************************************************)
(* mechanic scan: load_ruleset and validate_rules over the files found.    *)
(***************************************************************************)
\* load_ruleset: no file is isolated from what parse_text does not catch.
ScanRaises(files) == \E f \in DOMAIN files : LoadFile(files[f]).raises

\* validate_rules: the failures are those of the validators that crash on a
\* standard rule, and belong to its file.  crashing tells them apart.
ValidateRules(files, crashing) ==
    {f \in DOMAIN files : \E i \in DOMAIN LoadFile(files[f]).rules :
                             /\ LoadFile(files[f]).rules[i].corr = "no"
                             /\ f \in crashing}

\* A failure record: its file, and the stage it happened in.
Failures(files, crashing) ==
    {[file |-> f, stage |-> "load"] :
        f \in {g \in DOMAIN files : LoadFile(files[g]).failures # {}}}
    \cup {[file |-> f, stage |-> "validate"] :
             f \in ValidateRules(files, crashing)}

\* ScanResult.files_ok and files_failed, as sets of files.
FilesOk(files) == {f \in DOMAIN files : LoadFile(files[f]).rules # <<>>}
FilesFailed(files, crashing) ==
    {r.file : r \in {r \in Failures(files, crashing) : r.stage = "load"}}
=============================================================================

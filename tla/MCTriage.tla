------------------------------- MODULE MCTriage -------------------------------
(***************************************************************************)
(* Two rule files: one yet to be created, in one of many shapes, and a     *)
(* plain one that is there since a bulk import.                            *)
(***************************************************************************)
EXTENDS TriageProps, TLC

Trait(role, identity, always, action) ==
    [role |-> role, identity |-> identity, always |-> always, action |-> action]
MCFieldTable ==
    ("" :> Trait("GENERIC", "none", FALSE, FALSE)) @@
    ("EventID" :> Trait("DATA_SOURCE_SELECTOR", "none", FALSE, FALSE)) @@
    ("Image" :> Trait("BINARY_IDENTITY", "path", FALSE, FALSE)) @@
    ("OriginalFileName" :> Trait("BINARY_IDENTITY", "metadata", FALSE, FALSE)) @@
    ("ScriptBlockText" :> Trait("ATTACKER_AUTHORED_TEXT", "none", FALSE, FALSE)) @@
    ("GrantedAccess" :> Trait("FUNCTIONAL_CONSTRAINT", "none", FALSE, FALSE)) @@
    ("LogonType" :> Trait("GENERIC", "none", TRUE, FALSE)) @@
    ("eventName" :> Trait("GENERIC", "none", FALSE, TRUE)) @@
    ("DestinationIp" :> Trait("GENERIC", "none", FALSE, FALSE))

Shape(marks, basename) == [marks |-> marks, basename |-> basename]
MCValueTable ==
    ("" :> Shape({}, "")) @@
    ("null" :> Shape({"null"}, "")) @@
    ("4688" :> Shape({}, "")) @@
    ("tool.exe" :> Shape({"string", "exe", "known", "executable"}, "tool")) @@
    ("at" :> Shape({"string", "known", "short"}, "at")) @@
    ("word" :> Shape({"string"}, "word")) @@
    ("10.0.0.1" :> Shape({"string", "ioc"}, "10.0.0.1")) @@
    ("lsass" :> Shape({"string", "protected"}, "lsass")) @@
    ("sts.amazonaws.com" :> Shape({"string", "cloud"}, "sts.amazonaws.com")) @@
    ("OriginalFileName" :> Shape({"string"}, "originalfilename"))

Item(field, values) == [item |-> "values", field |-> field, values |-> values,
                        all |-> FALSE, ref |-> FALSE]
Items(link, of) == [item |-> "list", link |-> link, of |-> of]

Tool == Item("Image", <<"tool.exe">>)
Ioc == Item("DestinationIp", <<"10.0.0.1">>)
Word == Item("Image", <<"word">>)
Access == Item("GrantedAccess", <<"4688">>)
Event == Item("EventID", <<"4688">>)

Detection(selection, other, filter, cond) ==
    [parses |-> TRUE,
     selections |-> [selection |-> selection, other |-> other,
                     filter |-> filter],
     conditions |-> <<cond>>]
Only == Named("selection")
Sel(selection) == Detection(selection, Tool, Word, Only)

Doc(detection) == [kind |-> "rule", corr |-> "no", fault |-> "none",
                   detection |-> detection, logsource |-> 0, meta |-> 0,
                   title |-> 0, order |-> 0]
Text(docs) == [yaml |-> "ok", keys |-> TRUE, head |-> 0, style |-> 0,
               eol |-> 0, docs |-> docs]
Rule(detection) == Text(<<Doc(detection)>>)

MCShapes == {
    Rule(Sel(Items("and", <<Event, Tool, Ioc>>))),
    Rule(Sel(Items("or", <<Ioc, Items("and", <<Access, Word>>)>>))),
    Rule(Sel(Items("and", <<Item("EventID", <<"4688", "4688">>)>>))),
    Rule(Sel(Item("Image", <<>>))),
    Rule(Sel(Item("Image", <<"null", "tool.exe">>))),
    Rule(Sel([Item("Image", <<"tool.exe", "word">>) EXCEPT !.all = TRUE])),
    Rule(Sel([Item("Image", <<"OriginalFileName">>) EXCEPT !.ref = TRUE])),
    Rule(Sel(Items("and", <<Item("eventName", <<"word">>),
                            Item("", <<"sts.amazonaws.com">>)>>))),
    Rule(Detection(Item("OriginalFileName", <<"tool.exe">>), Ioc, Tool, Only)),
    Rule(Detection(Item("Image", <<"at">>), Item("LogonType", <<"4688">>), Word,
                   Cond("any", <<"selection", "other">>))),
    Rule(Detection(Tool, Item("ScriptBlockText", <<"tool.exe">>), Word,
                   Cond("all", <<"selection", "other">>))),
    Rule([Sel(Ioc) EXCEPT !.conditions = <<Only, Cond("any", <<>>), Named("other")>>]),
    Rule(Detection(Tool, Word, Word, Cond("any", <<>>))),
    Rule([Detection(Tool, Event, Word, Only) EXCEPT !.conditions = <<Only, Named("other")>>]),
    Text(<<Doc(Sel(Tool)), [Doc(Sel(Ioc)) EXCEPT !.kind = "scalar"]>>) }
MCPlain == Rule(Sel(Tool))
\* Versions of it are compared as text.
MCBroken == [MCPlain EXCEPT !.yaml = "error"]
MCDrafts == [a |-> MCShapes \cup {MCBroken}, b |-> {MCPlain}]
MCHistory == <<[file |-> "b", text |-> MCPlain, ago |-> 1, organic |-> FALSE]>>

MCFirstEdits == [a |-> Kinds \ {"mend"}, b |-> {"narrow", "retitle"}]
MCLaterEdits == [a |-> {"mend"}, b |-> {"widen", "retitle"}]
MCOrder == <<"a", "b">>

-----------------------------------------------------------------------------
\* For the statements that do not hold: a file of two documents, one of them no
\* rule, and two rules that were imported three days ago.
MCTwoDocs == Text(<<Doc(Sel(Tool)), [Doc(Sel(Tool)) EXCEPT !.kind = "scalar"]>>)
MCTwoKeys == Rule(Sel(Items("and", <<Event, Tool>>)))
MCThreeDrafts == [a |-> {MCTwoDocs}, b |-> {MCTwoKeys}, c |-> {MCTwoKeys}]
MCThreeOrder == <<"a", "b", "c">>
MCImported(f) == [file |-> f, text |-> MCTwoKeys, ago |-> 3, organic |-> FALSE]
MCThreeHistory == <<MCImported("b"), MCImported("c")>>
MCThreeEdits == [f \in {"a", "b", "c"} |-> {"date", "reorder", "narrow"}]
MCNoEdits == [f \in {"a", "b", "c"} |-> {}]
\* Rule b was imported with an impossible date, which has been mended since.
MCMendedHistory == <<[MCImported("b") EXCEPT !.text.yaml = "raises"],
                     [MCImported("b") EXCEPT !.ago = 2, !.organic = TRUE],
                     MCImported("c")>>
=============================================================================

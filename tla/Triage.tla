-------------------------------- MODULE Triage --------------------------------
(***************************************************************************)
(* A triage report from the texts of the rules to their labels             *)
(* (priority.build_triage_report with the passes it calls), while the user *)
(* edits, commits and deletes rule files.                                  *)
(*                                                                         *)
(* The report mines the history once, lists the rule files three times,    *)
(* compares committed versions, and at the end scores what it then reads   *)
(* in the working tree.  Renames and the share that makes a commit         *)
(* mechanical are left to ChurnHistory: here a commit of one file is       *)
(* organic or it is not.                                                   *)
(***************************************************************************)
EXTENDS Priority, Fragility, SemanticDiff

CONSTANTS
    Drafts,         \* rule file -> the texts it may be created with
    Order,          \* the rule files, in the order discover_files has
    History,        \* the commits there are from the start
    FirstEdits,     \* rule file -> the kinds of edits of it as it was created
    LaterEdits,     \* and afterwards
    Days,           \* author dates, 0 being the day of the report
    MaxEdits        \* bound on the edits of a behaviour

Files == DOMAIN Drafts

\* What users write leaves room for one exclusion more within MaxNesting.
Written(text) ==
    \A i \in DOMAIN text.docs :
       LET conditions == text.docs[i].detection.conditions
       IN  \A c \in DOMAIN conditions :
              conditions[c] \in ConditionsTo[MaxNesting - 1]
Drafted == {text \in Texts : Written(text)}
Commits == [file : Files, text : Drafted \cup {NoText}, ago : Nat,
            organic : BOOLEAN]

ASSUME TriageAssumption ==
    /\ Days \subseteq Nat /\ MaxEdits \in Nat
    /\ Files \subseteq STRING
    /\ Order \in Seq(Files) /\ {Order[i] : i \in DOMAIN Order} = Files
    /\ \A i, k \in DOMAIN Order : Order[i] = Order[k] => i = k
    /\ NoText \notin Texts
    /\ \A f \in Files : Drafts[f] \subseteq Drafted
    /\ History \in Seq(Commits)
    /\ MaxNesting >= 3 /\ {"other", "filter"} \subseteq SelectionNames

VARIABLES
    work,       \* the text of each file in the working tree
    log,        \* the commits of the history, oldest first
    edits,      \* the number of edits so far
    phase,      \* how far the report is
    mined,      \* the number of commits it has mined
    seen,       \* the files compute_staleness found
    seen2,      \* the files mine_organic_touches found
    seen3,      \* the files build_triage_report found
    behavioral, \* the touches compute_semantic_diff found behavioural
    read,       \* the texts build_triage_report has scored, in order
    signals     \* and what it has to say of them

vars == <<work, log, edits, phase, mined, seen, seen2, seen3, behavioral, read,
          signals>>

Kinds == {"retitle", "retag", "relog", "reorder", "restyle", "rehead",
          "reline", "redefine", "garble", "break", "mend", "date", "fault", "correlate", "malform",
          "append", "blank", "narrow", "widen", "exclude", "negate", "pipe"}

-----------------------------------------------------------------------------
(***************************************************************************)
(* The user.                                                               *)
(***************************************************************************)
Cond(op, args) == [cond |-> op, args |-> args]
Named(name) == Cond("id", <<name>>)

\* What an edit may do to the first condition of a rule.
Recondition(cond, kind) ==
    CASE kind = "narrow"  -> Cond("and", <<cond, Named("other")>>)
      [] kind = "widen"   -> Cond("or", <<cond, Named("other")>>)
      [] kind = "exclude" -> Cond("and", <<cond, Cond("not", <<Named("filter")>>)>>)
      [] kind = "negate"  -> Cond("not", <<cond>>)

\* What an edit may do to a text.
Revise(t, kind) ==
    CASE kind = "retitle"   -> [t EXCEPT !.docs[1].title = 1 - @]
      [] kind = "retag"     -> [t EXCEPT !.docs[1].meta = 1 - @]
      [] kind = "relog"     -> [t EXCEPT !.docs[1].logsource = 1 - @]
      [] kind = "reorder"   -> [t EXCEPT !.docs[1].order = 1 - @]
      [] kind = "restyle"   -> [t EXCEPT !.style = 1 - @]
      [] kind = "rehead"    -> [t EXCEPT !.head = 1 - @]
      [] kind = "reline"    -> [t EXCEPT !.eol = 1 - @]
      [] kind = "redefine"  -> [t EXCEPT !.docs[1].detection.selections["other"] =
                                  t.docs[1].detection.selections["filter"]]
      [] kind = "garble"    -> [t EXCEPT !.yaml = "error", !.keys = FALSE]
      [] kind = "break"     -> [t EXCEPT !.yaml = "error"]
      [] kind = "mend"      -> [t EXCEPT !.yaml = "ok", !.keys = TRUE]
      [] kind = "date"      -> [t EXCEPT !.yaml = "raises"]
      [] kind = "fault"     -> [t EXCEPT !.docs[1].fault = "construct"]
      [] kind = "correlate" -> [t EXCEPT !.docs[1].corr = "yes"]
      [] kind = "malform"   -> [t EXCEPT !.docs[1].corr = "malformed"]
      [] kind = "append"    -> [t EXCEPT !.docs = Append(@, @[1])]
      [] kind = "blank"     -> [t EXCEPT !.docs = <<[@[1] EXCEPT !.kind = "null"]>>]
      [] kind = "pipe"      -> [t EXCEPT !.docs[1].detection.parses = FALSE]
      [] kind \in {"narrow", "widen", "exclude", "negate"} ->
            [t EXCEPT !.docs[1].detection.conditions[1] = Recondition(@, kind)]

\* The last committed text of a file.
CommittedBefore(f, n) ==
    LET of == {i \in 1 .. n - 1 : log[i].file = f}
    IN  IF of = {} THEN NoText ELSE log[Max(of)].text
Committed(f) == CommittedBefore(f, Len(log) + 1)
Clean == \A f \in Files : work[f] = Committed(f)

Exists == {f \in Files : work[f] # NoText}

ReportUnchanged ==
    UNCHANGED <<phase, mined, seen, seen2, seen3, behavioral, read, signals>>

\* An edit of the working tree, one at a time until it is committed.
Edit(f, text) ==
    /\ edits < MaxEdits /\ Clean /\ text # work[f]
    /\ work' = [work EXCEPT ![f] = text]
    /\ edits' = edits + 1
    /\ UNCHANGED log /\ ReportUnchanged

Create(f) == work[f] = NoText /\ \E t \in Drafts[f] : Edit(f, t)
Change(f) ==
    /\ work[f] # NoText /\ work[f].docs # <<>>
    /\ \E k \in Kinds \cap (IF work[f] \in Drafts[f] THEN FirstEdits[f]
                          ELSE LaterEdits[f]) :
          /\ Written(Revise(work[f], k))
          /\ Edit(f, Revise(work[f], k))
Delete(f) == Edit(f, NoText)

\* Restores a file that was changed or deleted, without a commit.
Checkout(f) ==
    /\ work[f] # Committed(f)
    /\ work' = [work EXCEPT ![f] = Committed(f)]
    /\ UNCHANGED <<log, edits>> /\ ReportUnchanged

\* A new file may come with a bulk import.
Commit(f, ago, organic) ==
    /\ work[f] # Committed(f)
    /\ organic \/ Committed(f) = NoText
    /\ log' = Append(log, [file |-> f, text |-> work[f], ago |-> ago,
                           organic |-> organic])
    /\ UNCHANGED <<work, edits>> /\ ReportUnchanged

-----------------------------------------------------------------------------
(***************************************************************************)
(* The passes of the report, as operators on what they read.               *)
(***************************************************************************)
TouchesOf(f) == {i \in 1 .. mined : log[i].file = f}
Before(i) == CommittedBefore(log[i].file, i)

\* compute_semantic_diff: the touches of the files found that are compared.
Diffable(files) ==
    {i \in 1 .. mined : /\ log[i].file \in files
                        /\ log[i].organic
                        /\ log[i].text # NoText /\ Before(i) # NoText}
DiffRaises(files) ==
    \E i \in Diffable(files) : ChangeRaises(Before(i), log[i].text)
BucketOf(i) == ClassifyChange(Before(i), log[i].text).bucket
Behavioral(f) == {i \in behavioral : log[i].file = f}

\* days_since_behavioral_change and age_days: the latest behavioural touch,
\* the earliest touch of all.
DaysSince(f) == IF Behavioral(f) = {} THEN None
                ELSE Min({log[i].ago : i \in Behavioral(f)})
AgeDays(f) == IF TouchesOf(f) = {} \/ f \notin seen3 THEN None
              ELSE Max({log[i].ago : i \in TouchesOf(f)})

\* build_ast for the rule of a document; a correlation rule has no conditions.
RuleOf(doc) == [corr |-> doc.corr = "yes",
                ast  |-> IF doc.corr = "yes" THEN <<>>
                         ELSE BuildAst(doc.detection)]
Scored(doc) ==
    LET rank == ClassifyRule(RuleOf(doc)).rank
        parses == doc.corr = "yes" \/ doc.detection.parses
    IN  [tier        |-> IF ~parses \/ rank = Nothing THEN None
                         ELSE CHOOSE t \in Tiers : TierRank[t] = rank,
         unscoreable |-> ~parses \/ rank = Nothing]

\* Mutant: the first rule that loads is scored, whatever else is in the file.
SigmaFragilityOfAnyRule(text) ==
    IF LoadFile(text).rules = <<>> THEN [tier |-> None, unscoreable |-> TRUE]
    ELSE Scored(LoadFile(text).rules[1])

\* Mutant: what does not load has the worst tier.
SigmaFragilityByDefault(text) ==
    IF LoadFile(text).failures # {} \/ LoadFile(text).rules = <<>>
    THEN [tier |-> "IOC", unscoreable |-> TRUE]
    ELSE Scored(LoadFile(text).rules[1])

\* _sigma_fragility: of a file that loads without a failure, its first rule.
SigmaFragility(text) ==
    IF LoadFile(text).failures # {} \/ LoadFile(text).rules = <<>>
    THEN [tier |-> None, unscoreable |-> TRUE]
    ELSE Scored(LoadFile(text).rules[1])

\* build_triage_report: the rules it has, and the signals of one of them with
\* the fragility of its text.
Rows == Selected(Order, {i \in DOMAIN Order : Order[i] \in seen})
SignalsOf(f, frag) ==
    [file |-> f, commits |-> Cardinality(Behavioral(f)),
     neverRevised |-> Behavioral(f) = {},
     days |-> DaysSince(f), age |-> AgeDays(f),
     tier |-> frag.tier, unscoreable |-> frag.unscoreable]
Scoreable ==
    Selected(signals, {i \in DOMAIN signals : ~signals[i].unscoreable})
UnscoreableRules ==
    Selected(signals, {i \in DOMAIN signals : signals[i].unscoreable})

-----------------------------------------------------------------------------
(***************************************************************************)
(* The report.                                                             *)
(***************************************************************************)
UserUnchanged == UNCHANGED <<work, log, edits>>

MineCommits ==
    /\ phase = "idle" /\ log # <<>>
    /\ phase' = "mined"
    /\ mined' = Len(log)
    /\ UserUnchanged
    /\ UNCHANGED <<seen, seen2, seen3, behavioral, read, signals>>

\* Both passes over the files raise where there are none.
ComputeStaleness ==
    /\ phase = "mined"
    /\ phase' = IF Exists = {} THEN "failed" ELSE "stale"
    /\ seen' = Exists
    /\ UserUnchanged
    /\ UNCHANGED <<mined, seen2, seen3, behavioral, read, signals>>

\* Committed versions do not change while they are compared.
ComputeSemanticDiff ==
    /\ phase = "stale"
    /\ seen2' = Exists
    /\ \/ /\ Exists = {} \/ DiffRaises(Exists)
          /\ phase' = "failed"
          /\ UNCHANGED behavioral
       \/ /\ Exists # {} /\ ~DiffRaises(Exists)
          /\ phase' = "diffed"
          /\ behavioral' = {i \in Diffable(Exists) : BucketOf(i) = "behavioral"}
    /\ UserUnchanged /\ UNCHANGED <<mined, seen, seen3, read, signals>>

DiscoverAgain ==
    /\ phase = "diffed"
    /\ phase' = "classifying"
    /\ seen3' = Exists
    /\ UserUnchanged
    /\ UNCHANGED <<mined, seen, seen2, behavioral, read, signals>>

\* One rule is scored, as it is in the working tree by now.
ClassifyNext ==
    /\ phase = "classifying"
    /\ LET f == Rows[Len(read) + 1]
       IN  /\ read' = Append(read, work[f])
           /\ signals' = Append(signals, SignalsOf(f, SigmaFragility(work[f])))
    /\ phase' = IF Len(read') = Len(Rows) THEN "done" ELSE phase
    /\ UserUnchanged /\ UNCHANGED <<mined, seen, seen2, seen3, behavioral>>

EndReport ==
    /\ phase \in {"done", "failed"}
    /\ phase' = "idle" /\ mined' = 0
    /\ seen' = {} /\ seen2' = {} /\ seen3' = {}
    /\ behavioral' = {} /\ read' = <<>> /\ signals' = <<>>
    /\ UserUnchanged

-----------------------------------------------------------------------------
Init ==
    /\ log = History
    /\ work = [f \in Files |-> Committed(f)]
    /\ edits = 0
    /\ phase = "idle" /\ mined = 0
    /\ seen = {} /\ seen2 = {} /\ seen3 = {}
    /\ behavioral = {} /\ read = <<>> /\ signals = <<>>

UserStep ==
    \E f \in Files :
       \/ Create(f)
       \/ Change(f)
       \/ Delete(f)
       \/ Checkout(f)
       \/ \E ago \in Days, organic \in BOOLEAN : Commit(f, ago, organic)

ReportStep ==
    \/ MineCommits
    \/ ComputeStaleness
    \/ ComputeSemanticDiff
    \/ DiscoverAgain
    \/ ClassifyNext
    \/ EndReport

Next == UserStep \/ ReportStep

Spec == Init /\ [][Next]_vars
=============================================================================

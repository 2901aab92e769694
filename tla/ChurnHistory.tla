----------------------------- MODULE ChurnHistory -----------------------------
(***************************************************************************)
(* How a triage report counts the revisions of each rule (churn.py and the *)
(* second pass of semantic_diff.py), while the user goes on committing.    *)
(*                                                                         *)
(* A report mines the history once and then lists the rule files of the    *)
(* working tree twice: in compute_staleness and in mine_organic_touches.   *)
(* Both attribute each mined change to the file it belongs to today, by    *)
(* name, through the map of all renames; both leave out the commits that   *)
(* touch a large share of the rules.                                       *)
(*                                                                         *)
(* The model gives every file an identity the program never sees: what git *)
(* reports as an addition creates one and what it reports as a rename      *)
(* keeps it.  A merge commit has no changes in git log --name-status, so   *)
(* none is mined, and only changes of rule files are.                      *)
(***************************************************************************)
EXTENDS Naturals, Sequences, FiniteSets

CONSTANTS
    Rules,          \* the names discover_files accepts, under subdir
    Others,         \* other names of the repository
    NoName,         \* Python's None for a path
    Days,           \* author dates, 0 being the day of the report
    StaleDays,      \* STALE_DAYS
    Share,          \* mechanical_threshold, as <<numerator, denominator>>
    MaxCommits,     \* bound on the commits of a behaviour
    Reuse           \* may a name be used again after its file has left it?

ASSUME HistoryAssumption ==
    /\ Rules \cap Others = {} /\ NoName \notin Rules \cup Others
    /\ IsFiniteSet(Rules)
    /\ Days \subseteq Nat /\ StaleDays \in Nat
    /\ Share \in Nat \X (Nat \ {0})
    /\ MaxCommits \in Nat \ {0}
    /\ Reuse \in BOOLEAN

Names == Rules \cup Others
Types == {"ADD", "MODIFY", "RENAME", "DELETE"}

\* A file is the name and the commit that created it.
Files == Rules \X (1 .. MaxCommits)
NoFile == <<>>

VARIABLES
    tree,   \* the file at each name of the working tree
    log,    \* the commits of the history that touch a rule, oldest first
    phase,  \* how far the report is
    mined,  \* the number of commits it has mined
    seen,   \* the rule files compute_staleness saw
    seen2   \* the rule files mine_organic_touches saw

vars == <<tree, log, phase, mined, seen, seen2>>

Change == [old : Rules \cup {NoName}, new : Rules \cup {NoName},
           type : Types, file : Files]
Commit == [changes : SUBSET Change, ago : Days, behavioral : BOOLEAN]

\* Files, commits and reports have their types, and no file has two names.
TypeOK ==
    /\ tree \in [Names -> Files \cup {NoFile}]
    /\ \A m, n \in Names : tree[m] = tree[n] /\ m # n => tree[m] = NoFile
    /\ log \in Seq(Commit) /\ Len(log) <= MaxCommits
    /\ phase \in {"idle", "mined", "stale", "diffed"}
    /\ mined \in 0 .. Len(log)
    /\ seen \in [Rules -> Files \cup {NoFile}]
    /\ seen2 \in [Rules -> Files \cup {NoFile}]

Unseen == [r \in Rules |-> NoFile]

Init ==
    /\ tree = [n \in Names |-> NoFile]
    /\ log = <<>>
    /\ phase = "idle"
    /\ mined = 0
    /\ seen = Unseen
    /\ seen2 = Unseen

-----------------------------------------------------------------------------
(***************************************************************************)
(* The user commits.                                                       *)
(***************************************************************************)
\* Mutant: the other name of a rule file is kept, whatever it is.
KeptName(n) == n

\* _mine_commits: what is kept of one line of git log --name-status.
OrNone(n) == IF n \in Rules THEN n ELSE NoName
Mined(c) == [c EXCEPT !.old = OrNone(@), !.new = OrNone(@)]

CommitChanges(changes) ==
    /\ Len(log) < MaxCommits
    /\ \E ago \in Days, b \in BOOLEAN :
          log' = Append(log, [changes    |-> {Mined(c) : c \in changes},
                              ago        |-> ago,
                              behavioral |-> b])
    /\ UNCHANGED <<phase, mined, seen, seen2>>

Used(n) == \E i \in DOMAIN log : \E c \in log[i].changes : n \in {c.old, c.new}
Free(n) == tree[n] = NoFile /\ (Reuse \/ ~Used(n))

\* One new rule, or a bulk import.
AddRules(S) ==
    /\ \A n \in S : Free(n)
    /\ tree' = [n \in Names |-> IF n \in S THEN <<n, Len(log) + 1>>
                                         ELSE tree[n]]
    /\ CommitChanges({[old |-> NoName, new |-> n, type |-> "ADD",
                       file |-> <<n, Len(log) + 1>>] : n \in S})

\* One revision, or a mass edit.
ModifyRules(S) ==
    /\ \A n \in S : tree[n] # NoFile
    /\ CommitChanges({[old |-> n, new |-> n, type |-> "MODIFY",
                       file |-> tree[n]] : n \in S})
    /\ UNCHANGED tree

RenameFile(m, n) ==
    /\ tree[m] # NoFile /\ Free(n)
    /\ {m, n} \cap Rules # {}
    /\ tree' = [tree EXCEPT ![m] = NoFile, ![n] = tree[m]]
    /\ CommitChanges({[old |-> m, new |-> n, type |-> "RENAME",
                       file |-> tree[m]]})

DeleteRule(n) ==
    /\ tree[n] # NoFile
    /\ tree' = [tree EXCEPT ![n] = NoFile]
    /\ CommitChanges({[old |-> n, new |-> NoName, type |-> "DELETE",
                       file |-> tree[n]]})

-----------------------------------------------------------------------------
(***************************************************************************)
(* Attribution, by name.                                                   *)
(***************************************************************************)
\* A mined change, with the commit it belongs to.
MinedChanges == UNION {{i} \X log[i].changes : i \in 1 .. mined}
Renames == {t \in MinedChanges : /\ t[2].old # NoName /\ t[2].new # NoName
                                 /\ t[2].old # t[2].new}

\* _build_renamed_to: the last rename of a name wins, over all of history.
BuildRenamedTo ==
    [old \in {t[2].old : t \in Renames} |->
        (CHOOSE t \in Renames :
            /\ t[2].old = old
            /\ \A u \in Renames : u[2].old = old => u[1] <= t[1])[2].new]

\* Mutant: one rename is followed.
ResolveOnce(path, renamedTo) ==
    IF path \in DOMAIN renamedTo THEN renamedTo[path] ELSE path

\* _resolve_canonical: renames are followed until one has been followed
\* before.
ResolveCanonical(path, renamedTo) ==
    LET walk[k \in 0 .. Cardinality(DOMAIN renamedTo)] ==
            IF k = 0 THEN [at |-> path, been |-> {}]
            ELSE LET w == walk[k - 1]
                 IN  IF w.at \in DOMAIN renamedTo \ w.been
                     THEN [at   |-> renamedTo[w.at],
                           been |-> w.been \cup {w.at}]
                     ELSE w
    IN  walk[Cardinality(DOMAIN renamedTo)].at

Current(files) == {r \in Rules : files[r] # NoFile}

\* _build_exclusion: the commits that touch Share of the rules or more.
Excluded(i, files) ==
    Cardinality(log[i].changes) * Share[2]
       >= Share[1] * Cardinality(Current(files))

\* compute_staleness: the organic touches of rule r.
Touches(r) ==
    LET renamedTo == BuildRenamedTo
    IN  {t \in MinedChanges :
            /\ ~Excluded(t[1], seen)
            /\ LET touched == IF t[2].new # NoName THEN t[2].new ELSE t[2].old
               IN  ResolveCanonical(touched, renamedTo) = r}

\* Mutant: mass edits are compared as well.
DiffableOfAll(r) ==
    LET renamedTo == BuildRenamedTo
    IN  {t \in MinedChanges :
            /\ t[2].new # NoName /\ t[2].old # NoName
            /\ r \in Current(seen2)
            /\ ResolveCanonical(t[2].new, renamedTo) = r}

\* mine_organic_touches and compute_semantic_diff: the touches of rule r
\* whose two versions are compared.
Diffable(r) ==
    LET renamedTo == BuildRenamedTo
    IN  {t \in MinedChanges :
            /\ ~Excluded(t[1], seen2)
            /\ t[2].new # NoName /\ t[2].old # NoName
            /\ r \in Current(seen2)
            /\ ResolveCanonical(t[2].new, renamedTo) = r}
Behavioral(r) == {t \in Diffable(r) : log[t[1]].behavioral}

\* Mutant: a single commit is never a revision.
EverRevisedByCount(r) ==
    IF Touches(r) = {} THEN "unknown"
    ELSE IF Cardinality(Touches(r)) > 1 THEN "yes"
    ELSE "no"

\* _ever_revised.
EverRevised(r) ==
    IF Touches(r) = {} THEN "unknown"
    ELSE IF Cardinality(Touches(r)) > 1 THEN "yes"
    ELSE IF \A t \in Touches(r) : t[2].type = "ADD" THEN "no"
    ELSE "yes"

\* summary and behavioral_summary: without any organic commit a rule is not
\* counted as stale, without any behavioral one it is.
Stale(r) ==
    /\ Touches(r) # {}
    /\ \A t \in Touches(r) : log[t[1]].ago > StaleDays
StaleBehaviorally(r) == \A t \in Behavioral(r) : log[t[1]].ago > StaleDays

-----------------------------------------------------------------------------
(***************************************************************************)
(* The report.  A pass that finds no rule file raises, and ends it.        *)
(***************************************************************************)
MineCommits ==
    /\ phase = "idle" /\ log # <<>>
    /\ phase' = "mined"
    /\ mined' = Len(log)
    /\ UNCHANGED <<tree, log, seen, seen2>>

RulesNow == [r \in Rules |-> tree[r]]

ComputeStaleness ==
    /\ phase = "mined" /\ Current(RulesNow) # {}
    /\ phase' = "stale"
    /\ seen' = RulesNow
    /\ UNCHANGED <<tree, log, mined, seen2>>

ComputeSemanticDiff ==
    /\ phase = "stale" /\ Current(RulesNow) # {}
    /\ phase' = "diffed"
    /\ seen2' = RulesNow
    /\ UNCHANGED <<tree, log, mined, seen>>

EndReport ==
    /\ \/ phase = "diffed"
       \/ phase \in {"mined", "stale"} /\ Current(RulesNow) = {}
    /\ phase' = "idle"
    /\ mined' = 0
    /\ seen' = Unseen
    /\ seen2' = Unseen
    /\ UNCHANGED <<tree, log>>

-----------------------------------------------------------------------------
\* The user edits one rule at a time, or all there are.
UserStep ==
    \/ \E n \in Rules :
          \/ AddRules({n})
          \/ ModifyRules({n})
          \/ DeleteRule(n)
    \/ Cardinality(Rules) > 1 /\ AddRules(Rules)
    \/ Cardinality(Current(RulesNow)) > 1 /\ ModifyRules(Current(RulesNow))
    \/ \E m, n \in Names : RenameFile(m, n)

ReportStep ==
    \/ MineCommits
    \/ ComputeStaleness
    \/ ComputeSemanticDiff
    \/ EndReport

Next == UserStep \/ ReportStep

Spec == Init /\ [][Next]_vars

-----------------------------------------------------------------------------
\* The rules a report shows.
Reported == IF phase \in {"stale", "diffed"} THEN Current(seen) ELSE {}

\* The organic changes of the file the report shows as r, by its identity.
Own(r) == {t \in MinedChanges : t[2].file = seen[r] /\ ~Excluded(t[1], seen)}

\* A file whose name was still another when the history was mined, or that
\* has been outside the rules in between, is not followed.
Followed(r) ==
    /\ \E t \in MinedChanges : t[2].file = seen[r] /\ t[2].new = r
    /\ \A t \in MinedChanges :
          t[2].file = seen[r] => t[2].new # NoName

\* Every organic change counts for the rule whose file it changed, under
\* whatever names, and for no other: what renaming to the current identity
\* is for (_build_renamed_to), as long as no name is used twice.
TouchesFollowTheFile ==
    \A r \in Reported :
       /\ Touches(r) \subseteq Own(r)
       /\ Followed(r) => Own(r) \subseteq Touches(r)

\* _ever_revised tells from counts and types what the file's own changes
\* say: a rule created in an excluded import and edited once was revised.
EverRevisedIsTrue ==
    \A r \in Reported : Followed(r) =>
       CASE EverRevised(r) = "unknown" -> Own(r) = {}
         [] EverRevised(r) = "no" -> \A t \in Own(r) : t[2].type = "ADD"
         [] OTHER -> \E t \in Own(r) : t[2].type # "ADD"

\* behavioral_summary: "behavioral staleness must never come out lower than
\* raw staleness", as long as both passes see the same rule files.
BehaviorIsNotFresher ==
    phase = "diffed" /\ Current(seen) = Current(seen2) =>
       \A r \in Reported : Stale(r) => StaleBehaviorally(r)

\* _ever_revised's docstring, for users who do use names twice: no organic
\* commit means "every touch this file ever had was filtered out as
\* mechanical".
UnknownMeansExcluded ==
    \A r \in Reported :
       Followed(r) /\ EverRevised(r) = "unknown" => Own(r) = {}
=============================================================================

# mechanic: a TLA+ verification project

mechanic triages the maintenance of Sigma detection rules: it mines the git
history of a rule repository, separates mass edits from real revisions, decides
which changes altered what a rule detects, scores how fragile each rule's logic
is, and orders the rules by what deserves attention. It runs as a command line
and as a local web server (`mechanic gui`), which computes reports in background
jobs that survive a restart of the server.

This directory holds TLA+ models of the parts of mechanic that have state,
threads and failures, the TLC runs that check them, and theorems about them
checked by TLAPS.

    tlc -workers 2 -config JobServerAll.cfg MCJobServer.tla
    tlapm JobServerProofs.tla

## 1. The system

Paths are relative to `src/mechanic/`.

| component | state | operations | talks to |
|---|---|---|---|
| GUI job server, `gui/server.py` | `_JOBS`: Job objects (status, report, facts, Stop flag); `last_persisted_status` of each `_run_job` | load a repository, load a saved report, cancel, status, result, rule, source, history; restore at startup | job store, mining cache, priority |
| job store, `gui/job_store.py` | one SQLite table, one connection, one lock, at a fixed path per user | `save_job`, `load_all_jobs`, `mark_interrupted` | file system |
| mining timeout, `churn.py` 64-163 | a worker thread and its result | run, join, give up | commit mining |
| mining cache, `churn.py` 785-926 | a pickle per format and directory in `.mechanic_cache`, labelled with a HEAD | `mine_commits_cached` | git, commit mining |
| commit mining, `churn.py` 308-662 | none | `git log` in one batch, a traversal, file changes per commit | git |
| churn history and staleness, `churn.py` 665-782, 929-1138 | none | rename map, mass-change exclusion, organic touches, staleness per rule, health of the history | discovery |
| semantic diff, `semantic_diff.py`, `ast_repr.py` | a `git cat-file` process | classify one change, summarise a rule's changes | churn, git |
| priority triage, `priority.py` | none | staleness and fragility bands, the priority matrix, the report | all of the core |
| fragility, `fragility.py`, `structural_detectors.py`, `field_semantics.py` | none | tier of an atom, combination over the detection | loader |
| loading and discovery, `loader.py`, `discovery.py`, `categories.py` | none | walk, parse, construct, validate, count failures | file system |
| browser client, `gui/static/app.js` | job id, report, poll timers | load, poll, stop, show, restore from the address | job server |
| reference data, `protected_literals.py`, `refdata.py` | fixed tables | look up | |
| command line, `cli.py` | none | one sequential command at a time | all of the core |
| legacy scoring, `legacy_v1.py`; `experimental/`; PDF builders | none | | |

**How they interact.** A load request registers a Job, writes its row and starts
a runner thread (`_run_job`). The runner asks the cache for the mined history; on
a miss the cache starts a worker thread to mine and waits at most 1800 seconds
for it. Runner and worker report progress through one closure, `progress_cb`,
which looks at the Stop flag (and raises `JobCancelled`), sets the stage under
`_JOBS_LOCK`, and writes the row when the stage has changed. The runner then
computes staleness, semantic diff and classification, and sets the outcome. The
page polls the status and fetches the result when it reads `done`. When the
process dies, the next one reclassifies the rows that are still running as
`interrupted`, loads every row, and mines again, in the background, the history
of the done ones.

**What is hard.**

* two threads of one job write the same Job, and one outlives the other when
  mining times out;
* the Stop flag, the stage, the comparison with the last stage written, the
  report encoded for the row and the row itself are handled at five different
  moments, two of them under two different locks;
* the process dies at any of them, and a row write may fail without notice;
* several server processes share the one database of a user;
* the user moves HEAD while the history is read, in three separate reads;
* cache files are written in place with no lock;
* the calls of the page overlap, are answered out of order, and are answered by a
  server that may have restarted meanwhile;
* a rule file is broken, mended, edited and deleted while a report runs that
  mines the history once, lists the files three times, and reads the working tree
  last; and how a change is classified depends on which of its two versions can
  be parsed.

**What makes each component correct.** The job server: an outcome, once
reached, is what memory, row, and restarted memory show, a report is never lost
and never fabricated, and every job ends. The cache: an answer is about the
directory asked for and misses nothing that was there when it was asked. Churn
history: each touch counts for the rule it touched, whatever its names. Semantic
diff and fragility: combination rules that neither hide nor invent a change or a
tier. Loading: every file is counted once. The client: it shows the job that was
loaded last and stops polling when that job has ended.

`PROJECT.json` lists each of these hazards with the line where it bites and the
properties that cover it.

## 2. The modules

| module | what it holds |
|---|---|
| `JobServer` | jobs, threads, rows, processes: one action per step between two points where another thread can run |
| `JobServerProps` | the answers over HTTP, the properties, the refinement of `JobLifecycle` |
| `JobLifecycle` | abstract specification: the life of a job as a client and the database see it |
| `JobServerProofs` | the inductive invariant of `JobServer` and the safety theorems |
| `JobServerFinality` | theorems: done rows and served answers stay; one server never shows a job nobody computes, and implements `JobLifecycle`; rows follow the stages |
| `MCJobServer` | instances for TLC |
| `MiningCache` | calls of `mine_commits_cached`, the cache files, HEAD, with the properties |
| `MiningCacheProofs` | theorems about it |
| `MCMiningCache` | instances for TLC |
| `ChurnHistory` | a history of rule files, the passes of a report over it, and the properties |
| `ChurnHistoryProofs` | theorems about it |
| `MCChurnHistory` | instances for TLC |
| `Tiers` | the tiers and their ranks |
| `Arrange` | filtering and sorting of sequences, said without recursion |
| `Priority` | bands, labels, the priority matrix, the counts and orderings of a report |
| `Atoms` | the tier of one `field = value` criterion |
| `RuleAst` | detections, conditions and the syntax tree built of them |
| `Fragility` | structural detectors, the tier of a whole rule; what a tier means |
| `FragilityProofs` | theorems and lemmas about criteria, trees and tiers |
| `RuleFiles` | what loading and a scan make of a text |
| `SemanticDiff` | the classification of one change |
| `Triage` | a report over rule files a user edits, composed of the eight above |
| `TriageProps` | its properties |
| `TriageProofs` | the inductive invariant of `Triage`, a theorem for each of those properties, and the theorems about `Priority` |
| `MCTriage` | instances for TLC: the rule shapes, the registries' entries |
| `GuiClient` | the page over `JobLifecycle` |
| `GuiClientProps` | its properties |
| `GuiClientProofs` | the inductive invariant of the page and its theorems |
| `MCGuiClient` | instances for TLC |
| `Induction` | the induction the proofs above use: over numbers, and of a step repeated |

### 2.1 JobServer

| variable | code |
|---|---|
| `mem[p][j]` | `_JOBS` of process `p`: status, whether there is a report, whether there are facts, the Stop flag |
| `row[j]` | the row: status, and whether `report_json` is there |
| `up[p]` | the process: down, after `mark_interrupted`, serving |
| `owner[j]` | the process whose request created the job |
| `pc[t][j]` | the threads of a job: the load request, the saved-report request, the runner, the mining worker |
| `stage`, `ticks` | the stage the computation has reached and the callbacks made in it |
| `last[j]` | `last_persisted_status` |
| `encoded[t][j]` | the local `report_json` of `save_job` |
| `history[p][j]` | a running `_mine_for_history_async` |
| `outcome[j]` | history variable: the outcome the runner reached |

Steps follow the code's own order. `progress_cb` is six of them: `CheckCancel`
(Stop flag, outside the lock), `SetStage` (under `_JOBS_LOCK`), `CompareStatus`
and `NoteStatus` (outside it again; each reads the status back, as the code
does), then `EncodeReport` and `WriteRow`, the two halves of `save_job`. `EncodeReport` and
`WriteRow` are shared by all four threads. Ending a job is a `Finish...` action,
which sets the outcome under the lock, followed by the same two halves. An
orphaned worker goes on through the same actions as a live one.

What is abstracted: of a report, only whether there is one; of an error, its
text; `done`, `total` and `detail`, which nothing reads back; times. A report is
encoded from an object no thread changes once it is set. `cache_hit` is shown as
`mining`, as the code does. `_restore_jobs_from_disk` is two steps, between which
nothing is served; a row that appears between them (from another process) is
loaded as it is.

The worker reports every 250 commits, so a small repository never reports
mining, and `MineCommits` may happen no time at all or up to `MaxTicks` times.
`DiskCanFail` lets any row write do nothing, which is what `_persist` makes of a
failure. A statement executed but not committed, on the connection the jobs
share, is not modelled: a failed write leaves the row as it was.

### 2.2 MiningCache

A call is `Call` (HEAD is read), `CacheHit` or `CacheMiss`, `GitLog` (the batch),
`Walk` (the traversal: a commit without an entry in the batch has no changes and
is dropped), `OpenCache` (the file is truncated), `DumpCache`; `Raise` ends it at
any point of mining or writing, which stands for git errors, timeouts, a full
disk and the death of the caller's process. `MoveHead` is the user. File names
are sequences of characters, because `_cache_path` turns both separators into an
underscore and `mine_commits` unifies them and strips the trailing ones, and the
two are not the same function.

The worker that a timeout leaves behind never writes the cache: the write is in
the caller, after the join. `fmt` goes into the file name unchanged and is fixed.
A pickle is written in one piece.

### 2.3 ChurnHistory

| variable | code |
|---|---|
| `tree` | the working tree: which file is at each name |
| `log` | the commits of the history, each with its mined changes (`_CommitFacts.file_changes`), its age in days, and whether its edits change what a rule detects |
| `phase`, `mined` | how far `build_triage_report` is, and the commits it has mined |
| `seen`, `seen2` | the result of `discover_files` in `compute_staleness` and in `mine_organic_touches` |

The user's actions (`AddRules`, `ModifyRules`, `RenameFile`, `DeleteRule`) commit,
one file at a time or every rule at once. They may come between any two steps of
a report, which mines once and then lists the rule files twice. Names of `Others`
stand for paths outside the analysed directory and for files of another type; of
a rename between the two sides `_mine_commits` keeps only the side that is a rule.

The program knows files by name only. The model gives each one an identity, the
name and the commit that created it, carried along by renames; it is part of the
change so that the properties can compare, and no modelled operation of the
program reads it. What git reports as a rename is taken as the truth: a rename
that git shows as a deletion and an addition is, for this model, a new file.

The attribution is translated from the code: `BuildRenamedTo`, `ResolveCanonical`
with its guard against cycles, `Excluded` with its exact comparison, `Touches`
(which takes the new name, or the old one of a deletion), `Diffable` (which drops
creations and deletions), `EverRevised`, and the opposite defaults of raw and
behavioural staleness for a rule without touches.

What is abstracted: authors, the sensitivity table and the raw commit volume,
which change nothing else; how one change is classified, which is a free choice
for each commit; dates, given as days before the report, in any order, because
author dates are. Merge commits have no name-status lines and are not in `log`,
and neither are commits that touch no rule. Uncommitted changes of the working
tree are not modelled.

### 2.4 Triage

| variable | code |
|---|---|
| `work`, `log` | the texts of the rule files in the working tree; the commits, each of one file, with the text it left, its age in days and whether it is organic |
| `edits` | bound: edits so far |
| `phase`, `mined` | how far `build_triage_report` is, and the commits in its `all_facts` |
| `seen`, `seen2`, `seen3` | the three results of `discover_files`: in `compute_staleness`, in `mine_organic_touches`, and for `current_rel` |
| `behavioral` | `behavioral_dates` of all rules, as the commits they come from |
| `read` | the texts `_sigma_fragility` has read, in order |
| `signals` | the `RuleSignals` made so far |

A text is a record, not characters (`RuleFiles`): whether PyYAML accepts it,
refuses it with a `YAMLError`, or raises something else; whether the eye finds
top-level keys; its comments, its layout and how its lines end; and its documents, each with what the
loader, the classification and the scoring tell apart. The detection of a
document is what pySigma makes of it: items of a field and its values, and
conditions over named selections. `BuildAst` turns that into the tree of
`ast_repr.py`, over which `Fragility` runs the structural detectors and
`CombineAstTier`, and which `SemanticDiff` compares. What nests does so to a
bound, as in Python: a detection and a condition to `MaxNesting` levels, the tree
of the two to twice that and the two levels of a selection and its values
(`MaxHeight`). Each kind is built level by level (`ItemsTo`, `ConditionsTo`,
`TreesTo`), and an operator over one is a recursive function on it, which the
prover can reason about where it cannot about a `RECURSIVE` operator. An edit that
would nest a condition deeper is not made, and one level is kept free (`Written`),
because `FilterIsNoiseReduction` asks about one exclusion more. The registries of
`field_semantics`, `protected_literals` and `refdata` are data, the constants
`FieldTable` and `ValueTable`: the run gives the names and values its rules use the
traits they have in those tables, and the theorems hold for any tables.

`SemanticDiff` is the waterfall of `classify_change` (syntax trees; keys of each
pair of documents; text of the top-level sections), with the exits by which each
stage hands over to the next. `Priority` is `RuleSignals` to label: both axes, the
matrix, the hypotheses, the counts, the three orderings with Python's `or` on a
number that may be 0 or None.

The user's actions (`Create`, `Change`, `Delete`, `Checkout`, `Commit`) are
external and may come between any two steps of a report. One edit is open at a
time. Renames and the threshold for mass edits are `ChurnHistory`'s; here a commit
is organic or not. `ScanRaises`, `Failures`, `FilesOk` and `FilesFailed` are `mechanic
scan`, a pure function of the same files, asked in every state.

What is abstracted or left out: the negation of a single item (only a processing
pipeline sets it), the parameters kept for the ablation study, wildcards and
regular expressions (a value's traits say what it matches), and every sentence
written about a rule.

### 2.5 GuiClient

| variable | code |
|---|---|
| `shown`, `durable` | the server's jobs and rows, by `JobLifecycle` |
| `up`, `asked` | the server; the jobs whose Stop flag is set |
| `calls[c]` | where a call of the API stands: idle, sent, or answered and on its way back |
| `jobId`, `report` | `state.jobId`, and the job of `state.report` |
| `overview` | the job whose overview and controls are rendered |
| `timers` | the jobs with an interval |
| `progress`, `stopOff`, `panel`, `banner` | what is visible |
| `issued`, `finished` | history variables: jobs created, jobs that were ever done |
| `loads`, `clicks`, `crashes` | bounds |

The page is single-threaded; what makes it concurrent is that its calls leave,
are answered (`Serve`) and come back (`Deliver`) at three different moments, and
that the interval sends a poll every 600 ms whether or not the last one was
answered. A call is identified by kind, job and turn, so several of a kind can be
under way for one job and overtake each other. `Deliver` runs the whole callback of
its kind. The server is `JobLifecycle` with its endpoints in front, a Stop flag,
crashes that cut answers off, and the two steps of a restart: what the page is
promised of a job is just what `ImplementsLifecycle` shows of the server. `Init`
covers a page opened with a job in its address, whatever state that job is in.
Left out: the legend, the charts, the filters and the order of the rows, the
tabs of a rule and the list of recent repositories.

## 3. The runs

| run | instance | checks | result |
|---|---|---|---|
| `JobServerOne` | 1 process, 2 jobs, failing writes, mining within its budget | `TypeOK`, `RunningHasThread`, `StageIsRecorded`, `ImplementsLifecycle`, `JobSettles` | pass |
| `JobServerAll` | 2 processes, 1 job, timeouts, failing writes | `DoneHasReport`, `NoFalseOutcome`, `AnswersKeepStanding`, `DoneRowIsFinal` | pass |
| `JobServerOrphan` | 1 process, 1 job, timeout | `EndedStaysEnded` | violated |
| `MiningCacheForward` | 2 callers, 3 directories on 2 files, 3 commits, HEAD moves forward | `TypeOK`, `AnswersItsRequest`, `NeverStale`, `CallEnds` | pass |
| `MiningCacheCheckout` | 1 caller, HEAD moves anywhere | `HitIsKeyed` | violated |
| `ChurnHistory` | 4 rule names and 1 outside, 4 commits, threshold 2/3, no name used twice | `TypeOK`, `TouchesFollowTheFile`, `EverRevisedIsTrue`, `BehaviorIsNotFresher` | pass |
| `ChurnHistoryReuse` | 3 rule names, names may be used again, one date | `UnknownMeansExcluded` | violated |
| `Triage` | 2 rule files, 16 first texts, 2 edits, conditions nested up to 5 deep, ages 0 and 2 days | `TypeOK`, `TierIsEvasionCost`, `FilterIsNoiseReduction`, `ScoredFilesLoad`, `EveryFileAccounted`, `NeverRevisedIsTrue`, `CosmeticsDoNotRefresh`, `OnlyBadDatesFail`, `AllRulesCounted`, `AttentionAgreesWithLabels`, `LongestStaleFirst` | pass |
| `TriageFaults` | 3 rule files, one of which once had an impossible date, no edits | `FaultsAreIsolated` | violated |
| `TriageKeyOrder` | 3 rule files, 2 edits, ages 0 and 1 day | `KeyOrderDoesNotRefresh` | violated |
| `TriageToday` | the same | `StalestFirstOfAll` | violated |
| `GuiClient` | 2 jobs, 2 calls under way, 2 loads, crashes or orderings | `TypeOK`, `ReportsWereDone`, `OneLoadOneReport`, `OneLoadShowsProgress`, `StopIsNotLost`, `PollingEnds`, `FinishedLoadIsShown`, `ProgressEnds` | pass |

**JobServerOne** asks whether the server, under the conditions its documentation
describes, keeps the promise of `JobLifecycle`: an outcome is final, the row never
says more than memory did, a restart shows exactly the rows with the running ones
interrupted. `RunningHasThread` says that a job shown as running is being worked
on, and `JobSettles` that it ends. `StageIsRecorded` says that the one
`last_persisted_status`, which runner and worker compare and set outside the lock,
misses no change of stage between two callbacks, and, where writes succeed, that the
row shows the stage. Two jobs are enough for the interference there
is between jobs (restart loads all of them, a new job appears between a crash and
another's restart); jobs share no variable of their computation.

**JobServerAll** drops those conditions and asks what still holds. Two processes
are enough because a process only meets another one through a row, which the
other either reclassified, wrote, or loaded; one job is enough because rows of
different jobs are independent. `MaxTicks = 2` gives every stage that repeats a
second callback, the one that finds the stage already written. The theorems
prove the four properties for all values of these bounds.

**The violated runs** each check a sentence of the source that the code does not
keep, on the smallest instance:

* `EndedStaysEnded`: after a mining timeout the job is `error`; the abandoned
  worker's next callback sets it to `mining` and writes that row. No thread ends
  it again, and after a restart it is `interrupted`.
* `HitIsKeyed`: HEAD is read at A, B is checked out before `git log` runs, and
  the history of B is stored under the label A.
* `UnknownMeansExcluded`: `a` is added, renamed to `b`, and a new `a` is added. The
  rename map holds for all of history, so the addition of the new `a` counts for
  `b`, and the report shows `a` as a rule all of whose commits were mechanical.
* `FaultsAreIsolated`: PyYAML raises a `ValueError`, no `YAMLError`, for a date like
  2023-02-30, and nothing catches it. The run has a rule that was imported with such
  a date and mended: the report compares the two versions, and fails for every rule.
  Such a date in the tree ends a scan as well, and a file with a good document and
  one that does not construct is counted in `files_ok` and in `files_failed`.
* `KeyOrderDoesNotRefresh`: the syntax tree lists the items of a selection as they
  are written, so a commit that swaps two keys is behavioural.
* `StalestFirstOfAll`: of two narrowed rules of a tier the one changed today, three
  days old, is listed before the one changed yesterday: `or` takes 0 for missing
  and goes on to the age.

Some of these have a passing property beside them that makes an exception for the
case and says what is true in all others: `AnswersItsRequest` and `NeverStale`
(directories of different file names, HEAD moving forward), `EveryFileAccounted`
(files of one document), `OnlyBadDatesFail` (all other versions and files),
`CosmeticsDoNotRefresh` (the same order of keys), `LongestStaleFirst` (no rule
changed today).

**Further configurations.** Beside the runs there are smaller instances, each for one
more question. The first passes; each of the others shows a second trace or another
sentence that is not kept:

* `JobServerStages.cfg` (`MCJobServer`): `StageIsRecorded` where writes succeed and
  mining may time out, so that the row is compared too.
* `JobServerLostOutcome.cfg` (`MCJobServer`), `InterruptedHadNotEnded`: the outcome is
  in memory, and visible, before the row is written; a crash in between turns `done`
  into `interrupted`, which `job_store.py` 63-64 says only of a job that was running.
* `JobServerTwoProcs.cfg` (`MCJobServer`), `InterruptedIsDead`: a second `mechanic gui`
  runs `mark_interrupted` (before it finds that the port is taken) and marks the jobs
  the first one is computing; `job_store.py` 169-171 says their process has died.
* `MiningCacheNames.cfg` (`MCMiningCache`), `HitIsKeyed`: the directories `a/b` and
  `a_b` have one file, with no directory in its label, and HEAD does not move at all.
* `TriageBuckets.cfg` and `TriageScan.cfg` (`MCTriage`): the other two parts of
  `FaultsAreIsolated`, `EveryFileInOneBucket` (`loader.py` 187-188) and
  `NoFileKillsTheBatch` (`test_loader_adversarial.py` 1-2), each by itself.
* `GuiClientInterrupted.cfg` (`MCGuiClient`), `EveryEndIsSurfaced`: a restart marks the
  job the page polls as interrupted, for which `pollJob` has no case. It polls on and
  shows the status over a progress bar, with no notice, for ever; a failed stop relies
  on just this loop (`app.js` 208). `PollingEnds` and `ProgressEnds` except such a job.

**MiningCacheForward** lets two callers, with and without `refresh`, race over
two files while HEAD advances twice: once between any two reads of a call, and
once more between another two. Directories `a/b`, `a\b` (one directory, one file)
and `c` exercise both normalisations.

**ChurnHistory** asks whether attribution by name finds each file's own changes.
Four commits are two rules added and one of them renamed twice, or an import,
an edit, a deletion and a move out of the rules, each with a report begun anywhere among them. Four
names are what a chain of two renames needs beside a second rule, without which
every commit would touch all the rules and be excluded. With a threshold of two
thirds the same commit can be organic for one listing of the rules and excluded
for another. The name
outside the rules lets a file leave and come back. `TouchesFollowTheFile` makes
two exceptions, which are what the code does: a file that has been outside the
rules is not followed back to its earlier name (a rename map of rule names cannot
link it), and a file renamed between mining and discovery is listed under a name
the mined history does not know. Deadlock cannot occur in it: a report can always
be started, continued or ended once there is a commit.

**Triage** asks what the report's words mean. A tier is an evasion cost:
`TierIsEvasionCost` compares the combination of tiers with `StillFires`, a
definition that combines nothing and evaluates the rule for an attacker of a
given reach. It asks so of `Plain` rules only: those whose exclusions exclude, and
in which what does not count (an excluded criterion, an event id beside others) is
no alternative to what does, within a condition or as a condition of its own.
`NeverRevisedIsTrue` compares the classification with `Meaning`, what a text makes
its rules match: the trees of their conditions, so that a selection no condition
refers to is no part of it. `CosmeticsDoNotRefresh` compares it with `Logic`, the
detection as it is written, because a change of such a selection, where one
version is compared by keys, counts as behavioural. The rest are
relations between passes and tables that were written separately: scan against
scoring, summary against labels, counts against files.

File `a` is created in one of 16 shapes, chosen so that every branch of the tree,
the detectors and the atom scoring is taken by one of them, and is edited once;
`b` is there since a bulk import and is edited in turn, so a report meets a rule
with a revision beside one that may have none, in either order of freshness. Two
edits are what "break, then mend" and "change, then reword" take. With
`StaleDays = RecentDays = 1` and ages 0 and 2 each band has an age, and age 0 is
the case where Python's `or` takes 0 for missing. Edits, deletions and restored
files fall between any two steps of the report. Deadlock is checked.

**GuiClient** asks what a user can rely on. Two jobs are what it takes for the
answers of one load to arrive during another; two calls under way are what it
takes for one to overtake another, or for a poll to be answered twice. Two events
give two loads, or a load and a crash, or a load and a change of the ordering, and
with a page opened on a job also that job with two of these. `OneLoadOneReport`,
`OneLoadShowsProgress` and `StopIsNotLost` are said of a page that loads once,
because with two loads they are false (see below). `FinishedLoadIsShown` accepts no
report only where a poll or a result of that very job failed or found no rules, and
`ProgressEnds` an endless progress only after a result that failed or over an
interrupted job: an error of some other call excuses neither. The page may be left
alone for ever, so deadlock is not checked in it.

### What the code does that a reader may not expect

Found while modelling, and stated in the models' comments as the exceptions of a
property or as the behaviour of an action. What the repository contradicts has a
run or a configuration above; of the following we found no sentence that says otherwise.

* Scoring: a selection excluded as a whole fires ABSENCE unless its name starts
  like a filter's. Criteria under two NOTs are positive, yet the combination drops
  everything under a NOT. An event id inside an OR does not count, so that the OR
  is rated by its other alternatives.
* Boundaries: churn counts the day `RECENT_DAYS` as recent, priority does not.
* Classification: a change between two texts without a recognizable key is
  unknown, and counts for nothing, as the module's docstring says; so is one no
  section shows, unless the lines are the same and only their ends changed, which
  is cosmetic.
* History: a rule that leaves the analysed directory and comes back keeps only
  what it did since.
* Three listings: a rule deleted between the first and the second is listed, is
  unscoreable, and is called never revised.
* Page: a result that fails leaves the progress area as it is. Choosing a recent
  repository while the load panel is hidden shows neither progress nor errors.
  Stop, pressed while the POST of a second load is unanswered, cancels the first
  job and stays disabled. An earlier load that finishes hides the progress of a
  later one. A late answer to the ordering list puts one job's table beside
  another's overview, and the source and history tabs may show an answer for the
  rule opened before.

### Fairness

`JobServer`'s `FairSpec` asks weak fairness of each job's request, runner and
worker: a Python thread that can run is eventually scheduled, `sqlite` and git
calls return (git with its own timeouts), and a history and a rule set are
finite, which `MaxTicks` stands for. The runner's fairness covers `JoinWorker`
and `FinishError` when the worker has ended. Nothing is asked of users, of
crashes or of restarts: a job whose process dies has settled by no longer being
shown. `JobSettles` is checked without timeouts, because with them it is false
(the orphan above). `MiningCache` asks weak fairness of each call's own steps
and nothing of the user who moves HEAD; what a call waits for is bounded by the
timeouts of its git commands. `GuiClient` asks weak fairness, for each job, of
answering its calls, of delivering the answers, and of its end (which is
`JobSettles` of the server), and strong fairness of its interval: an interval goes
on, and a browser with too many calls under way sends the others in order, so a
poll that is possible again and again is sent. Nothing is asked of the user, of
crashes, or of a server that is down: polls then fail, which ends them.

## 4. The proofs

Assumed: `NoProc` is not a process, `MaxTicks` is a positive number, the two flags
are Booleans (`ConstantsAssumption`). Except where a hypothesis is named, nothing is
assumed about how many processes and jobs there are, or that mining ends in time,
or that writes succeed.

`JobServerProofs!IInv` is inductive. `DoneHasReport` and `NoFalseOutcome` are not
by themselves, because a step that writes a row or sets a stage is only harmless
given where the other threads are:

* `HomeInv`, `RequestInv`: threads run in the process that created the job, while
  it is up, and a creating request has ended before the other threads start;
* `RunnerInv`: a computing runner has reached no outcome; once it has, memory
  shows it, except for `error`, which an orphaned worker may have overwritten;
* `WorkerInv`: a live worker is being joined, or its job has ended in `error`.
  This is the heart of the argument: whatever an orphan does, it does to a job
  that has no report and never gets one;
* `EncodedInv`: the report found before the lock is still the job's report when
  the row is written under it. This holds because no report is set between two
  halves of a save: the runner that sets it is the only thread left;
* `UnusedInv`, `DownInv`: an id not handed out, and a process not serving, show
  nothing.

One lemma per action shows that it keeps `IInv`; `MoveInv` and `TableInv` serve
the actions that only move a thread. From it follow `TypeCorrect`,
`DoneRowsCarryReports` and `OutcomesAreTrue`, and, in `JobServerFinality`, the two
action properties `DoneRowsStay` and `AnswersStay`: any thread about to write a
row that is done holds a done job, and no computing thread holds one.

`JobServerFinality` also proves, from `OneServer` (one process, no mining past its
budget, any number of jobs, rows that may fail to be written), `RunningJobsHaveThreads`
and `ServerImplementsLifecycle`. `AloneInv` is added to `IInv` for this: `WorkerJoined`,
which is what a timeout breaks; `SealedIsShown`, so that the last row a runner writes
is that of a job; and `MarkedIsEnded`, which a second process would break by writing
a running row between the startup pass and the restore. Each action's lemma then
says what it does to the statuses shown (`LoadShows`, `SetStageShows`, `FinishShows`,
`ServerShows`, `FlagsShow`), and these serve twice, for the invariant and for the step
of the lifecycle it maps to: a load is `Submit`, the end of `_run_job` is `End`, a row
written is `Record`, death is `Die`, `mark_interrupted` is `Reclassify`, the restore is
`Reveal`, and a change of stage stutters, because it only happens to a job seen as
running. `InterruptedHadNotEnded`, `EndedStaysEnded` and `InterruptedIsDead` are
not part of that promise; section 3 describes how they are refuted.

`StagesAreRecorded` is proved from `SureServer` (one process, rows that are written,
mining that may time out), by `StageInv`: at each point of a callback, which two of
the row, `last_persisted_status` and the Job agree. `OneCallback` is what it rests
on, that a computing runner and its worker are never both in one: an orphan may
be, but its runner computes no more.

`MiningCacheProofs` proves, for any callers, directories and histories,
`CacheTypeCorrect`; `NotStale`, from the hypothesis `ForwardOnly` that HEAD only
moves to commits that contain the one it leaves, by an invariant that orders the
four histories of a call (its label's, the batch's, the facts', HEAD's); and
`RequestsAnswered`, from `NamesDistinct`, that directories with one file name
have one prefix. The two hypotheses are exactly what `MiningCacheCheckout` and
`MiningCacheNames.cfg` drop.

`ChurnHistoryProofs` proves, for any names, threshold, dates and number of
commits, and whether or not names are used twice (`HistoryAssumption`),
`HistoryTypeCorrect`, from `TypeInv`, which adds that no file of the tree comes
from a commit yet to be made (`CreatedInv`; without it a new file could be one that
is already at another name), and `BehaviorNeverFresher`. The second rests on
`DiffableIsTouched`: when both passes list the same rules they exclude the same
commits, so every touch that is compared is one that counts, and a rule that is
stale by all its touches is stale by those found behavioural.

For histories in which no name is used twice (`~Reuse`, as in the run `ChurnHistory`;
without it the two are false, which `ChurnHistoryReuse` shows) it also proves
`TouchesFollowFiles` (`TouchesFollowTheFile`) and `EverRevisedAsItWas` (`EverRevisedIsTrue`).
`HistoryInv` says what such a history is: a name belongs to one file (`OneOwner`), what
has left a name or ended does not come back (`LeftIsGone`, `GoneIsLeft`, `LeftOnce`), a
file is added before anything else happens to it, and a name is left for one other
name (`OneNameLeft`). `SeenOwner` follows the rules a report has listed back to their
files while the user goes on committing. What is left is the walk of
`_resolve_canonical` itself. `Tells(C)` says that the changes `C` of one file tell one
story, ending at the file's name, and `ResolveFollows` and `ResolveReaches` say that the
walk along the rename map stays with the file and gets to that end. A walk of any
length is an induction over data, which the prover's induction rule (a theorem about
an operator) cannot be used for; `Induction` states it about sets instead: a set of
numbers that holds 0 and with each number the next holds all of them
(`SetInduction`), and a step from a set to itself can be repeated (`Iteration`).

`GuiClientProofs` proves, for any number of jobs, calls, loads and crashes
(`GuiClientAssumption`), `TypeCorrect` and `OnlyDoneIsShown`. `ReportsWereDone` is not
inductive: a result is asked for after a poll said done, so its invariant follows
that word from the job that ended (`DoneIsFinished`, which covers the row a restart
reads) to the answers on their way (`CallsAreTrue`) and the page (`PageIsTrue`).

The second part of the module adds, on top of that invariant, what holds of a page with one load:
`LoadedIsShown`, `LoadingIsShown` and `StopIsTold`. Its invariant `OneLoad` puts the
phases of a load in order: while it is unanswered nothing else is asked; then every
call is about its job; once the result is asked for, the interval has stopped, and
only a second load would start one again. `Stopping` follows a stop: a cancel that
was answered found its job, or nothing running.

`TriageProofs` proves every property of `TriageProps`, for any rule files and texts,
registries, history, thresholds, number and order of edits, and nesting. It assumes
`TriageAssumption`, `RuleAstAssumption`, `AtomsAssumption` and `PriorityAssumption`:
that the constants have their types, that `Order` lists each file once, that
conditions may nest three deep, and that two names of selections exist which the
edits use, one of them a filter's.

`TypeOK` is not inductive, because a report reads work tree and log at different
moments, and `ReportSoFar` adds what it has read:

* while a report has nothing scored, `read` is empty; once begun, it has a file,
  and it is `done` exactly when it has read as many texts as it found files;
* once it has compared the commits, `behavioral` is what `ClassifyChange` says of
  the log up to `mined`, and no compared text raised;
* the signals of each rule are those of the text in `read`, not of the text now in
  the work tree;
* a report fails for an empty listing or a version that raises.

`ReportIsSound` proves `IInv == TypeOK /\ ReportSoFar`, which TLC checked first over
the instance of the run. A user's step keeps it because a commit only
appends: what was committed before the `mined`-th commit is the same after it
(`CommittedStable`, `PassesStable`, `SignalsStable`); and because an edit makes a
text of a text (`ReconditionType`, `ReviseType`). Each property then follows from
`IInv` by the facts it needs:

* counts and order, by `Arrangement` and `Selection`: what `Arrange` says of a
  finite set of places and a total order on them is a bijection of positions, so
  nothing is lost, doubled or out of order. `RulesAreCounted` and `SortedAsPromised`
  rest on it, the latter with `TierFirstKey` for the key Python compares;
* loading, by `Loading` and `FailedAre`, for `ScoredAreLoaded`, `FilesAreAccountedFor`
  and `DatesFail`;
* tiers, by the lemmas of `FragilityProofs`. `ItemsToLevels`, `ConditionsToLevels`
  and `TreesToLevels` say what the levels hold, and `TreeInduction`, `ItemInduction`
  and `ConditionInduction` are induction over them, stated about sets and so
  by `SetInduction`. `TreeRecursion` unfolds a recursive function on trees.
  `DetectionAre` and `ConditionAre` show that what `BuildAst` builds is a tree, and
  `ConditionTree` its shape: a node's flag is the polarity it was built with, and
  every leaf stands under a selection. `TreeCosts` is the induction behind
  `TiersAreCosts`: over a tree the combined rank is the least reach that silences
  it. `FilterIsNoise` shows that one more NOT over a filter adds only negated leaves,
  which the detectors and the combination do not see;
* the classification of a change, method by method: `AstTells`, `KeysTell` and
  `SectionsTell` say what a change that each of the three stages does not call
  behavioural leaves alone, and `ChangeOfMeaning` and `ChangeOfWording` put the
  waterfall together, for `NeverRevisedIsSo` and `WordingIsCosmetic`.

The proofs changed the model in four places. `Plain` had to exclude rules of
several conditions of which one counts nothing: the combination rates
such a rule by the others, and a rule that fires by a condition of its own, on the
event id alone, cannot be silenced. TLC had no such rule in its 14 shapes, and has
one now. `Meaning` was the detection as written. With the edit `redefine`, which
changes a selection no condition uses, it is not what the syntax trees compare: the
trees call that change nothing, so `NeverRevisedIsTrue` holds of the trees, and
`CosmeticsDoNotRefresh` of the text. Recursion over trees became recursion over
levels of trees. `TypeOK` said less than that a text is a text.

About the labels `TriageProofs` proves, from `PriorityAssumption` alone, for every rule a
report can hold: a rule is labelled exactly if it has a tier and a band
(`UncertainIsUnlabelled`); the summary and the labels agree (`AttentionAgrees`);
labels rise with staleness and with fragility (`LabelsAreMonotone`); and the
breakdown counts every rule of a report of any length once (`AllRulesAreCounted`,
by lemmas on the cardinalities of the classes). About single criteria
`FragilityProofs` proves, for any contents of the registries (`AtomsAssumption`), that
cloud audit context only raises the tier of a criterion (`CloudContextOnlyRaises`),
and that attacker-authored text is never scored as a tool (`AuthoredTextIsNoTool`).

**Only model-checked.** The liveness properties `JobSettles`, `CallEnds`,
`PollingEnds`, `FinishedLoadIsShown` and `ProgressEnds`, which the prover cannot
reach, and the properties that are refuted. Every other property of a passing run is a theorem, `RunningHasThread`,
`ImplementsLifecycle`, `NeverStale`, `AnswersItsRequest`, `TouchesFollowTheFile` and
`EverRevisedIsTrue` under the hypotheses named above, which their runs fulfil.

## 5. The plan

Done: the job server with its store, mining timeout and lifecycle; the mining
cache; churn history and staleness; triage, fragility, the semantic diff and
loading; the page over the lifecycle; their theorems. Left, in this order:

1. The rest of churn history: authors and the health of the history.
2. The stages of commit mining below `all_facts`: parsing of the batch.
3. Of the page, that what it shows follows the server through a restart, as a
   theorem about more than one load.
4. Of the job server, which statuses a second process can change, as a theorem
   without the hypothesis `OneServer`.

## 6. Not modelled

`PROJECT.json` gives each component's status. Left out for good:

* `legacy_v1.py` and the parameters of `fragility.py` that reproduce it: kept to
  compare with, off by default;
* `experimental/`: formats the repository itself keeps outside its core, scored by
  patterns over text;
* `cli.py`: one sequential command at a time over the modelled core, and output;
* the PDF builders, the page's markup, charts and filters: layout;
* the sentences about a rule, a report and a failure;
* the health of a history (`_assess_history_health`) and the authors of a rule: counts
  that change nothing else.

----------------------------- MODULE MiningCache -----------------------------
(***************************************************************************)
(* The on-disk cache of mined history (churn.mine_commits_cached), shared  *)
(* by every caller that mines the same repository: the jobs and the rule   *)
(* histories of a GUI server, other servers, the command line.             *)
(*                                                                         *)
(* A call asks git for HEAD, looks for a pickle labelled with that HEAD,   *)
(* and otherwise mines and overwrites the pickle.  Mining asks git for the *)
(* history twice more (_git_log_diff_batch, then PyDriller's traversal),   *)
(* and the user may commit, pull or check out between any two of them.     *)
(* No lock is held anywhere; a write truncates the file before it fills it.*)
(*                                                                         *)
(* A pickle is written in one piece: fmt, which goes into the file name    *)
(* unchanged, is fixed.                                                    *)
(***************************************************************************)
EXTENDS Naturals, Sequences

CONSTANTS
    Callers,    \* threads that call mine_commits_cached on the repository
    Subdirs,    \* the subdir arguments they use, as sequences of characters
    Heads,      \* the commits HEAD may name
    FirstHead,  \* the one it names at first
    Commits,    \* all commits of the repository
    History,    \* History[h]: the commits reachable from h
    Moves       \* <<g, h>>: the user may move HEAD from g to h

ASSUME CacheAssumption ==
    /\ Subdirs \subseteq Seq(STRING) /\ Subdirs # {}
    /\ FirstHead \in Heads
    /\ History \in [Heads -> SUBSET Commits]
    /\ Moves \subseteq Heads \X Heads

\* Mutant: the subdirectory is left out of the file name.
CacheNameOfRepo(s) == <<>>

\* _cache_path: the two separators become the underscore they are told from.
CacheName(s) == [i \in DOMAIN s |-> IF s[i] \in {"/", "\\"} THEN "_" ELSE s[i]]
CacheNames == {CacheName(s) : s \in Subdirs}

\* mine_commits: the prefix the paths are matched with, separators unified
\* and the trailing ones dropped.
Slashed(s) == [i \in DOMAIN s |-> IF s[i] = "\\" THEN "/" ELSE s[i]]
SubdirPrefix(s) ==
    LET n == CHOOSE m \in 0 .. Len(s) :
                /\ \A i \in m + 1 .. Len(s) : Slashed(s)[i] = "/"
                /\ m = 0 \/ Slashed(s)[m] # "/"
    IN  SubSeq(Slashed(s), 1, n)

NoSubdir == CHOOSE s \in Subdirs : TRUE
Facts == [prefix : {SubdirPrefix(s) : s \in Subdirs}, commits : SUBSET Commits]
NoFacts == [prefix |-> SubdirPrefix(NoSubdir), commits |-> {}]
Pickle == [head : Heads, facts : Facts]

Mining == {"log", "walk"}
Writing == {"open", "dump"}
Pcs == {"idle", "read", "done", "failed"} \cup Mining \cup Writing

VARIABLES
    head,   \* what git rev-parse HEAD answers
    disk,   \* per file name: {} (missing or unreadable) or {the pickle}
    pc,     \* where each call is
    asked,  \* its subdir argument
    at,     \* the HEAD it read when it started
    batch,  \* the commits _git_log_diff_batch listed
    facts   \* what it mined or loaded

vars == <<head, disk, pc, asked, at, batch, facts>>

\* No call holds what another function made, and no file two pickles.
TypeOK ==
    /\ head \in Heads
    /\ disk \in [CacheNames -> SUBSET Pickle]
    /\ \A n \in CacheNames : \A p, q \in disk[n] : p = q
    /\ pc \in [Callers -> Pcs]
    /\ asked \in [Callers -> Subdirs]
    /\ at \in [Callers -> Heads]
    /\ batch \in [Callers -> SUBSET Commits]
    /\ facts \in [Callers -> Facts]

Init ==
    /\ head = FirstHead
    /\ disk = [n \in CacheNames |-> {}]
    /\ pc = [c \in Callers |-> "idle"]
    /\ asked = [c \in Callers |-> NoSubdir]
    /\ at = [c \in Callers |-> FirstHead]
    /\ batch = [c \in Callers |-> {}]
    /\ facts = [c \in Callers |-> NoFacts]

Goto(c, l) == pc' = [pc EXCEPT ![c] = l]

\* The pickle file of c's call.
MyFile(c) == CacheName(asked[c])

-----------------------------------------------------------------------------
Call(c, s, refresh) ==
    /\ pc[c] = "idle"
    /\ asked' = [asked EXCEPT ![c] = s]
    /\ at' = [at EXCEPT ![c] = head]
    /\ Goto(c, IF refresh THEN "log" ELSE "read")
    /\ UNCHANGED <<head, disk, batch, facts>>

CacheHit(c) ==
    /\ pc[c] = "read"
    /\ \E p \in disk[MyFile(c)] :
          /\ p.head = at[c]
          /\ facts' = [facts EXCEPT ![c] = p.facts]
    /\ Goto(c, "done")
    /\ UNCHANGED <<head, disk, asked, at, batch>>

\* Mutant: the file is read again until it can be used.
CacheRetry(c) ==
    /\ pc[c] = "read"
    /\ \A p \in disk[MyFile(c)] : p.head # at[c]
    /\ Goto(c, "read")
    /\ UNCHANGED <<head, disk, asked, at, batch, facts>>

\* No file, an unreadable one, or one labelled with another HEAD.
CacheMiss(c) ==
    /\ pc[c] = "read"
    /\ \A p \in disk[MyFile(c)] : p.head # at[c]
    /\ Goto(c, "log")
    /\ UNCHANGED <<head, disk, asked, at, batch, facts>>

GitLog(c) ==
    /\ pc[c] = "log"
    /\ batch' = [batch EXCEPT ![c] = History[head]]
    /\ Goto(c, "walk")
    /\ UNCHANGED <<head, disk, asked, at, facts>>

\* traverse_commits: a commit the batch does not list has no file changes
\* and is dropped.  A history without facts is refused.
Walk(c) ==
    /\ pc[c] = "walk"
    /\ History[head] \cap batch[c] # {}
    /\ facts' = [facts EXCEPT ![c] =
                    [prefix  |-> SubdirPrefix(asked[c]),
                     commits |-> History[head] \cap batch[c]]]
    /\ batch' = [batch EXCEPT ![c] = {}]
    /\ Goto(c, "open")
    /\ UNCHANGED <<head, disk, asked, at>>

OpenCache(c) ==
    /\ pc[c] = "open"
    /\ disk' = [disk EXCEPT ![MyFile(c)] = {}]
    /\ Goto(c, "dump")
    /\ UNCHANGED <<head, asked, at, batch, facts>>

\* Mutants: the pickle is appended; it is labelled with the HEAD of its write.
AppendCache(c) ==
    /\ pc[c] = "dump"
    /\ disk' = [disk EXCEPT ![MyFile(c)] = @ \cup {[head |-> at[c],
                                                   facts |-> facts[c]]}]
    /\ Goto(c, "done")
    /\ UNCHANGED <<head, asked, at, batch, facts>>
DumpWithHeadNow(c) ==
    /\ pc[c] = "dump"
    /\ disk' = [disk EXCEPT ![MyFile(c)] = {[head |-> head,
                                             facts |-> facts[c]]}]
    /\ Goto(c, "done")
    /\ UNCHANGED <<head, asked, at, batch, facts>>

DumpCache(c) ==
    /\ pc[c] = "dump"
    /\ disk' = [disk EXCEPT ![MyFile(c)] = {[head |-> at[c],
                                             facts |-> facts[c]]}]
    /\ Goto(c, "done")
    /\ UNCHANGED <<head, asked, at, batch, facts>>

\* Git fails, mining outlasts its budget (the orphaned worker never writes
\* the cache), the disk is full, or the process dies.
Raise(c) ==
    /\ pc[c] \in Mining \cup Writing
    /\ Goto(c, "failed")
    /\ UNCHANGED <<head, disk, asked, at, batch, facts>>

\* The caller takes the answer, and the call's locals are gone.
Return(c) ==
    /\ pc[c] \in {"done", "failed"}
    /\ Goto(c, "idle")
    /\ asked' = [asked EXCEPT ![c] = NoSubdir]
    /\ at' = [at EXCEPT ![c] = FirstHead]
    /\ batch' = [batch EXCEPT ![c] = {}]
    /\ facts' = [facts EXCEPT ![c] = NoFacts]
    /\ UNCHANGED <<head, disk>>

MoveHead(h) ==
    /\ <<head, h>> \in Moves
    /\ head' = h
    /\ UNCHANGED <<disk, pc, asked, at, batch, facts>>

-----------------------------------------------------------------------------
CallStep(c) ==
    \/ CacheHit(c)
    \/ CacheMiss(c)
    \/ GitLog(c)
    \/ Walk(c)
    \/ OpenCache(c)
    \/ DumpCache(c)
    \/ Raise(c)

Next ==
    \/ \E c \in Callers :
          \/ \E s \in Subdirs, refresh \in BOOLEAN : Call(c, s, refresh)
          \/ CallStep(c)
          \/ Return(c)
    \/ \E h \in Heads : MoveHead(h)

Spec == Init /\ [][Next]_vars

\* A call that can go on does; nothing makes the user move HEAD or call again.
FairSpec == Spec /\ \A c \in Callers : WF_vars(CallStep(c))

-----------------------------------------------------------------------------
\* A call that returns gives the facts of the subdirectory it was asked for,
\* mined or cached, of directories with file names of their own.  Known
\* exception: HitIsKeyed.
AnswersItsRequest ==
    \A c \in Callers :
       pc[c] = "done" => facts[c].prefix = SubdirPrefix(asked[c])

\* A call that returns never misses a commit that was in the history when it
\* started, as long as HEAD moves forward: the pickle's label was read before
\* the history it labels was.  Known exception: HitIsKeyed.
NeverStale ==
    \A c \in Callers :
       pc[c] = "done" => History[at[c]] \subseteq facts[c].commits

\* The docstring of mine_commits_cached on a hit, whatever directories there
\* are and whatever is checked out: it is "keyed by (repo root, fmt, subdir,
\* current git rev-parse HEAD)", "rather than silently serving stale facts".
\* Neither the subdirectory nor the HEAD that was mined is in the key.
HitIsKeyed ==
    [][\A c \in Callers : CacheHit(c) =>
          /\ facts'[c].prefix = SubdirPrefix(asked[c])
          /\ History[at[c]] \subseteq facts'[c].commits]_vars

\* Every call ends, with facts or with an error.
CallEnds ==
    \A c \in Callers : pc[c] \notin {"idle", "done", "failed"}
                          ~> pc[c] \in {"done", "failed"}
=============================================================================

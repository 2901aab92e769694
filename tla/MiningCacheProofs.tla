-------------------------- MODULE MiningCacheProofs --------------------------
(***************************************************************************)
(* Proofs about MiningCache for any callers, subdirectories and history:   *)
(* while HEAD only moves forward, no call, cached or mined, is stale; and  *)
(* while no two directories share a file name, none answers another one's  *)
(* request.                                                                *)
(***************************************************************************)
EXTENDS MiningCache, TLAPS

\* The user commits or pulls, and never goes back.
ForwardOnly == \A m \in Moves : History[m[1]] \subseteq History[m[2]]

\* Directories that share a pickle file are the same directory.
NamesDistinct ==
    \A s, t \in Subdirs :
       CacheName(s) = CacheName(t) => SubdirPrefix(s) = SubdirPrefix(t)

\* What a call has in hand reaches back to the HEAD it started from.
CallInv ==
    \A c \in Callers :
       /\ pc[c] # "idle" => History[at[c]] \subseteq History[head]
       /\ pc[c] = "walk" => /\ History[at[c]] \subseteq batch[c]
       /\ pc[c] \in Writing \cup {"done"} =>
             History[at[c]] \subseteq facts[c].commits

\* A pickle holds at least the history it is labelled with.
DiskInv ==
    \A n \in CacheNames : \A p \in disk[n] :
       History[p.head] \subseteq p.facts.commits

StaleInv == TypeOK /\ CallInv /\ DiskInv

PrefixInv ==
    /\ TypeOK
    /\ \A c \in Callers : pc[c] \in Writing \cup {"done"} =>
          facts[c].prefix = SubdirPrefix(asked[c])
    /\ \A s \in Subdirs : \A p \in disk[CacheName(s)] :
          p.facts.prefix = SubdirPrefix(s)

-----------------------------------------------------------------------------
\* The values a call starts from have their types.
LEMMA NoFactsType == NoSubdir \in Subdirs /\ NoFacts \in Facts
<1>1. NoSubdir \in Subdirs
  BY CacheAssumption DEF NoSubdir
<1>. QED  BY <1>1 DEF NoFacts, Facts

\* The types hold at first.
LEMMA InitType == Init => TypeOK
BY NoFactsType, CacheAssumption DEF Init, TypeOK, Pcs

\* Every step of a call keeps the types.
LEMMA NextType == TypeOK /\ [Next]_vars => TypeOK'
<1>. SUFFICES ASSUME TypeOK, [Next]_vars PROVE TypeOK'
  OBVIOUS
<1>. USE DEF TypeOK, Goto, Pcs, Mining, Writing, MyFile
<1>1. ASSUME NEW c \in Callers, NEW s \in Subdirs, NEW refresh \in BOOLEAN,
             Call(c, s, refresh)
      PROVE  TypeOK'
  BY <1>1 DEF Call
<1>2. ASSUME NEW c \in Callers, CacheHit(c)
      PROVE  TypeOK'
  <2>1. MyFile(c) \in CacheNames
    BY DEF CacheNames
  <2>2. \A p \in disk[MyFile(c)] : p.facts \in Facts
    BY <2>1 DEF Pickle
  <2>. QED  BY <1>2, <2>2 DEF CacheHit
<1>3. ASSUME NEW c \in Callers, CacheMiss(c)
      PROVE  TypeOK'
  BY <1>3 DEF CacheMiss
<1>4. ASSUME NEW c \in Callers, GitLog(c)
      PROVE  TypeOK'
  BY <1>4, CacheAssumption DEF GitLog
<1>5. ASSUME NEW c \in Callers, Walk(c)
      PROVE  TypeOK'
  <2>1. [prefix |-> SubdirPrefix(asked[c]),
         commits |-> History[head] \cap batch[c]] \in Facts
    BY DEF Facts
  <2>. QED  BY <1>5, <2>1 DEF Walk
<1>6. ASSUME NEW c \in Callers, OpenCache(c)
      PROVE  TypeOK'
  BY <1>6 DEF OpenCache
<1>7. ASSUME NEW c \in Callers, DumpCache(c)
      PROVE  TypeOK'
  <2>1. [head |-> at[c], facts |-> facts[c]] \in Pickle
    BY DEF Pickle
  <2>. QED  BY <1>7, <2>1 DEF DumpCache
<1>8. ASSUME NEW c \in Callers, Raise(c)
      PROVE  TypeOK'
  BY <1>8 DEF Raise
<1>9. ASSUME NEW c \in Callers, Return(c)
      PROVE  TypeOK'
  BY <1>9, NoFactsType, CacheAssumption DEF Return
<1>10. ASSUME NEW h \in Heads, MoveHead(h)
       PROVE  TypeOK'
  BY <1>10 DEF MoveHead
<1>11. CASE UNCHANGED vars
  BY <1>11 DEF vars
<1>. QED  BY <1>1, <1>2, <1>3, <1>4, <1>5, <1>6, <1>7, <1>8, <1>9, <1>10,
             <1>11 DEF Next, CallStep

\* Calls keep the types of what they hold, and the cache those of its files.
THEOREM CacheTypeCorrect == Spec => []TypeOK
BY InitType, NextType, PTL DEF Spec

-----------------------------------------------------------------------------
(***************************************************************************)
(* Staleness.                                                              *)
(***************************************************************************)
\* With a HEAD that only moves forward, every step keeps StaleInv: a label is
\* older than the history it labels.
LEMMA NextStale == ForwardOnly /\ StaleInv /\ [Next]_vars => StaleInv'
<1>. SUFFICES ASSUME ForwardOnly, StaleInv, [Next]_vars PROVE StaleInv'
  OBVIOUS
<1>. USE DEF StaleInv, CallInv, DiskInv, Goto, Mining, Writing
<1>0. TypeOK'
  BY NextType
<1>1. ASSUME NEW c \in Callers, NEW s \in Subdirs, NEW refresh \in BOOLEAN,
             Call(c, s, refresh)
      PROVE  StaleInv'
  BY <1>0, <1>1 DEF Call, TypeOK
<1>2. ASSUME NEW c \in Callers, CacheHit(c)
      PROVE  StaleInv'
  <2>1. PICK p \in disk[MyFile(c)] :
           p.head = at[c] /\ facts' = [facts EXCEPT ![c] = p.facts]
    BY <1>2 DEF CacheHit
  <2>2. MyFile(c) \in CacheNames
    BY DEF MyFile, CacheNames, TypeOK
  <2>3. History[at[c]] \subseteq facts'[c].commits
    BY <2>1, <2>2 DEF TypeOK
  <2>. QED  BY <1>0, <1>2, <2>1, <2>3 DEF CacheHit, TypeOK
<1>3. ASSUME NEW c \in Callers, CacheMiss(c)
      PROVE  StaleInv'
  BY <1>0, <1>3 DEF CacheMiss, TypeOK
<1>4. ASSUME NEW c \in Callers, GitLog(c)
      PROVE  StaleInv'
  BY <1>0, <1>4 DEF GitLog, TypeOK
<1>5. ASSUME NEW c \in Callers, Walk(c)
      PROVE  StaleInv'
  <2>1. History[at[c]] \subseteq History[head] \cap batch[c]
    BY <1>5 DEF Walk
  <2>2. facts'[c].commits = History[head] \cap batch[c]
    BY <1>5 DEF Walk, TypeOK
  <2>. QED  BY <1>0, <1>5, <2>1, <2>2 DEF Walk, TypeOK
<1>6. ASSUME NEW c \in Callers, OpenCache(c)
      PROVE  StaleInv'
  BY <1>0, <1>6 DEF OpenCache, TypeOK
<1>7. ASSUME NEW c \in Callers, DumpCache(c)
      PROVE  StaleInv'
  <2>1. DiskInv'
    BY <1>7 DEF DumpCache, TypeOK
  <2>2. CallInv'
    BY <1>7 DEF DumpCache, TypeOK
  <2>. QED  BY <1>0, <2>1, <2>2
<1>8. ASSUME NEW c \in Callers, Raise(c)
      PROVE  StaleInv'
  BY <1>0, <1>8 DEF Raise, TypeOK
<1>9. ASSUME NEW c \in Callers, Return(c)
      PROVE  StaleInv'
  BY <1>0, <1>9 DEF Return, TypeOK
<1>10. ASSUME NEW h \in Heads, MoveHead(h)
       PROVE  StaleInv'
  <2>1. History[head] \subseteq History[head']
    BY <1>10 DEF MoveHead, ForwardOnly
  <2>. QED  BY <1>0, <1>10, <2>1 DEF MoveHead
<1>11. CASE UNCHANGED vars
  BY <1>0, <1>11 DEF vars
<1>. QED  BY <1>1, <1>2, <1>3, <1>4, <1>5, <1>6, <1>7, <1>8, <1>9, <1>10,
             <1>11 DEF Next, CallStep

\* While HEAD only moves forward, no call of mine_commits_cached misses a
\* commit that was there when it started: reading the label before the
\* history it labels makes the cache err on the fresh side only.
THEOREM NotStale ==
    ASSUME ForwardOnly
    PROVE  Spec => []NeverStale
<1>1. Init => StaleInv
  BY InitType DEF Init, StaleInv, CallInv, DiskInv, Writing
<1>2. StaleInv /\ [Next]_vars => StaleInv'
  BY NextStale
<1>3. StaleInv => NeverStale
  BY DEF StaleInv, CallInv, NeverStale
<1>. QED  BY <1>1, <1>2, <1>3, PTL DEF Spec

-----------------------------------------------------------------------------
(***************************************************************************)
(* Requests.                                                               *)
(***************************************************************************)
\* With distinct file names, every step keeps PrefixInv: no call overwrites
\* the pickle of another directory.
LEMMA NextPrefix == NamesDistinct /\ PrefixInv /\ [Next]_vars => PrefixInv'
<1>. SUFFICES ASSUME NamesDistinct, PrefixInv, [Next]_vars PROVE PrefixInv'
  OBVIOUS
<1>. USE DEF PrefixInv, Goto, Mining, Writing
<1>0. TypeOK'
  BY NextType
<1>1. ASSUME NEW c \in Callers, NEW s \in Subdirs, NEW refresh \in BOOLEAN,
             Call(c, s, refresh)
      PROVE  PrefixInv'
  BY <1>0, <1>1 DEF Call, TypeOK
<1>2. ASSUME NEW c \in Callers, CacheHit(c)
      PROVE  PrefixInv'
  <2>1. PICK p \in disk[MyFile(c)] : facts' = [facts EXCEPT ![c] = p.facts]
    BY <1>2 DEF CacheHit
  <2>2. p.facts.prefix = SubdirPrefix(asked[c])
    BY <2>1 DEF MyFile, TypeOK
  <2>. QED  BY <1>0, <1>2, <2>1, <2>2 DEF CacheHit, TypeOK
<1>3. ASSUME NEW c \in Callers, CacheMiss(c)
      PROVE  PrefixInv'
  BY <1>0, <1>3 DEF CacheMiss, TypeOK
<1>4. ASSUME NEW c \in Callers, GitLog(c)
      PROVE  PrefixInv'
  BY <1>0, <1>4 DEF GitLog, TypeOK
<1>5. ASSUME NEW c \in Callers, Walk(c)
      PROVE  PrefixInv'
  <2>1. facts'[c].prefix = SubdirPrefix(asked[c])
    BY <1>5 DEF Walk, TypeOK
  <2>. QED  BY <1>0, <1>5, <2>1 DEF Walk, TypeOK
<1>6. ASSUME NEW c \in Callers, OpenCache(c)
      PROVE  PrefixInv'
  <2>1. \A s \in Subdirs : disk'[CacheName(s)] \subseteq disk[CacheName(s)]
    BY <1>6 DEF OpenCache, TypeOK, CacheNames
  <2>. QED  BY <1>0, <1>6, <2>1 DEF OpenCache, TypeOK
<1>7. ASSUME NEW c \in Callers, DumpCache(c)
      PROVE  PrefixInv'
  <2>1. facts[c].prefix = SubdirPrefix(asked[c]) /\ asked[c] \in Subdirs
    BY <1>7 DEF DumpCache, TypeOK
  <2>2. ASSUME NEW s \in Subdirs, NEW p \in disk'[CacheName(s)]
        PROVE  p.facts.prefix = SubdirPrefix(s)
    <3>1. CASE CacheName(s) = MyFile(c)
      <4>1. p.facts = facts[c]
        BY <1>7, <2>2, <3>1 DEF DumpCache, TypeOK, CacheNames
      <4>2. SubdirPrefix(asked[c]) = SubdirPrefix(s)
        BY <2>1, <3>1 DEF NamesDistinct, MyFile
      <4>. QED  BY <2>1, <4>1, <4>2
    <3>2. CASE CacheName(s) # MyFile(c)
      BY <1>7, <2>2, <3>2 DEF DumpCache, TypeOK, CacheNames
    <3>. QED  BY <3>1, <3>2
  <2>. QED  BY <1>0, <1>7, <2>1, <2>2 DEF DumpCache, TypeOK
<1>8. ASSUME NEW c \in Callers, Raise(c)
      PROVE  PrefixInv'
  BY <1>0, <1>8 DEF Raise, TypeOK
<1>9. ASSUME NEW c \in Callers, Return(c)
      PROVE  PrefixInv'
  BY <1>0, <1>9 DEF Return, TypeOK
<1>10. ASSUME NEW h \in Heads, MoveHead(h)
       PROVE  PrefixInv'
  BY <1>0, <1>10 DEF MoveHead
<1>11. CASE UNCHANGED vars
  BY <1>0, <1>11 DEF vars
<1>. QED  BY <1>1, <1>2, <1>3, <1>4, <1>5, <1>6, <1>7, <1>8, <1>9, <1>10,
             <1>11 DEF Next, CallStep

\* While no two directories share a cache file name, a call gets the facts of
\* the directory it asked for, however many callers overwrite the files.
THEOREM RequestsAnswered ==
    ASSUME NamesDistinct
    PROVE  Spec => []AnswersItsRequest
<1>1. Init => PrefixInv
  <2>1. \A s \in Subdirs : CacheName(s) \in CacheNames
    BY DEF CacheNames
  <2>. QED  BY <2>1, InitType DEF Init, PrefixInv, Writing
<1>2. PrefixInv /\ [Next]_vars => PrefixInv'
  BY NextPrefix
<1>3. PrefixInv => AnswersItsRequest
  BY DEF PrefixInv, AnswersItsRequest
<1>. QED  BY <1>1, <1>2, <1>3, PTL DEF Spec
=============================================================================

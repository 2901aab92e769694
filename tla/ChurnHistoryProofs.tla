-------------------------- MODULE ChurnHistoryProofs --------------------------
(***************************************************************************)
(* Proofs about ChurnHistory, for any names, threshold and bound: types    *)
(* and the two dates of a rule whether names are used twice or not, and    *)
(* that touches follow the file where they are not.                        *)
(***************************************************************************)
EXTENDS ChurnHistory, FiniteSetTheorems, Induction, TLAPS

\* No file of the tree was created by a commit still to come.
CreatedInv == \A n \in Names : tree[n] # NoFile => tree[n][2] <= Len(log)

TypeInv == TypeOK /\ CreatedInv

-----------------------------------------------------------------------------
\* A commit appends one record, and leaves the report alone.
LEMMA CommitEffect ==
    ASSUME TypeOK, NEW changes, CommitChanges(changes),
           \A c \in changes : Mined(c) \in Change
    PROVE  /\ log' \in Seq(Commit) /\ Len(log') = Len(log) + 1
           /\ Len(log') <= MaxCommits
           /\ phase' \in {"idle", "mined", "stale", "diffed"}
           /\ mined' \in 0 .. Len(log')
           /\ seen' \in [Rules -> Files \cup {NoFile}]
           /\ seen2' \in [Rules -> Files \cup {NoFile}]
<1>1. PICK ago \in Days, b \in BOOLEAN :
         log' = Append(log, [changes    |-> {Mined(c) : c \in changes},
                             ago        |-> ago,
                             behavioral |-> b])
  BY DEF CommitChanges
<1>. DEFINE r == [changes |-> {Mined(c) : c \in changes}, ago |-> ago,
                  behavioral |-> b]
<1>2. r \in Commit
  <2>1. {Mined(c) : c \in changes} \subseteq Change
    OBVIOUS
  <2>. QED  BY <2>1 DEF Commit
<1>3. log' = Append(log, r) /\ log \in Seq(Commit)
  BY <1>1 DEF TypeOK
<1>. HIDE DEF r
<1>4. log' \in Seq(Commit) /\ Len(log') = Len(log) + 1 /\ Len(log) \in Nat
  BY <1>2, <1>3
<1>. QED  BY <1>4, HistoryAssumption DEF CommitChanges, TypeOK

\* The rule names of a change, or None, are what a change may hold.
LEMMA MinedType ==
    ASSUME NEW old, NEW new, NEW type \in Types, NEW file \in Files
    PROVE  Mined([old |-> old, new |-> new, type |-> type, file |-> file])
              \in Change
BY DEF Mined, OrNone, Change

\* The first commit of a file has a number.
LEMMA NewFile ==
    ASSUME TypeOK, Len(log) < MaxCommits, NEW n \in Rules
    PROVE  <<n, Len(log) + 1>> \in Files
<1>1. Len(log) \in Nat
  BY DEF TypeOK
<1>. QED  BY <1>1, HistoryAssumption DEF Files

-----------------------------------------------------------------------------
\* TypeInv is kept when rules are added: their files are new.
LEMMA AddRulesType ==
    ASSUME TypeInv, NEW S \in SUBSET Rules, AddRules(S)
    PROVE  TypeInv'
<1>. DEFINE changes == {[old |-> NoName, new |-> n, type |-> "ADD",
                         file |-> <<n, Len(log) + 1>>] : n \in S}
<1>1. CommitChanges(changes) /\ Len(log) < MaxCommits /\ Len(log) \in Nat
  <2>1. CommitChanges(changes)
    BY DEF AddRules
  <2>2. Len(log) < MaxCommits
    BY <2>1 DEF CommitChanges
  <2>3. Len(log) \in Nat
    BY DEF TypeInv, TypeOK
  <2>. QED  BY <2>1, <2>2, <2>3
<1>2. \A n \in S : <<n, Len(log) + 1>> \in Files
  BY <1>1, NewFile DEF TypeInv
<1>3. \A c \in changes : Mined(c) \in Change
  <2>. SUFFICES ASSUME NEW n \in S
                PROVE  Mined([old |-> NoName, new |-> n, type |-> "ADD",
                              file |-> <<n, Len(log) + 1>>]) \in Change
    OBVIOUS
  <2>. QED  BY <1>2, MinedType DEF Types
<1>4. tree' = [n \in Names |-> IF n \in S THEN <<n, Len(log) + 1>> ELSE tree[n]]
  BY DEF AddRules
<1>5. tree' \in [Names -> Files \cup {NoFile}]
  BY <1>2, <1>4 DEF TypeInv, TypeOK
<1>6. \A f \in Files : f # NoFile /\ f = <<f[1], f[2]>> /\ f[2] \in Nat
  BY HistoryAssumption DEF Files, NoFile
<1>7. \A m, n \in Names : tree'[m] = tree'[n] /\ m # n => tree'[m] = NoFile
  <2>. SUFFICES ASSUME NEW m \in Names, NEW n \in Names,
                       tree'[m] = tree'[n], m # n, tree'[m] # NoFile
                PROVE  FALSE
    OBVIOUS
  <2>1. CASE m \in S /\ n \in S
    BY <2>1, <1>4
  <2>2. CASE m \notin S /\ n \notin S
    BY <2>2, <1>4 DEF TypeInv, TypeOK
  <2>3. CASE m \in S /\ n \notin S
    <3>1. tree[n] = <<m, Len(log) + 1>>
      BY <2>3, <1>4
    <3>2. tree[n] # NoFile /\ tree[n][2] = Len(log) + 1
      BY <2>3, <3>1, <1>2, <1>6
    <3>. QED  BY <3>2, <1>1 DEF TypeInv, CreatedInv
  <2>4. CASE m \notin S /\ n \in S
    <3>1. tree[m] = <<n, Len(log) + 1>>
      BY <2>4, <1>4
    <3>2. tree[m] # NoFile /\ tree[m][2] = Len(log) + 1
      BY <2>4, <3>1, <1>2, <1>6
    <3>. QED  BY <3>2, <1>1 DEF TypeInv, CreatedInv
  <2>. QED  BY <2>1, <2>2, <2>3, <2>4
<1>8. CreatedInv'
  <2>. SUFFICES ASSUME NEW n \in Names, tree'[n] # NoFile
                PROVE  tree'[n][2] <= Len(log')
    BY DEF CreatedInv
  <2>1. Len(log') = Len(log) + 1
    BY <1>1, <1>3, CommitEffect DEF TypeInv
  <2>2. CASE n \in S
    BY <2>1, <2>2, <1>1, <1>4
  <2>3. CASE n \notin S
    <3>1. tree'[n] = tree[n] /\ tree[n] \in Files
      BY <2>3, <1>4 DEF TypeInv, TypeOK
    <3>2. tree[n][2] <= Len(log)
      BY <3>1, <1>6 DEF TypeInv, CreatedInv
    <3>. QED  BY <2>1, <3>1, <3>2, <1>1, <1>6
  <2>. QED  BY <2>2, <2>3
<1>. QED  BY <1>1, <1>3, <1>5, <1>7, <1>8, CommitEffect DEF TypeInv, TypeOK

\* TypeInv is kept by a commit that creates no file: each name keeps its file,
\* loses it, or takes over that of a name that loses it.
LEMMA OldFilesType ==
    ASSUME TypeInv, NEW changes, CommitChanges(changes),
           \A c \in changes : Mined(c) \in Change,
           tree' \in [Names -> Files \cup {NoFile}],
           \A m, n \in Names :
              tree'[m] = tree'[n] /\ m # n => tree'[m] = NoFile,
           \A n \in Names : tree'[n] # NoFile =>
              \E m \in Names : tree'[n] = tree[m]
    PROVE  TypeInv'
<1>1. TypeOK'
  BY CommitEffect DEF TypeInv, TypeOK
<1>2. Len(log') = Len(log) + 1 /\ Len(log) \in Nat
  BY CommitEffect DEF TypeInv, TypeOK
<1>3. CreatedInv'
  <2>. SUFFICES ASSUME NEW n \in Names, tree'[n] # NoFile
                PROVE  tree'[n][2] <= Len(log')
    BY DEF CreatedInv
  <2>1. PICK m \in Names : tree'[n] = tree[m]
    OBVIOUS
  <2>2. tree[m] \in Files /\ tree[m][2] <= Len(log)
    BY <2>1 DEF TypeInv, TypeOK, CreatedInv
  <2>3. tree[m][2] \in Nat
    BY <2>2, HistoryAssumption DEF Files
  <2>. QED  BY <1>2, <2>1, <2>2, <2>3
<1>. QED  BY <1>1, <1>3 DEF TypeInv

\* TypeInv is kept when rules are edited.
LEMMA ModifyRulesType ==
    ASSUME TypeInv, NEW S \in SUBSET Rules, ModifyRules(S)
    PROVE  TypeInv'
<1>. DEFINE changes == {[old |-> n, new |-> n, type |-> "MODIFY",
                         file |-> tree[n]] : n \in S}
<1>1. CommitChanges(changes) /\ tree' = tree
  BY DEF ModifyRules
<1>2. \A n \in S : tree[n] \in Files
  BY DEF ModifyRules, TypeInv, TypeOK, Names
<1>3. \A c \in changes : Mined(c) \in Change
  <2>. SUFFICES ASSUME NEW n \in S
                PROVE  Mined([old |-> n, new |-> n, type |-> "MODIFY",
                              file |-> tree[n]]) \in Change
    OBVIOUS
  <2>. QED  BY <1>2, MinedType DEF Types
<1>. HIDE DEF changes
<1>. QED  BY <1>1, <1>3, OldFilesType DEF TypeInv, TypeOK

\* TypeInv is kept when a file is renamed.
LEMMA RenameFileType ==
    ASSUME TypeInv, NEW m \in Names, NEW n \in Names, RenameFile(m, n)
    PROVE  TypeInv'
<1>. DEFINE changes == {[old |-> m, new |-> n, type |-> "RENAME",
                         file |-> tree[m]]}
<1>1. CommitChanges(changes) /\ tree[m] # NoFile /\ tree[n] = NoFile /\ m # n
  BY DEF RenameFile, Free
<1>2. tree[m] \in Files
  BY <1>1 DEF TypeInv, TypeOK
<1>3. \A c \in changes : Mined(c) \in Change
  BY <1>2, MinedType DEF Types
<1>4. tree' = [tree EXCEPT ![m] = NoFile, ![n] = tree[m]]
  BY DEF RenameFile
<1>5. \A k \in Names : tree'[k] = IF k = n THEN tree[m]
                                  ELSE IF k = m THEN NoFile ELSE tree[k]
  BY <1>1, <1>4 DEF TypeInv, TypeOK
<1>6. tree' \in [Names -> Files \cup {NoFile}]
  BY <1>2, <1>4 DEF TypeInv, TypeOK
<1>7. \A k, l \in Names : tree'[k] = tree'[l] /\ k # l => tree'[k] = NoFile
  BY <1>1, <1>5 DEF TypeInv, TypeOK
<1>8. \A k \in Names : tree'[k] # NoFile =>
         \E l \in Names : tree'[k] = tree[l]
  BY <1>5
<1>. HIDE DEF changes
<1>. QED  BY <1>1, <1>3, <1>6, <1>7, <1>8, OldFilesType

\* TypeInv is kept when a rule is deleted.
LEMMA DeleteRuleType ==
    ASSUME TypeInv, NEW n \in Rules, DeleteRule(n)
    PROVE  TypeInv'
<1>. DEFINE changes == {[old |-> n, new |-> NoName, type |-> "DELETE",
                         file |-> tree[n]]}
<1>1. CommitChanges(changes) /\ tree[n] # NoFile /\ n \in Names
  BY DEF DeleteRule, Names
<1>2. tree[n] \in Files
  BY <1>1 DEF TypeInv, TypeOK
<1>3. \A c \in changes : Mined(c) \in Change
  BY <1>2, MinedType DEF Types
<1>5. \A k \in Names : tree'[k] = IF k = n THEN NoFile ELSE tree[k]
  BY <1>1 DEF DeleteRule, TypeInv, TypeOK
<1>6. tree' \in [Names -> Files \cup {NoFile}]
  BY DEF DeleteRule, TypeInv, TypeOK
<1>7. \A k, l \in Names : tree'[k] = tree'[l] /\ k # l => tree'[k] = NoFile
  BY <1>5 DEF TypeInv, TypeOK
<1>8. \A k \in Names : tree'[k] # NoFile =>
         \E l \in Names : tree'[k] = tree[l]
  BY <1>5
<1>. HIDE DEF changes
<1>. QED  BY <1>1, <1>3, <1>6, <1>7, <1>8, OldFilesType

\* TypeInv is inductive.
LEMMA NextTypes == TypeInv /\ [Next]_vars => TypeInv'
<1>. SUFFICES ASSUME TypeInv, [Next]_vars  PROVE TypeInv'
  OBVIOUS
<1>1. CASE UserStep
  <2>1. \A r \in Rules : {r} \in SUBSET Rules
    OBVIOUS
  <2>2. Rules \in SUBSET Rules /\ Current(RulesNow) \in SUBSET Rules
    BY DEF Current
  <2>. QED  BY <1>1, <2>1, <2>2, AddRulesType, ModifyRulesType,
               RenameFileType, DeleteRuleType DEF UserStep
<1>2. RulesNow \in [Rules -> Files \cup {NoFile}]
  BY DEF RulesNow, TypeInv, TypeOK, Names
<1>3. Unseen \in [Rules -> Files \cup {NoFile}]
  BY DEF Unseen
<1>4. Len(log) \in Nat
  BY DEF TypeInv, TypeOK
<1>5. CASE ReportStep
  BY <1>2, <1>3, <1>4, <1>5
     DEF ReportStep, MineCommits, ComputeStaleness, ComputeSemanticDiff,
         EndReport, TypeInv, TypeOK, CreatedInv
<1>6. CASE UNCHANGED vars
  BY <1>6 DEF vars, TypeInv, TypeOK, CreatedInv
<1>. QED  BY <1>1, <1>5, <1>6 DEF Next

\* TypeInv holds of the empty history.
LEMMA InitTypes == Init => TypeInv
<1>. SUFFICES ASSUME Init  PROVE TypeInv
  OBVIOUS
<1>1. Len(log) = 0 /\ log \in Seq(Commit) /\ 0 <= MaxCommits
  BY HistoryAssumption DEF Init
<1>. QED  BY <1>1 DEF Init, TypeInv, TypeOK, CreatedInv, Unseen

\* Files, commits and reports keep their types, and no file is ever found at
\* two names, so that the identity the properties speak of is one.
THEOREM HistoryTypeCorrect == Spec => []TypeOK
<1>1. Init => TypeInv
  BY InitTypes
<1>2. TypeInv => TypeOK
  BY DEF TypeInv
<1>. QED  BY <1>1, <1>2, NextTypes, PTL DEF Spec

-----------------------------------------------------------------------------
\* When both passes see the same rule files, every change that the second
\* compares is one that the first counted.
LEMMA DiffableIsTouched ==
    ASSUME Current(seen) = Current(seen2), NEW r, NEW t \in Diffable(r)
    PROVE  t \in Touches(r)
<1>1. Excluded(t[1], seen) = Excluded(t[1], seen2)
  BY DEF Excluded
<1>. QED  BY <1>1 DEF Diffable, Touches

\* behavioral_summary never reports a rule fresher than summary does, for any
\* history and threshold, while both passes see the same rule files.
THEOREM BehaviorNeverFresher == Spec => []BehaviorIsNotFresher
<1>1. BehaviorIsNotFresher
  <2>. SUFFICES ASSUME Current(seen) = Current(seen2), NEW r \in Rules, Stale(r)
                PROVE  StaleBehaviorally(r)
    BY DEF BehaviorIsNotFresher, Reported, Current
  <2>. SUFFICES ASSUME NEW t \in Behavioral(r)
                PROVE  log[t[1]].ago > StaleDays
    BY DEF StaleBehaviorally
  <2>1. t \in Touches(r)
    BY DiffableIsTouched DEF Behavioral
  <2>. QED  BY <2>1 DEF Stale
<1>. QED  BY <1>1, PTL

-----------------------------------------------------------------------------
(***************************************************************************)
(* What the history tells of the files, when no name is used twice.        *)
(***************************************************************************)
\* Every change, with the commit it belongs to, mined or not.
History == UNION {{i} \X log[i].changes : i \in DOMAIN log}

Mentions(t, n) == n \in {t[2].old, t[2].new}
Leaves(t, n) == t[2].old = n /\ t[2].new # n
Enters(t, n) == t[2].new = n /\ t[2].old # n

\* A rule name belongs to one file for good.
OneOwner ==
    \A n \in Rules : \A t \in History : Mentions(t, n) =>
       /\ \A u \in History : Mentions(u, n) => u[2].file = t[2].file
       /\ tree[n] # NoFile => tree[n] = t[2].file

\* A name that was left is empty, and no other name is empty once used.
LeftIsGone ==
    \A n \in Rules : \A t \in History : Leaves(t, n) => tree[n] = NoFile
GoneIsLeft ==
    \A n \in Rules : \A t \in History :
       t[2].new = n /\ tree[n] # t[2].file => \E w \in History : Leaves(w, n)

\* A name is entered by the first change that has it and left at most once.
EnteredFirst ==
    \A n \in Rules : \A t, u \in History :
       Enters(t, n) /\ Mentions(u, n) => t[1] <= u[1] /\ (t[1] = u[1] => t = u)
LeftOnce ==
    \A n \in Rules : \A t, u \in History :
       Leaves(t, n) /\ Leaves(u, n) => t = u

\* Of two names of a file one had been left by the later of its changes.
OneNameLeft ==
    \A t, u \in History :
       /\ t[2].file = u[2].file /\ t[2].new # u[2].new
       /\ NoName \notin {t[2].new, u[2].new}
       /\ u[1] <= t[1]
       => \E w \in History :
             w[1] <= t[1] /\ (Leaves(w, t[2].new) \/ Leaves(w, u[2].new))

\* An addition creates its file.
AddCreates ==
    \A t \in History : t[2].type = "ADD" =>
       /\ t[2].new \in Rules /\ t[2].old = NoName
       /\ t[2].file = <<t[2].new, t[1]>>

HistoryInv == /\ OneOwner /\ LeftIsGone /\ GoneIsLeft /\ EnteredFirst
              /\ LeftOnce /\ OneNameLeft /\ AddCreates

\* A rule the report shows had its name, and kept it, in all it has mined.
SeenOwner ==
    \A r \in Reported : \A t \in MinedChanges :
       Mentions(t, r) => t[2].file = seen[r] /\ ~Leaves(t, r)

AttributionInv == TypeInv /\ HistoryInv /\ SeenOwner

\* What the changes C of a commit tell of the tree before and after it.
Tells(C) ==
    /\ \A c \in C :
          /\ c.old # NoName => tree[c.old] = c.file
          /\ c.new # NoName => tree'[c.new] = c.file
          /\ c.old # NoName /\ c.old # c.new => tree'[c.old] = NoFile
          /\ c.new # NoName /\ c.old # c.new =>
                tree[c.new] = NoFile /\ ~Used(c.new)
          /\ c.type = "ADD" => /\ c.new \in Rules /\ c.old = NoName
                               /\ c.file = <<c.new, Len(log) + 1>>
    /\ \A c, d \in C : \A n \in Rules :
          n \in {c.old, c.new} /\ n \in {d.old, d.new} => c = d
    /\ \A n \in Rules : tree'[n] # tree[n] =>
          /\ tree[n] # NoFile => \E c \in C : c.old = n /\ c.new # n
          /\ tree'[n] # NoFile => \E c \in C : c.new = n /\ c.old # n

-----------------------------------------------------------------------------
\* The changes of a history, and those of them that are mined.
LEMMA HistoryMember ==
    ASSUME TypeOK
    PROVE  /\ \A t \in History : /\ t[1] \in DOMAIN log /\ t[1] \in 1 .. Len(log)
                                 /\ t[2] \in log[t[1]].changes
                                 /\ t[2] \in Change /\ t = <<t[1], t[2]>>
           /\ \A i \in DOMAIN log : \A c \in log[i].changes :
                 <<i, c>> \in History
           /\ MinedChanges = {t \in History : t[1] <= mined}
<1>1. DOMAIN log = 1 .. Len(log) /\ \A i \in DOMAIN log : log[i] \in Commit
  BY DEF TypeOK
<1>2. ASSUME NEW t \in History
      PROVE  /\ t[1] \in DOMAIN log /\ t[1] \in 1 .. Len(log)
             /\ t[2] \in log[t[1]].changes
             /\ t[2] \in Change /\ t = <<t[1], t[2]>>
  <2>1. PICK i \in DOMAIN log : t \in {i} \X log[i].changes
    BY DEF History
  <2>2. t[1] = i /\ t[2] \in log[i].changes /\ t = <<t[1], t[2]>>
    BY <2>1
  <2>3. log[i].changes \in SUBSET Change
    BY <1>1 DEF Commit
  <2>. QED  BY <1>1, <2>1, <2>2, <2>3
<1>3. \A i \in DOMAIN log : \A c \in log[i].changes : <<i, c>> \in History
  BY DEF History
<1>4. 1 .. mined \subseteq 1 .. Len(log)
  BY DEF TypeOK
<1>5. MinedChanges \subseteq {t \in History : t[1] <= mined}
  <2>. SUFFICES ASSUME NEW t \in MinedChanges
                PROVE  t \in History /\ t[1] <= mined
    OBVIOUS
  <2>1. PICK i \in 1 .. mined : t \in {i} \X log[i].changes
    BY DEF MinedChanges
  <2>2. t = <<i, t[2]>> /\ t[1] = i /\ t[2] \in log[i].changes
    BY <2>1
  <2>. QED  BY <1>1, <1>3, <1>4, <2>2
<1>6. {t \in History : t[1] <= mined} \subseteq MinedChanges
  <2>. SUFFICES ASSUME NEW t \in History, t[1] <= mined
                PROVE  t \in MinedChanges
    OBVIOUS
  <2>1. t[1] \in 1 .. mined /\ t \in {t[1]} \X log[t[1]].changes
    BY <1>2 DEF TypeOK
  <2>. QED  BY <2>1 DEF MinedChanges
<1>. QED  BY <1>2, <1>3, <1>5, <1>6

\* A commit adds its changes to the history, under its number, and none to
\* those that were mined.
LEMMA HistoryGrows ==
    ASSUME TypeInv, TypeInv', NEW changes, CommitChanges(changes)
    PROVE  LET C == {Mined(c) : c \in changes}
           IN  /\ History' = History \cup {<<Len(log) + 1, c>> : c \in C}
               /\ C \subseteq Change
               /\ Len(log') = Len(log) + 1 /\ Len(log) \in Nat
               /\ MinedChanges' = MinedChanges
<1>. DEFINE C == {Mined(c) : c \in changes}
<1>1. PICK ago \in Days, b \in BOOLEAN :
         log' = Append(log, [changes |-> C, ago |-> ago, behavioral |-> b])
  BY DEF CommitChanges
<1>. HIDE DEF C
<1>. DEFINE r == [changes |-> C, ago |-> ago, behavioral |-> b]
<1>2. /\ log \in Seq(Commit) /\ log' \in Seq(Commit)
      /\ Len(log) \in Nat /\ DOMAIN log = 1 .. Len(log)
      /\ mined \in 0 .. Len(log) /\ mined' = mined
  BY DEF TypeInv, TypeOK, CommitChanges
<1>3. r.changes = C
  OBVIOUS
<1>. HIDE DEF r
<1>4. /\ Len(log') = Len(log) + 1 /\ DOMAIN log' = 1 .. Len(log) + 1
      /\ \A i \in 1 .. Len(log) : log'[i] = log[i]
      /\ log'[Len(log) + 1] = r
  <2>1. log' = Append(log, r)
    BY <1>1 DEF r
  <2>. QED  BY <1>2, <2>1
<1>5. C \subseteq Change
  <2>1. r \in Commit
    BY <1>2, <1>4
  <2>. QED  BY <1>3, <2>1 DEF Commit
<1>6. History' = History \cup {<<Len(log) + 1, c>> : c \in C}
  <2>1. History' = UNION {{i} \X log'[i].changes : i \in 1 .. Len(log) + 1}
    BY <1>4 DEF History
  <2>2. History = UNION {{i} \X log'[i].changes : i \in 1 .. Len(log)}
    BY <1>2, <1>4 DEF History
  <2>3. 1 .. Len(log) + 1 = 1 .. Len(log) \cup {Len(log) + 1}
    BY <1>2
  <2>4. {Len(log) + 1} \X log'[Len(log) + 1].changes
           = {<<Len(log) + 1, c>> : c \in C}
    BY <1>3, <1>4
  <2>. HIDE DEF r
  <2>. QED  BY <2>1, <2>2, <2>3, <2>4
<1>7. MinedChanges' = MinedChanges
  <2>1. \A i \in 1 .. mined : log'[i] = log[i]
    BY <1>2, <1>4
  <2>. QED  BY <1>2, <2>1 DEF MinedChanges
<1>. QED  BY <1>2, <1>4, <1>5, <1>6, <1>7 DEF C

\* The names and the file of a change.
LEMMA MinedNames ==
    ASSUME NEW old, NEW new, NEW type, NEW file
    PROVE  LET c == Mined([old |-> old, new |-> new, type |-> type,
                           file |-> file])
           IN  /\ c.old = OrNone(old) /\ c.new = OrNone(new)
               /\ c.type = type /\ c.file = file
BY DEF Mined

LEMMA NoneIsNoRule ==
    /\ NoName \notin Rules /\ NoName \notin Names
    /\ \A n \in Rules : OrNone(n) = n /\ n \in Names
    /\ \A n : n \notin Rules => OrNone(n) = NoName
    /\ \A n : OrNone(n) \in Rules \cup {NoName}
BY HistoryAssumption DEF OrNone, Names

\* Rules are added under names that were never used.
LEMMA AddRulesTells ==
    ASSUME TypeInv, ~Reuse, NEW S \in SUBSET Rules, AddRules(S)
    PROVE  \E changes : CommitChanges(changes)
                        /\ Tells({Mined(c) : c \in changes})
<1>. DEFINE add(n) == [old |-> NoName, new |-> n, type |-> "ADD",
                       file |-> <<n, Len(log) + 1>>]
            changes == {add(n) : n \in S}
            C == {Mined(c) : c \in changes}
<1>1. CommitChanges(changes)
  BY DEF AddRules
<1>2. /\ \A c \in C : \E n \in S : c = Mined(add(n))
      /\ \A n \in S : Mined(add(n)) \in C
  OBVIOUS
<1>3. \A n \in S : /\ Mined(add(n)).old = NoName /\ Mined(add(n)).new = n
                   /\ Mined(add(n)).type = "ADD"
                   /\ Mined(add(n)).file = <<n, Len(log) + 1>>
  BY MinedNames, NoneIsNoRule
<1>4. \A n \in S : tree[n] = NoFile /\ ~Used(n) /\ n \in Rules
  BY DEF AddRules, Free
<1>5. \A n \in Rules : tree'[n] = IF n \in S THEN <<n, Len(log) + 1>> ELSE tree[n]
  BY NoneIsNoRule DEF AddRules
<1>. HIDE DEF C, add
<1>6. ASSUME NEW c \in C
      PROVE  /\ c.old = NoName /\ c.new \in Rules /\ c.new # NoName
             /\ tree'[c.new] = c.file
             /\ tree[c.new] = NoFile /\ ~Used(c.new)
             /\ c.file = <<c.new, Len(log) + 1>>
  <2>1. PICK n \in S : c = Mined(add(n))
    BY <1>2
  <2>2. c.old = NoName /\ c.new = n /\ c.file = <<n, Len(log) + 1>>
    BY <1>3, <2>1
  <2>. QED  BY <1>4, <1>5, <2>2, NoneIsNoRule
<1>7. \A c, d \in C : \A n \in Rules :
          n \in {c.old, c.new} /\ n \in {d.old, d.new} => c = d
  BY <1>2, <1>3, NoneIsNoRule
<1>8. \A n \in Rules : tree'[n] # tree[n] =>
          /\ tree[n] # NoFile => \E c \in C : c.old = n /\ c.new # n
          /\ tree'[n] # NoFile => \E c \in C : c.new = n /\ c.old # n
  BY <1>2, <1>3, <1>4, <1>5, NoneIsNoRule
<1>9. Tells(C)
  BY <1>6, <1>7, <1>8 DEF Tells
<1>. QED  BY <1>1, <1>9 DEF C

\* A rule is edited under the name it has.
LEMMA ModifyRulesTells ==
    ASSUME TypeInv, NEW S \in SUBSET Rules, ModifyRules(S)
    PROVE  \E changes : CommitChanges(changes)
                        /\ Tells({Mined(c) : c \in changes})
<1>. DEFINE edit(n) == [old |-> n, new |-> n, type |-> "MODIFY",
                        file |-> tree[n]]
            changes == {edit(n) : n \in S}
            C == {Mined(c) : c \in changes}
<1>1. CommitChanges(changes) /\ tree' = tree
  BY DEF ModifyRules
<1>2. \A c \in C : \E n \in S : c = Mined(edit(n))
  OBVIOUS
<1>3. \A n \in S : /\ Mined(edit(n)).old = n /\ Mined(edit(n)).new = n
                   /\ Mined(edit(n)).type = "MODIFY"
                   /\ Mined(edit(n)).file = tree[n]
  BY MinedNames, NoneIsNoRule
<1>. HIDE DEF C, edit
<1>4. Tells(C)
  BY <1>1, <1>2, <1>3 DEF Tells
<1>. QED  BY <1>1, <1>4 DEF C

\* A file is renamed to a name that was never used, or leaves the rules.
LEMMA RenameFileTells ==
    ASSUME TypeInv, ~Reuse, NEW m \in Names, NEW n \in Names, RenameFile(m, n)
    PROVE  \E changes : CommitChanges(changes)
                        /\ Tells({Mined(c) : c \in changes})
<1>. DEFINE rename == [old |-> m, new |-> n, type |-> "RENAME",
                       file |-> tree[m]]
            changes == {rename}
            C == {Mined(c) : c \in changes}
            c == Mined(rename)
<1>1. CommitChanges(changes)
  BY DEF RenameFile
<1>2. C = {c}
  OBVIOUS
<1>3. /\ c.old = OrNone(m) /\ c.new = OrNone(n) /\ c.type = "RENAME"
      /\ c.file = tree[m]
  BY MinedNames
<1>4. tree[m] # NoFile /\ tree[n] = NoFile /\ m # n /\ ~Used(n)
  BY DEF RenameFile, Free
<1>5. \A k \in Names : tree'[k] = IF k = n THEN tree[m]
                                  ELSE IF k = m THEN NoFile ELSE tree[k]
  BY <1>4 DEF RenameFile, TypeInv, TypeOK
<1>. HIDE DEF C, c, rename
<1>6. /\ c.old # NoName => m \in Rules /\ c.old = m
      /\ c.new # NoName => n \in Rules /\ c.new = n
      /\ m \in Rules => c.old = m
      /\ n \in Rules => c.new = n
  BY <1>3, NoneIsNoRule
<1>7. /\ c.old # NoName => tree[c.old] = c.file
      /\ c.new # NoName => tree'[c.new] = c.file
      /\ c.old # NoName => tree'[c.old] = NoFile
      /\ c.new # NoName => tree[c.new] = NoFile /\ ~Used(c.new)
  BY <1>3, <1>4, <1>5, <1>6
<1>8. c.type # "ADD"
  BY <1>3
<1>9. \A k \in Rules : tree'[k] # tree[k] =>
          /\ tree[k] # NoFile => c.old = k /\ c.new # k
          /\ tree'[k] # NoFile => c.new = k /\ c.old # k
  BY <1>3, <1>4, <1>5, <1>6, NoneIsNoRule
<1>10. Tells(C)
  BY <1>2, <1>7, <1>8, <1>9 DEF Tells
<1>. QED  BY <1>1, <1>10 DEF C

\* A rule is deleted under the name it has.
LEMMA DeleteRuleTells ==
    ASSUME TypeInv, NEW n \in Rules, DeleteRule(n)
    PROVE  \E changes : CommitChanges(changes)
                        /\ Tells({Mined(c) : c \in changes})
<1>. DEFINE delete == [old |-> n, new |-> NoName, type |-> "DELETE",
                       file |-> tree[n]]
            changes == {delete}
            C == {Mined(c) : c \in changes}
            c == Mined(delete)
<1>1. CommitChanges(changes)
  BY DEF DeleteRule
<1>2. C = {c}
  OBVIOUS
<1>3. c.old = n /\ c.new = NoName /\ c.type = "DELETE" /\ c.file = tree[n]
  BY MinedNames, NoneIsNoRule
<1>4. \A k \in Rules : tree'[k] = IF k = n THEN NoFile ELSE tree[k]
  BY NoneIsNoRule DEF DeleteRule, TypeInv, TypeOK
<1>. HIDE DEF C, c, delete
<1>5. Tells(C)
  BY <1>2, <1>3, <1>4, NoneIsNoRule DEF Tells
<1>. QED  BY <1>1, <1>5 DEF C

\* Whatever a commit does that its changes tell keeps HistoryInv.
LEMMA CommitKeepsHistory ==
    ASSUME TypeInv, TypeInv', HistoryInv, NEW changes, CommitChanges(changes),
           Tells({Mined(c) : c \in changes})
    PROVE  HistoryInv'
<1>. DEFINE C == {Mined(c) : c \in changes}
            now == Len(log) + 1
<1>1. /\ History' = History \cup {<<now, c>> : c \in C}
      /\ C \subseteq Change /\ Len(log) \in Nat
  BY HistoryGrows
<1>2. Tells(C)
  OBVIOUS
<1>. HIDE DEF C
<1>3. /\ \A t \in History' \ History : t[1] = now /\ t[2] \in C
      /\ History \subseteq History'
      /\ \A c \in C : <<now, c>> \in History' /\ <<now, c>>[2] = c
  BY <1>1
<1>4. \A t \in History : /\ t[1] \in Nat /\ t[1] < now /\ t[2] \in Change
                         /\ t = <<t[1], t[2]>>
  BY <1>1, HistoryMember DEF TypeInv
<1>5. \A t \in History : \A n \in Rules : Mentions(t, n) => Used(n)
  BY HistoryMember DEF TypeInv, Mentions, Used
<1>6. \A t \in History' : /\ t[1] \in Nat /\ t[1] <= now
                          /\ t[2].new \in Rules \cup {NoName}
                          /\ t[2].old \in Rules \cup {NoName}
                          /\ t[2].file \in Files
                          /\ t = <<t[1], t[2]>>
  <2>1. \A t \in History' : t[1] \in Nat /\ t[1] <= now /\ t[2] \in Change
    BY <1>1, <1>3, <1>4
  <2>2. \A t \in History' : t = <<t[1], t[2]>>
    BY <1>1, <1>4
  <2>. QED  BY <2>1, <2>2 DEF Change
<1>7. NoFile \notin Files
  BY DEF Files, NoFile
<1>8. \A t, u \in History' \ History : \A n \in Rules :
         Mentions(t, n) /\ Mentions(u, n) => t = u
  <2>1. \A c, d \in C : \A n \in Rules :
          n \in {c.old, c.new} /\ n \in {d.old, d.new} => c = d
    BY <1>2 DEF Tells
  <2>. QED  BY <1>3, <1>6, <2>1 DEF Mentions
<1>9. ASSUME NEW t \in History' \ History, NEW n \in Rules
      PROVE  /\ t[2].old = n => tree[n] = t[2].file
             /\ t[2].new = n => tree'[n] = t[2].file
             /\ Leaves(t, n) => tree'[n] = NoFile
             /\ Enters(t, n) => tree[n] = NoFile /\ ~Used(n)
  <2>1. t[2] \in C /\ n # NoName
    BY <1>3, NoneIsNoRule
  <2>. QED  BY <1>2, <2>1 DEF Tells, Leaves, Enters
<1>10. ASSUME NEW n \in Rules, tree'[n] # tree[n]
       PROVE  /\ tree[n] # NoFile => \E w \in History' \ History : Leaves(w, n)
              /\ tree'[n] # NoFile => \E w \in History' \ History : Enters(w, n)
  <2>1. /\ tree[n] # NoFile => \E c \in C : c.old = n /\ c.new # n
        /\ tree'[n] # NoFile => \E c \in C : c.new = n /\ c.old # n
    BY <1>2, <1>10 DEF Tells
  <2>2. \A c \in C : <<now, c>> \in History' \ History
    BY <1>3, <1>4
  <2>. QED  BY <1>3, <2>1, <2>2 DEF Leaves, Enters
<1>11. OneOwner'
  <2>. SUFFICES ASSUME NEW n \in Rules, NEW t \in History', Mentions(t, n)
                PROVE  /\ \A u \in History' : Mentions(u, n) =>
                                                 u[2].file = t[2].file
                       /\ tree'[n] # NoFile => tree'[n] = t[2].file
    BY DEF OneOwner, Mentions
  <2>1. OneOwner
    BY DEF HistoryInv
  <2>2. ASSUME NEW u \in History, NEW v \in History' \ History,
               Mentions(u, n), Mentions(v, n)
        PROVE  u[2].file = v[2].file
    <3>1. v[2].old = n
      BY <1>5, <1>9, <2>2 DEF Mentions, Enters
    <3>2. tree[n] = v[2].file
      BY <1>9, <3>1
    <3>. QED  BY <1>6, <1>7, <2>1, <2>2, <3>2 DEF OneOwner
  <2>3. \A u \in History' : Mentions(u, n) => u[2].file = t[2].file
    BY <1>8, <2>1, <2>2 DEF OneOwner
  <2>4. ASSUME tree'[n] # NoFile  PROVE tree'[n] = t[2].file
    <3>1. CASE tree'[n] = tree[n]
      <4>1. CASE t \in History
        BY <2>1, <2>4, <3>1, <4>1 DEF OneOwner
      <4>2. CASE t \notin History
        BY <1>9, <3>1, <4>2 DEF Mentions
      <4>. QED  BY <4>1, <4>2
    <3>2. CASE tree'[n] # tree[n]
      <4>1. PICK w \in History' \ History : Enters(w, n)
        BY <1>10, <2>4, <3>2
      <4>2. tree'[n] = w[2].file /\ Mentions(w, n)
        BY <1>9, <4>1 DEF Enters, Mentions
      <4>. QED  BY <2>3, <4>2
    <3>. QED  BY <3>1, <3>2
  <2>. QED  BY <2>3, <2>4
<1>12. LeftIsGone'
  <2>. SUFFICES ASSUME NEW n \in Rules, NEW t \in History', Leaves(t, n)
                PROVE  tree'[n] = NoFile
    BY DEF LeftIsGone, Leaves
  <2>1. CASE t \in History
    <3>1. tree[n] = NoFile /\ Used(n)
      BY <1>5, <2>1 DEF HistoryInv, LeftIsGone, Leaves, Mentions
    <3>. QED  BY <1>9, <1>10, <3>1
  <2>2. CASE t \notin History
    BY <1>9, <2>2
  <2>. QED  BY <2>1, <2>2
<1>13. GoneIsLeft'
  <2>. SUFFICES ASSUME NEW n \in Rules, NEW t \in History',
                       t[2].new = n, tree'[n] # t[2].file
                PROVE  \E w \in History' : Leaves(w, n)
    BY DEF GoneIsLeft, Leaves
  <2>1. t \in History /\ Mentions(t, n)
    BY <1>9 DEF Mentions
  <2>2. CASE tree[n] # t[2].file
    BY <1>3, <2>1, <2>2 DEF HistoryInv, GoneIsLeft
  <2>3. CASE tree[n] = t[2].file
    <3>1. tree[n] # NoFile /\ tree'[n] # tree[n]
      BY <1>6, <1>7, <2>3
    <3>. QED  BY <1>10, <3>1
  <2>. QED  BY <2>2, <2>3
<1>14. EnteredFirst'
  <2>. SUFFICES ASSUME NEW n \in Rules, NEW t \in History', NEW u \in History',
                       Enters(t, n), Mentions(u, n)
                PROVE  t[1] <= u[1] /\ (t[1] = u[1] => t = u)
    BY DEF EnteredFirst, Enters, Mentions
  <2>1. Mentions(t, n)
    BY DEF Enters, Mentions
  <2>2. CASE t \in History /\ u \in History
    BY <2>2 DEF HistoryInv, EnteredFirst
  <2>3. CASE t \in History /\ u \notin History
    BY <1>3, <1>4, <2>3
  <2>4. CASE t \notin History /\ u \in History
    BY <1>5, <1>9, <2>4
  <2>5. CASE t \notin History /\ u \notin History
    BY <1>1, <1>3, <1>8, <2>1, <2>5
  <2>. QED  BY <2>2, <2>3, <2>4, <2>5
<1>15. LeftOnce'
  <2>. SUFFICES ASSUME NEW n \in Rules, NEW t \in History', NEW u \in History',
                       Leaves(t, n), Leaves(u, n)
                PROVE  t = u
    BY DEF LeftOnce, Leaves
  <2>1. ASSUME NEW v \in History, NEW w \in History' \ History,
               Leaves(v, n), Leaves(w, n)
        PROVE  FALSE
    <3>1. tree[n] = NoFile
      BY <2>1 DEF HistoryInv, LeftIsGone
    <3>2. tree[n] = w[2].file
      BY <1>9, <2>1 DEF Leaves
    <3>. QED  BY <1>6, <1>7, <3>1, <3>2
  <2>2. Mentions(t, n) /\ Mentions(u, n)
    BY DEF Leaves, Mentions
  <2>3. t \in History /\ u \in History => t = u
    BY DEF HistoryInv, LeftOnce
  <2>. QED  BY <1>8, <2>1, <2>2, <2>3
<1>16. OneNameLeft'
  <2>. SUFFICES ASSUME NEW t \in History', NEW u \in History',
                       t[2].file = u[2].file, t[2].new # u[2].new,
                       NoName \notin {t[2].new, u[2].new}, u[1] <= t[1]
                PROVE  \E w \in History' :
                          w[1] <= t[1] /\ (Leaves(w, t[2].new)
                                            \/ Leaves(w, u[2].new))
    BY Zenon DEF OneNameLeft, Leaves
  <2>1. CASE t \in History
    <3>1. u \in History
      BY <1>3, <1>4, <2>1
    <3>2. PICK w \in History : /\ w[1] <= t[1]
                               /\ Leaves(w, t[2].new) \/ Leaves(w, u[2].new)
      BY <2>1, <3>1 DEF HistoryInv, OneNameLeft
    <3>. QED  BY <1>3, <3>2
  <2>2. CASE t \notin History
    <3>1. t[2].new \in Rules /\ u[2].new \in Rules
      BY <1>6
    <3>2. tree'[t[2].new] = t[2].file /\ t[1] = now
      BY <1>3, <1>9, <2>2, <3>1
    <3>3. tree'[u[2].new] # u[2].file
      BY <1>6, <1>7, <3>1, <3>2, NoneIsNoRule DEF TypeInv, TypeOK
    <3>4. PICK w \in History' : Leaves(w, u[2].new)
      BY <1>13, <3>1, <3>3 DEF GoneIsLeft, Leaves
    <3>. QED  BY <1>6, <3>2, <3>4
  <2>. QED  BY <2>1, <2>2
<1>17. AddCreates'
  <2>. SUFFICES ASSUME NEW t \in History', t[2].type = "ADD"
                PROVE  /\ t[2].new \in Rules /\ t[2].old = NoName
                       /\ t[2].file = <<t[2].new, t[1]>>
    BY DEF AddCreates
  <2>1. CASE t \in History
    BY <2>1 DEF HistoryInv, AddCreates
  <2>2. CASE t \notin History
    BY <1>2, <1>3, <2>2 DEF Tells
  <2>. QED  BY <2>1, <2>2
<1>. QED  BY <1>11, <1>12, <1>13, <1>14, <1>15, <1>16, <1>17 DEF HistoryInv

-----------------------------------------------------------------------------
(***************************************************************************)
(* _resolve_canonical.                                                     *)
(***************************************************************************)
\* One more rename followed, and the names it may be at.
Follow(w, renamedTo) ==
    IF w.at \in DOMAIN renamedTo \ w.been
    THEN [at |-> renamedTo[w.at], been |-> w.been \cup {w.at}]
    ELSE w

Walks(f, path, renamedTo, V) ==
    LET D == DOMAIN renamedTo
        N == Cardinality(D)
    IN  /\ f \in [0 .. N -> [at : V, been : SUBSET D]]
        /\ f[0] = [at |-> path, been |-> {}]
        /\ \A k \in 1 .. N : f[k] = Follow(f[k - 1], renamedTo)
        /\ ResolveCanonical(path, renamedTo) = f[N].at

\* Renames are followed one after the other, as many as there may be.
LEMMA ResolveFollows ==
    ASSUME NEW V, NEW D \in SUBSET V, IsFiniteSet(D), NEW map \in [D -> V],
           NEW path \in V
    PROVE  \E f : Walks(f, path, map, V)
<1>. DEFINE N == Cardinality(D)
            S == [at : V, been : SUBSET D]
            start == [at |-> path, been |-> {}]
            step == [w \in S |-> Follow(w, map)]
<1>1. N \in Nat
  BY FS_CardinalityType
<1>2. start \in S
  OBVIOUS
<1>3. step \in [S -> S]
  BY DEF Follow
<1>. HIDE DEF S, start, N
<1>4. PICK f \in [0 .. N -> S] :
          f[0] = start /\ \A k \in 1 .. N : f[k] = step[f[k - 1]]
  <2>. HIDE DEF step
  <2>1. \E f : Iterates(f, S, start, step, N)
    BY <1>1, <1>2, <1>3, Iteration
  <2>. QED  BY <2>1 DEF Iterates
<1>5. \A k \in 1 .. N : f[k - 1] \in S /\ f[k] = Follow(f[k - 1], map)
  <2>1. \A k \in 1 .. N : k - 1 \in 0 .. N
    BY <1>1
  <2>. QED  BY <1>4, <2>1
<1>. DEFINE next(g, k) == IF k = 0 THEN [at |-> path, been |-> {}]
                          ELSE LET w == g[k - 1]
                               IN  IF w.at \in DOMAIN map \ w.been
                                   THEN [at   |-> map[w.at],
                                         been |-> w.been \cup {w.at}]
                                   ELSE w
            rec(g) == [k \in 0 .. N |-> next(g, k)]
            walk == CHOOSE g : g = rec(g)
<1>6. \A k \in 1 .. N : next(f, k) = f[k]
  BY <1>1, <1>5 DEF Follow
<1>7. f = rec(f)
  <2>1. next(f, 0) = f[0]
    BY <1>4 DEF start
  <2>2. \A k \in 0 .. N : next(f, k) = f[k]
    <3>1. \A k \in 0 .. N : k = 0 \/ k \in 1 .. N
      BY <1>1
    <3>. HIDE DEF next
    <3>. QED  BY <1>6, <2>1, <3>1
  <2>. HIDE DEF next
  <2>. QED  BY <1>4, <2>2
<1>8. walk = rec(walk)
  <2>. HIDE DEF rec
  <2>. QED  BY <1>7
<1>9. ResolveCanonical(path, map) = walk[N].at
  BY DEF ResolveCanonical, N
<1>10. \A k \in 0 .. N : walk[k] = next(walk, k)
  <2>. HIDE DEF walk, next
  <2>. QED  BY <1>8
<1>. HIDE DEF walk
<1>11. \A k \in 0 .. N : walk[k] = f[k]
  <2>. DEFINE T == {n \in Nat : n <= N => walk[n] = f[n]}
  <2>1. 0 \in T
    <3>1. next(walk, 0) = f[0] /\ 0 \in 0 .. N
      BY <1>1, <1>4 DEF start
    <3>. HIDE DEF next
    <3>. QED  BY <1>10, <3>1
  <2>2. ASSUME NEW n \in T  PROVE n + 1 \in T
    <3>. SUFFICES ASSUME n + 1 <= N  PROVE walk[n + 1] = f[n + 1]
      OBVIOUS
    <3>1. n + 1 \in 1 .. N /\ n + 1 \in 0 .. N /\ (n + 1) - 1 = n /\ n + 1 # 0
      BY <1>1
    <3>2. walk[n] = f[n]
      BY <1>1, <3>1
    <3>3. next(walk, n + 1) = next(f, n + 1)
      BY <3>1, <3>2
    <3>. HIDE DEF next
    <3>. QED  BY <1>6, <1>10, <3>1, <3>3
  <2>3. T \in SUBSET Nat
    OBVIOUS
  <2>. HIDE DEF T
  <2>4. T = Nat
    BY <2>1, <2>2, <2>3, SetInduction
  <2>. QED  BY <1>1, <2>4 DEF T
<1>12. ResolveCanonical(path, map) = f[N].at
  BY <1>1, <1>9, <1>11
<1>13. DOMAIN map = D
  OBVIOUS
<1>. QED  BY <1>4, <1>5, <1>12, <1>13 DEF N, S, start, Walks

\* The renames mined are changes of the history between two rule names.
LEMMA RenamesAreMoves ==
    ASSUME TypeInv
    PROVE  /\ Renames \subseteq History
           /\ \A w \in Renames : /\ w[2].old \in Rules /\ w[2].new \in Rules
                                 /\ Leaves(w, w[2].old) /\ Enters(w, w[2].new)
                                 /\ Mentions(w, w[2].old)
                                 /\ w[1] \in Nat /\ w \in MinedChanges
<1>1. /\ MinedChanges \subseteq History
      /\ \A t \in History : t[2] \in Change /\ t[1] \in 1 .. Len(log)
  BY HistoryMember DEF TypeInv
<1>2. \A w \in Renames : /\ w \in MinedChanges /\ w[2].old # NoName
                         /\ w[2].new # NoName /\ w[2].old # w[2].new
  BY DEF Renames
<1>3. \A w \in Renames : w[2].old \in Rules /\ w[2].new \in Rules /\ w[1] \in Nat
  BY <1>1, <1>2 DEF Change
<1>. QED  BY <1>1, <1>2, <1>3 DEF Leaves, Enters, Mentions

\* The map of renames has the one rename of each name that was left.
LEMMA RenamedToMaps ==
    ASSUME TypeInv, HistoryInv
    PROVE  LET map == BuildRenamedTo
               D   == DOMAIN map
           IN  /\ D \subseteq Rules /\ IsFiniteSet(D) /\ map \in [D -> Rules]
               /\ \A n \in D : \E w \in Renames :
                     w[2].old = n /\ w[2].new = map[n]
               /\ \A w \in Renames : w[2].old \in D
<1>. DEFINE map == BuildRenamedTo
            D   == {t[2].old : t \in Renames}
            last(n) == CHOOSE t \in Renames :
                          /\ t[2].old = n
                          /\ \A u \in Renames : u[2].old = n => u[1] <= t[1]
<1>1. map = [n \in D |-> last(n)[2].new]
  BY DEF BuildRenamedTo
<1>2. ASSUME NEW n \in D
      PROVE  last(n) \in Renames /\ last(n)[2].old = n
  <2>1. PICK w \in Renames : w[2].old = n
    OBVIOUS
  <2>2. \A u \in Renames : u[2].old = n => u = w
    BY <2>1, RenamesAreMoves DEF HistoryInv, LeftOnce
  <2>3. \A u \in Renames : u[2].old = n => u[1] <= w[1]
    BY <2>1, <2>2, RenamesAreMoves
  <2>. QED  BY <2>1, <2>3
<1>. HIDE DEF last
<1>3. map \in [D -> Rules] /\ DOMAIN map = D
  BY <1>1, <1>2, RenamesAreMoves
<1>4. \A n \in D : \E w \in Renames : w[2].old = n /\ w[2].new = map[n]
  BY <1>1, <1>2
<1>5. D \subseteq Rules
  BY RenamesAreMoves
<1>6. IsFiniteSet(D)
  BY <1>5, HistoryAssumption, FS_Subset
<1>7. \A w \in Renames : w[2].old \in D
  OBVIOUS
<1>. HIDE DEF map, D
<1>. QED  BY <1>3, <1>4, <1>5, <1>6, <1>7 DEF map

\* _resolve_canonical ends at a name that was not renamed, and never leaves a
\* set of names that renames do not leave: no name is met twice on the way.
LEMMA ResolveReaches ==
    ASSUME TypeInv, HistoryInv,
           NEW Q \in SUBSET (Rules \cup {NoName}), NEW path \in Q,
           \A w \in Renames : w[2].old \in Q => w[2].new \in Q
    PROVE  LET end == ResolveCanonical(path, BuildRenamedTo)
           IN  end \in Q /\ end \notin DOMAIN BuildRenamedTo
<1>. DEFINE map == BuildRenamedTo
            D   == DOMAIN map
            N   == Cardinality(D)
            V   == Rules \cup {NoName}
<1>1. /\ D \subseteq Rules /\ IsFiniteSet(D) /\ map \in [D -> Rules]
      /\ \A n \in D : \E w \in Renames : w[2].old = n /\ w[2].new = map[n]
  BY RenamedToMaps
<1>. HIDE DEF map
<1>2. N \in Nat
  BY <1>1, FS_CardinalityType
<1>3. PICK f \in [0 .. N -> [at : V, been : SUBSET D]] :
          /\ f[0] = [at |-> path, been |-> {}]
          /\ \A k \in 1 .. N : f[k] = Follow(f[k - 1], map)
          /\ ResolveCanonical(path, map) = f[N].at
  <2>1. D \in SUBSET V /\ map \in [D -> V] /\ path \in V
    BY <1>1
  <2>2. \E f : Walks(f, path, map, V)
    <3>. HIDE DEF V
    <3>. QED  BY <1>1, <2>1, ResolveFollows
  <2>. QED  BY <2>2 DEF Walks
<1>. DEFINE came(w) == \E e \in Renames :
                          /\ e[2].new = w.at
                          /\ \A x \in w.been : \E v \in Renames :
                                v[2].old = x /\ v[1] <= e[1]
            moving(w, k) == /\ Cardinality(w.been) = k /\ w.at \notin w.been
                            /\ w.been = {} \/ came(w)
            onTheWay(k) == /\ f[k].at \in Q
                           /\ f[k].at \in D => moving(f[k], k)
            T == {k \in Nat : k <= N => onTheWay(k)}
<1>4. 0 \in T
  <2>1. onTheWay(0)
    BY <1>3, FS_EmptySet
  <2>. QED  BY <2>1
<1>5. ASSUME NEW k \in T  PROVE k + 1 \in T
  <2>. SUFFICES ASSUME k + 1 <= N  PROVE onTheWay(k + 1)
    BY DEF T
  <2>. DEFINE w == f[k]
              next == f[k + 1]
  <2>1. /\ k \in Nat /\ k \in 0 .. N /\ k + 1 \in 1 .. N /\ (k + 1) - 1 = k
        /\ onTheWay(k)
    BY <1>2 DEF T
  <2>2. w \in [at : V, been : SUBSET D] /\ next = Follow(w, map)
    BY <1>3, <2>1
  <2>3. CASE w.at \notin D
    <3>1. next = w
      BY <2>2, <2>3 DEF Follow
    <3>. QED  BY <2>1, <2>3, <3>1
  <2>4. CASE w.at \in D
    <3>1. moving(w, k) /\ w.at \in Q
      BY <2>1, <2>4
    <3>2. next = [at |-> map[w.at], been |-> w.been \cup {w.at}]
      BY <2>2, <2>4, <3>1 DEF Follow
    <3>. HIDE DEF next, w
    <3>3. PICK m \in Renames : m[2].old = w.at /\ m[2].new = map[w.at]
      BY <1>1, <2>4
    <3>4. m[2].new \in Q /\ m[2].new = next.at
      BY <3>1, <3>2, <3>3
    <3>5. \A x \in next.been : \E v \in Renames : v[2].old = x /\ v[1] <= m[1]
      <4>1. CASE w.been = {}
        BY <3>2, <3>3, <4>1, RenamesAreMoves
      <4>2. CASE came(w)
        <5>1. PICK e \in Renames :
                 /\ e[2].new = w.at
                 /\ \A x \in w.been : \E v \in Renames :
                       v[2].old = x /\ v[1] <= e[1]
          BY <4>2
        <5>2. /\ e \in History /\ m \in History /\ w.at \in Rules
              /\ Enters(e, w.at) /\ Mentions(m, w.at)
          BY <3>3, <5>1, RenamesAreMoves
        <5>3. e[1] <= m[1]
          BY <5>2 DEF HistoryInv, EnteredFirst
        <5>4. ASSUME NEW x \in w.been
              PROVE  \E v \in Renames : v[2].old = x /\ v[1] <= m[1]
          <6>1. PICK v \in Renames : v[2].old = x /\ v[1] <= e[1]
            BY <5>1
          <6>2. v[1] <= m[1]
            BY <5>3, <6>1, RenamesAreMoves
          <6>. QED  BY <6>1, <6>2
        <5>. QED  BY <3>2, <3>3, <5>4, RenamesAreMoves
      <4>. QED  BY <3>1, <4>1, <4>2
    <3>6. next.at \notin next.been
      <4>. SUFFICES ASSUME next.at \in next.been  PROVE FALSE
        OBVIOUS
      <4>1. PICK v \in Renames : v[2].old = next.at /\ v[1] <= m[1]
        BY <3>5
      <4>2. /\ m \in History /\ v \in History /\ next.at \in Rules
            /\ Enters(m, next.at) /\ Mentions(v, next.at)
        BY <3>4, <4>1, RenamesAreMoves
      <4>3. m[1] <= v[1] /\ (m[1] = v[1] => m = v)
        BY <4>2 DEF HistoryInv, EnteredFirst
      <4>4. m = v
        BY <4>1, <4>3, RenamesAreMoves
      <4>. QED  BY <4>1, <4>2, <4>4 DEF Enters
    <3>7. Cardinality(next.been) = k + 1
      <4>1. w.been \in SUBSET D
        BY <2>2 DEF w
      <4>2. IsFiniteSet(w.been)
        BY <1>1, <4>1, FS_Subset
      <4>3. Cardinality(w.been \cup {w.at}) = Cardinality(w.been) + 1
        BY <3>1, <4>2, FS_AddElement
      <4>. QED  BY <3>1, <3>2, <4>3
    <3>. QED  BY <3>4, <3>5, <3>6, <3>7 DEF next
  <2>. QED  BY <2>3, <2>4
<1>6. T \in SUBSET Nat
  OBVIOUS
<1>7. onTheWay(N)
  <2>. HIDE DEF onTheWay
  <2>1. \A k \in Nat : k \in T <=> (k <= N => onTheWay(k))
    OBVIOUS
  <2>. HIDE DEF T
  <2>2. T = Nat
    BY <1>4, <1>5, <1>6, SetInduction
  <2>. QED  BY <1>2, <2>1, <2>2
<1>8. f[N].at \notin D
  <2>. SUFFICES ASSUME f[N].at \in D  PROVE FALSE
    OBVIOUS
  <2>1. f[N].been \in SUBSET D /\ f[N] \in [at : V, been : SUBSET D]
    BY <1>2, <1>3
  <2>2. Cardinality(f[N].been) = Cardinality(D) /\ f[N].at \notin f[N].been
    BY <1>7
  <2>3. f[N].been = D
    BY <1>1, <2>1, <2>2, FS_Subset
  <2>. QED  BY <2>2, <2>3
<1>. QED  BY <1>3, <1>7, <1>8 DEF map

-----------------------------------------------------------------------------
(***************************************************************************)
(* Touches follow the file.                                                *)
(***************************************************************************)
\* The name a touch counts for, before renames are followed.
Touched(t) == IF t[2].new # NoName THEN t[2].new ELSE t[2].old

\* A touch counts for a name only of the file that has it.
LEMMA TouchIsOwn ==
    ASSUME TypeInv, HistoryInv, NEW t \in MinedChanges, NEW r \in Rules,
           ResolveCanonical(Touched(t), BuildRenamedTo) = r
    PROVE  \E u \in MinedChanges : Mentions(u, r) /\ u[2].file = t[2].file
<1>. DEFINE Q == {n \in Rules \cup {NoName} :
                    \E u \in MinedChanges :
                       Mentions(u, n) /\ u[2].file = t[2].file}
<1>1. MinedChanges \subseteq History /\ t[2] \in Change
  BY HistoryMember DEF TypeInv
<1>2. Touched(t) \in Q
  <2>1. Touched(t) \in Rules \cup {NoName}
    BY <1>1 DEF Touched, Change
  <2>2. Mentions(t, Touched(t))
    BY DEF Touched, Mentions
  <2>. QED  BY <2>1, <2>2
<1>3. ASSUME NEW w \in Renames, w[2].old \in Q  PROVE w[2].new \in Q
  <2>1. PICK u \in MinedChanges : Mentions(u, w[2].old) /\ u[2].file = t[2].file
    BY <1>3
  <2>2. /\ w[2].old \in Rules /\ w[2].new \in Rules /\ w \in MinedChanges
        /\ Mentions(w, w[2].old) /\ Mentions(w, w[2].new)
    BY RenamesAreMoves DEF Mentions
  <2>3. w[2].file = t[2].file
    BY <1>1, <2>1, <2>2 DEF HistoryInv, OneOwner
  <2>. QED  BY <2>2, <2>3
<1>4. Q \in SUBSET (Rules \cup {NoName})
  OBVIOUS
<1>. HIDE DEF Q
<1>5. r \in Q
  BY <1>2, <1>3, <1>4, ResolveReaches
<1>. QED  BY <1>5 DEF Q

\* A touch of a file that is followed to a name counts for that name.
LEMMA OwnIsTouch ==
    ASSUME TypeInv, HistoryInv, NEW r \in Rules, NEW file,
           \A u \in MinedChanges : u[2].file = file => u[2].new # NoName,
           \A u \in MinedChanges : ~Leaves(u, r),
           NEW here \in MinedChanges, here[2].file = file, here[2].new = r,
           NEW t \in MinedChanges, t[2].file = file
    PROVE  ResolveCanonical(Touched(t), BuildRenamedTo) = r
<1>. DEFINE Q == {n \in Rules \cup {NoName} :
                    \E u \in MinedChanges :
                       u[2].new = n /\ u[2].file = file}
            end == ResolveCanonical(Touched(t), BuildRenamedTo)
<1>1. /\ MinedChanges = {u \in History : u[1] <= mined}
      /\ \A u \in History : u[2] \in Change /\ u[1] \in 1 .. Len(log)
  BY HistoryMember DEF TypeInv
<1>2. \A u \in History : /\ u[2].old \in Rules \cup {NoName}
                         /\ u[2].new \in Rules \cup {NoName}
  BY <1>1 DEF Change
<1>3. Touched(t) \in Q
  BY <1>1, <1>2 DEF Touched
<1>4. ASSUME NEW w \in Renames, w[2].old \in Q  PROVE w[2].new \in Q
  <2>1. PICK u \in MinedChanges : u[2].new = w[2].old /\ u[2].file = file
    BY <1>4
  <2>2. /\ w[2].old \in Rules /\ w[2].new \in Rules /\ w \in MinedChanges
        /\ Mentions(w, w[2].old) /\ Mentions(u, w[2].old)
    BY <2>1, RenamesAreMoves DEF Mentions
  <2>3. w[2].file = file
    BY <1>1, <2>1, <2>2 DEF HistoryInv, OneOwner
  <2>. QED  BY <2>2, <2>3
<1>5. Q \in SUBSET (Rules \cup {NoName})
  OBVIOUS
<1>6. end \in Q /\ end \notin DOMAIN BuildRenamedTo
  <2>. HIDE DEF Q
  <2>. QED  BY <1>3, <1>4, <1>5, ResolveReaches
<1>. HIDE DEF end
<1>. SUFFICES ASSUME end # r  PROVE FALSE
  BY DEF end
<1>7. PICK u \in MinedChanges : u[2].new = end /\ u[2].file = file
  BY <1>6
<1>8. end \in Rules /\ end # NoName /\ r # NoName
  BY <1>2, <1>1, <1>7, NoneIsNoRule
<1>9. PICK w \in MinedChanges : Leaves(w, end) \/ Leaves(w, r)
  <2>1. u \in History /\ here \in History /\ u[1] \in Nat /\ here[1] \in Nat
        /\ u[1] <= mined /\ here[1] <= mined /\ mined \in Nat
    BY <1>1 DEF TypeInv, TypeOK
  <2>2. ASSUME NEW v \in History, v[1] <= u[1] \/ v[1] <= here[1]
        PROVE  v \in MinedChanges
    <3>1. v[1] \in Nat
      BY <1>1
    <3>. QED  BY <1>1, <2>1, <2>2, <3>1
  <2>3. OneNameLeft
    BY DEF HistoryInv
  <2>4. CASE u[1] <= here[1]
    <3>1. \E v \in History :
             v[1] <= here[1] /\ (Leaves(v, here[2].new) \/ Leaves(v, u[2].new))
      BY <1>7, <1>8, <2>1, <2>3, <2>4 DEF OneNameLeft
    <3>. QED  BY <1>7, <2>2, <3>1
  <2>5. CASE here[1] <= u[1]
    <3>1. \E v \in History :
             v[1] <= u[1] /\ (Leaves(v, u[2].new) \/ Leaves(v, here[2].new))
      BY <1>7, <1>8, <2>1, <2>3, <2>5 DEF OneNameLeft
    <3>. QED  BY <1>7, <2>2, <3>1
  <2>. QED  BY <2>1, <2>4, <2>5
<1>10. Leaves(w, end)
  BY <1>9
<1>11. w[2].file = file
  BY <1>1, <1>7, <1>8, <1>10 DEF HistoryInv, OneOwner, Leaves, Mentions
<1>12. w \in Renames
  BY <1>8, <1>10, <1>11 DEF Renames, Leaves
<1>. QED  BY <1>6, <1>10, <1>12, RenamedToMaps DEF Leaves

\* The inductive invariant implies that touches follow the file.
LEMMA TouchesFollow ==
    ASSUME AttributionInv
    PROVE  TouchesFollowTheFile
<1>. SUFFICES ASSUME NEW r \in Reported
              PROVE  /\ Touches(r) \subseteq Own(r)
                     /\ Followed(r) => Own(r) \subseteq Touches(r)
  BY DEF TouchesFollowTheFile
<1>1. r \in Rules
  BY DEF Reported, Current
<1>2. \A t \in MinedChanges : Mentions(t, r) =>
          t[2].file = seen[r] /\ ~Leaves(t, r)
  BY DEF AttributionInv, SeenOwner
<1>3. \A t : t \in Touches(r) <=>
          /\ t \in MinedChanges /\ ~Excluded(t[1], seen)
          /\ ResolveCanonical(Touched(t), BuildRenamedTo) = r
  BY DEF Touches, Touched
<1>4. \A t : t \in Own(r) <=>
          t \in MinedChanges /\ t[2].file = seen[r] /\ ~Excluded(t[1], seen)
  BY DEF Own
<1>5. ASSUME NEW t \in Touches(r)  PROVE t \in Own(r)
  <2>1. PICK u \in MinedChanges : Mentions(u, r) /\ u[2].file = t[2].file
    BY <1>1, <1>3, TouchIsOwn DEF AttributionInv
  <2>. QED  BY <1>2, <1>3, <1>4, <2>1
<1>6. ASSUME Followed(r), NEW t \in Own(r)  PROVE t \in Touches(r)
  <2>1. PICK here \in MinedChanges : here[2].file = seen[r] /\ here[2].new = r
    BY <1>6 DEF Followed
  <2>2. \A u \in MinedChanges : u[2].file = seen[r] => u[2].new # NoName
    BY <1>6 DEF Followed
  <2>3. \A u \in MinedChanges : ~Leaves(u, r)
    BY <1>2 DEF Leaves, Mentions
  <2>4. ResolveCanonical(Touched(t), BuildRenamedTo) = r
    BY <1>1, <1>4, <2>1, <2>2, <2>3, OwnIsTouch DEF AttributionInv
  <2>. QED  BY <1>3, <1>4, <2>4
<1>. QED  BY <1>5, <1>6

\* The report sees a rule under the name it had in the history.
LEMMA NextAttribution ==
    ASSUME AttributionInv, ~Reuse, [Next]_vars
    PROVE  AttributionInv'
<1>1. TypeInv /\ TypeInv' /\ HistoryInv
  BY NextTypes DEF AttributionInv
<1>2. CASE UserStep
  <2>1. PICK changes : CommitChanges(changes)
                       /\ Tells({Mined(c) : c \in changes})
    <3>1. \A r \in Rules : {r} \in SUBSET Rules
      OBVIOUS
    <3>2. Rules \in SUBSET Rules /\ Current(RulesNow) \in SUBSET Rules
      BY DEF Current
    <3>. QED  BY <1>1, <1>2, <3>1, <3>2, AddRulesTells, ModifyRulesTells,
                 RenameFileTells, DeleteRuleTells DEF UserStep
  <2>2. HistoryInv'
    BY <1>1, <2>1, CommitKeepsHistory
  <2>3. MinedChanges' = MinedChanges
    BY <1>1, <2>1, HistoryGrows
  <2>4. seen' = seen /\ phase' = phase
    BY <2>1 DEF CommitChanges
  <2>5. SeenOwner'
    BY <2>3, <2>4
       DEF AttributionInv, SeenOwner, Reported, Current, Mentions, Leaves
  <2>. QED  BY <1>1, <2>2, <2>5 DEF AttributionInv
<1>3. CASE ReportStep \/ UNCHANGED vars
  <2>1. tree' = tree /\ log' = log
    BY <1>3 DEF ReportStep, MineCommits, ComputeStaleness, ComputeSemanticDiff,
                EndReport, vars
  <2>2. History' = History
    BY <2>1 DEF History
  <2>3. HistoryInv'
    BY <1>1, <2>1, <2>2
       DEF HistoryInv, OneOwner, LeftIsGone, GoneIsLeft, EnteredFirst,
           LeftOnce, OneNameLeft, AddCreates, Mentions, Leaves, Enters
  <2>4. CASE phase' \notin {"stale", "diffed"}
    BY <1>1, <2>3, <2>4 DEF AttributionInv, SeenOwner, Reported
  <2>5. CASE ComputeStaleness
    <3>1. seen' = RulesNow /\ MinedChanges' = MinedChanges
      BY <2>1, <2>5 DEF ComputeStaleness, MinedChanges
    <3>2. MinedChanges \subseteq History
      BY <1>1, HistoryMember DEF TypeInv
    <3>3. ASSUME NEW r \in Reported', NEW t \in MinedChanges, Mentions(t, r)
          PROVE  t[2].file = seen'[r] /\ ~Leaves(t, r)
      <4>1. r \in Rules /\ seen'[r] # NoFile /\ seen'[r] = tree[r]
        BY <3>1 DEF Reported, Current, RulesNow
      <4>. QED  BY <1>1, <3>2, <3>3, <4>1
                   DEF HistoryInv, OneOwner, LeftIsGone
    <3>4. SeenOwner'
      BY <3>1, <3>3 DEF SeenOwner, Mentions, Leaves
    <3>. QED  BY <1>1, <2>3, <3>4 DEF AttributionInv
  <2>6. CASE phase' \in {"stale", "diffed"} /\ ~ComputeStaleness
    <3>1. /\ phase \in {"stale", "diffed"} /\ seen' = seen
          /\ MinedChanges' = MinedChanges
      BY <1>3, <2>1, <2>6
         DEF ReportStep, MineCommits, ComputeSemanticDiff, EndReport, vars,
             MinedChanges
    <3>2. SeenOwner'
      BY <2>6, <3>1
         DEF AttributionInv, SeenOwner, Reported, Current, Mentions, Leaves
    <3>. QED  BY <1>1, <2>3, <3>2 DEF AttributionInv
  <2>. QED  BY <2>4, <2>5, <2>6
<1>. QED  BY <1>2, <1>3 DEF Next

LEMMA InitAttribution == Init => AttributionInv
<1>. SUFFICES ASSUME Init  PROVE AttributionInv
  OBVIOUS
<1>1. TypeInv
  BY InitTypes
<1>2. History = {} /\ Reported = {}
  BY DEF Init, History, Reported
<1>3. HistoryInv
  BY <1>2 DEF HistoryInv, OneOwner, LeftIsGone, GoneIsLeft, EnteredFirst,
              LeftOnce, OneNameLeft, AddCreates
<1>. QED  BY <1>1, <1>2, <1>3 DEF AttributionInv, SeenOwner

\* As long as no name is used twice, every organic change counts for the rule
\* whose file it changed, under whatever names, and for no other, whatever the
\* user commits while the report is made (_build_renamed_to,
\* _resolve_canonical).
THEOREM TouchesFollowFiles ==
    ASSUME ~Reuse  PROVE Spec => []TouchesFollowTheFile
<1>1. Init => AttributionInv
  BY InitAttribution
<1>2. AttributionInv /\ [Next]_vars => AttributionInv'
  BY NextAttribution
<1>3. AttributionInv => TouchesFollowTheFile
  BY TouchesFollow
<1>. QED  BY <1>1, <1>2, <1>3, PTL DEF Spec

\* Of a file that is followed the touches are its own changes.
LEMMA RevisedIsTrue ==
    ASSUME AttributionInv
    PROVE  EverRevisedIsTrue
<1>. SUFFICES ASSUME NEW r \in Reported, Followed(r)
              PROVE  CASE EverRevised(r) = "unknown" -> Own(r) = {}
                       [] EverRevised(r) = "no" ->
                             \A t \in Own(r) : t[2].type = "ADD"
                       [] OTHER -> \E t \in Own(r) : t[2].type # "ADD"
  BY DEF EverRevisedIsTrue
<1>1. Touches(r) = Own(r)
  BY TouchesFollow DEF TouchesFollowTheFile
<1>2. ASSUME NEW t \in Own(r), NEW u \in Own(r),
             t[2].type = "ADD", u[2].type = "ADD"
      PROVE  t = u
  <2>1. t \in History /\ u \in History /\ t[2].file = u[2].file
    BY HistoryMember DEF Own, AttributionInv, TypeInv
  <2>2. /\ t[2].new \in Rules /\ t[2].old = NoName
        /\ u[2].new \in Rules /\ u[2].old = NoName
        /\ t[2].file = <<t[2].new, t[1]>> /\ u[2].file = <<u[2].new, u[1]>>
    BY <1>2, <2>1 DEF AttributionInv, HistoryInv, AddCreates
  <2>3. t[2].new = u[2].new /\ t[1] = u[1]
    <3>1. <<t[2].new, t[1]>> = <<u[2].new, u[1]>>
      BY <2>1, <2>2
    <3>. QED  BY <3>1
  <2>4. Enters(t, t[2].new) /\ Mentions(u, t[2].new)
    BY <2>2, <2>3, NoneIsNoRule DEF Enters, Mentions
  <2>. QED  BY <2>1, <2>2, <2>3, <2>4
               DEF AttributionInv, HistoryInv, EnteredFirst
<1>3. ASSUME Cardinality(Own(r)) > 1
      PROVE  \E t \in Own(r) : t[2].type # "ADD"
  <2>. SUFFICES ASSUME \A t \in Own(r) : t[2].type = "ADD"  PROVE FALSE
    OBVIOUS
  <2>1. CASE Own(r) = {}
    BY <1>3, <2>1, FS_EmptySet
  <2>2. CASE Own(r) # {}
    <3>1. PICK t : t \in Own(r)
      BY <2>2
    <3>2. Own(r) = {t}
      BY <1>2, <3>1
    <3>3. Cardinality(Own(r)) = 1
      BY <3>2, FS_Singleton
    <3>. QED  BY <1>3, <3>3
  <2>. QED  BY <2>1, <2>2
<1>4. CASE Own(r) = {}
  BY <1>1, <1>4 DEF EverRevised
<1>5. CASE Own(r) # {} /\ Cardinality(Own(r)) > 1
  BY <1>1, <1>3, <1>5 DEF EverRevised
<1>6. CASE Own(r) # {} /\ ~(Cardinality(Own(r)) > 1)
  <2>1. CASE \A t \in Own(r) : t[2].type = "ADD"
    BY <1>1, <1>6, <2>1 DEF EverRevised
  <2>2. CASE ~ \A t \in Own(r) : t[2].type = "ADD"
    BY <1>1, <1>6, <2>2 DEF EverRevised
  <2>. QED  BY <2>1, <2>2
<1>. QED  BY <1>4, <1>5, <1>6

\* As long as no name is used twice, what _ever_revised tells from counts and
\* types is what the file's own organic changes say.
THEOREM EverRevisedAsItWas ==
    ASSUME ~Reuse  PROVE Spec => []EverRevisedIsTrue
<1>1. Init => AttributionInv
  BY InitAttribution
<1>2. AttributionInv /\ [Next]_vars => AttributionInv'
  BY NextAttribution
<1>3. AttributionInv => EverRevisedIsTrue
  BY RevisedIsTrue
<1>. QED  BY <1>1, <1>2, <1>3, PTL DEF Spec
=============================================================================

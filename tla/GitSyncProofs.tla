--------------------------- MODULE GitSyncProofs ---------------------------
(***************************************************************************)
(* Proofs about GitSync, for any number of devices, files, records,        *)
(* failures and interrupted runs:                                          *)
(*                                                                         *)
(*  1. TypeCorrect: every state is well typed.                             *)
(*  2. Durability, MergesAreFinished: no run cut short, lost answer or     *)
(*     concurrent push loses a record some device was told is stored.      *)
(*     AckedIsStored is not inductive.  A push replaces the tip by a       *)
(*     commit that descends from it, so what matters is that a commit      *)
(*     keeps every record of its ancestors, which holds because what is    *)
(*     committed is a working tree that keeps every record of HEAD and of  *)
(*     MERGE_HEAD; and a push acknowledges what commit_all saw, so a run   *)
(*     has to carry that from its first commit to its push, through merges *)
(*     and the flattening reset.                                           *)
(*  3. SharedRefinement, LocalDataStays: every step is one of the abstract *)
(*     SharedRecords, and only deleting takes records out of a copy.  What *)
(*     a merge or a fast-forward brings in comes from origin/master, an    *)
(*     ancestor of the tip, whose records the tip therefore has.           *)
(*  4. MarkersNeverCommitted: what is flattened was repaired before.       *)
(*  5. PushesStayLinear: the merge commits that a device has not pushed,   *)
(*     and the merge it has in progress, are accounted for, but for those  *)
(*     that the run at work goes on to flatten.                            *)
(***************************************************************************)
EXTENDS GitSync, TLAPS

---------------------------------------------------------------------------
(* Types of the operators on texts, trees and commits. *)

\* The tree of no commit is a tree without records.
LEMMA EmptyTreeType == EmptyTree \in Tree
BY DEF EmptyTree, Tree, Text

\* Repairing files gives a tree, in which each file has the records it had.
LEMMA RepairedInType ==
  ASSUME NEW tree \in Tree, NEW fs
  PROVE  /\ RepairedIn(tree, fs) \in Tree
         /\ \A f \in File : UNION RepairedIn(tree, fs)[f] = UNION tree[f]
<1>1. ASSUME NEW f \in File
      PROVE  /\ UNION tree[f] \in SUBSET Entry
             /\ Merged(tree[f]) \in Text
             /\ UNION Merged(tree[f]) = UNION tree[f]
  BY DEF Tree, Text, Merged
<1>2. \A f \in File : tree[f] \in Text
  BY DEF Tree
<1>. QED  BY <1>1, <1>2 DEF RepairedIn, Tree

\* A three-way merge of two texts is a text.
LEMMA MergeTextType ==
  ASSUME NEW base, NEW ours \in Text, NEW theirs \in Text, NEW fits
  PROVE  MergeText(base, ours, theirs, fits) \in Text
<1>1. ours \cup theirs \in Text
  BY DEF Text
<1>2. \A v \in SUBSET Entry : {v} \in Text
  BY DEF Text
<1>3. ((UNION ours) \cap (UNION theirs)) \cup ((UNION ours) \ (UNION base))
         \cup ((UNION theirs) \ (UNION base)) \in SUBSET Entry
  BY DEF Text
<1>. QED  BY <1>1, <1>2, <1>3 DEF MergeText

\* Every commit number below the length of the history names a tree.
LEMMA TreeOfType ==
  ASSUME TypeOK, NEW c \in 0 .. Len(history)
  PROVE  TreeOf(c) \in Tree
<1>1. c # 0 => history[c] \in Commit
  BY DEF TypeOK
<1>. QED  BY <1>1, EmptyTreeType DEF TreeOf, Commit

\* The tree a merge makes of two commits is a tree.
LEMMA MergedTreeType ==
  ASSUME TypeOK, NEW base, NEW a \in 0 .. Len(history), NEW b \in 0 .. Len(history), NEW fits
  PROVE  MergedTree(base, a, b, fits) \in Tree
<1>1. \A f \in File : TreeOf(a)[f] \in Text /\ TreeOf(b)[f] \in Text
  BY TreeOfType DEF Tree
<1>2. \A f \in File :
        MergeText(TreeOf(base)[f], TreeOf(a)[f], TreeOf(b)[f], f \in fits) \in Text
  BY <1>1, MergeTextType
<1>. QED  BY <1>2 DEF MergedTree, Tree

\* A checkout over uncommitted edits leaves a tree.
LEMMA CheckedOutType ==
  ASSUME TypeOK, NEW d \in Device, NEW tree \in Tree
  PROVE  CheckedOut(d, tree) \in Tree
BY DEF CheckedOut, Tree, TypeOK

\* A commit with parents in the history is a commit.
LEMMA NewCommitType ==
  ASSUME TypeOK, NEW tree \in Tree, NEW ps \in SUBSET (1 .. Len(history))
  PROVE  /\ NewCommit(tree, ps) \in Commit
         /\ Append(history, NewCommit(tree, ps)) \in Seq(Commit)
         /\ Len(Append(history, NewCommit(tree, ps))) = Len(history) + 1
<1>1. \A p \in ps : history[p] \in Commit
  BY DEF TypeOK
<1>2. \A p \in ps : history[p].past \in SUBSET Nat
  BY <1>1 DEF Commit
<1>3. Len(history) \in Nat /\ ps \in SUBSET Nat
  BY DEF TypeOK
<1>4. NewCommit(tree, ps) \in Commit
  BY <1>2, <1>3 DEF NewCommit, Commit
<1>. QED  BY <1>4 DEF TypeOK

---------------------------------------------------------------------------
(* Type correctness. *)

\* A text stays one when records are added to it or taken from it.
LEMMA RecordsType ==
  ASSUME NEW tree \in Tree, NEW f \in File, NEW es \in SUBSET Entry
  PROVE  /\ [tree EXCEPT ![f] = {(UNION @) \cup es}] \in Tree
         /\ [tree EXCEPT ![f] = {(UNION @) \ es}] \in Tree
<1>1. UNION tree[f] \in SUBSET Entry
  BY DEF Tree, Text
<1>2. {(UNION tree[f]) \cup es} \in Text /\ {(UNION tree[f]) \ es} \in Text
  BY <1>1 DEF Text
<1>. QED  BY <1>2 DEF Tree

\* A function into the commits of a history is one into those of a longer one.
LEMMA LongerType ==
  ASSUME NEW m \in Nat, NEW n \in Nat, m <= n, NEW fn \in [Device -> 0 .. m]
  PROVE  fn \in [Device -> 0 .. n]
OBVIOUS

\* What a commit of the working tree does to the types.
LEMMA CommitWorkType ==
  ASSUME TypeOK, NEW d \in Device, CommitWork(d)
  PROVE  /\ history' \in Seq(Commit)
         /\ Len(history) \in Nat /\ Len(history') \in Nat
         /\ Len(history) <= Len(history')
         /\ work' \in [Device -> Tree]
         /\ head' \in [Device -> 0 .. Len(history')]
         /\ merging' \in [Device -> 0 .. Len(history')]
<1>. DEFINE w == Repaired(work[d])
            ps == {head[d], merging[d]} \ {0}
<1>1. w \in Tree
  BY RepairedInType DEF TypeOK, Repaired
<1>2. work' \in [Device -> Tree]
  BY <1>1 DEF TypeOK, CommitWork
<1>3. ps \in SUBSET (1 .. Len(history))
  BY DEF TypeOK
<1>4. Len(history) \in Nat
  BY DEF TypeOK
<1>5. CASE UNCHANGED <<history, head, merging>>
  BY <1>2, <1>4, <1>5 DEF TypeOK
<1>6. CASE history' = Append(history, NewCommit(w, ps))
           /\ head' = [head EXCEPT ![d] = Len(history) + 1]
           /\ merging' = [merging EXCEPT ![d] = 0]
  <2>1. history' \in Seq(Commit) /\ Len(history') = Len(history) + 1
    BY <1>1, <1>3, <1>6, NewCommitType
  <2>. QED  BY <1>2, <1>4, <1>6, <2>1 DEF TypeOK
<1>. QED  BY <1>5, <1>6 DEF CommitWork

\* The first state is well typed.
LEMMA InitType == Init => TypeOK
<1>1. SUFFICES ASSUME Init PROVE TypeOK
  OBVIOUS
<1>2. history \in Seq(Commit) /\ tip \in 0 .. Len(history)
  <2>1. CASE tip = 0
    BY <1>1, <2>1 DEF Init
  <2>2. CASE tip = 1
    <3>1. history = <<[tree |-> SeedTree, parents |-> {}, past |-> {1}]>>
      BY <1>1, <2>2 DEF Init
    <3>2. [tree |-> SeedTree, parents |-> {}, past |-> {1}] \in Commit
      BY ConstantsAssumption DEF ConstantsAssumption, Commit
    <3>. QED  BY <2>2, <3>1, <3>2
  <2>. QED  BY <1>1, <2>1, <2>2 DEF Init
<1>3. EntriesOf(SeedTree) \subseteq Entry
  BY ConstantsAssumption DEF ConstantsAssumption, EntriesOf, Tree, Text
<1>4. duplicated \in BOOLEAN /\ repo \in [Device -> BOOLEAN] /\ fetchFailed \in [Device -> BOOLEAN]
  BY <1>1 DEF Init
<1>5. work \in [Device -> Tree]
  BY <1>1, EmptyTreeType DEF Init
<1>6. /\ head \in [Device -> 0 .. Len(history)]
      /\ merging \in [Device -> 0 .. Len(history)]
      /\ tracking \in [Device -> 0 .. Len(history)]
  BY <1>1, <1>2 DEF Init
<1>7. /\ phase \in [Device -> Phase]
      /\ attempt \in [Device -> 0 .. MaxAttempts]
      /\ interrupts \in 0 .. MaxInterrupts
      /\ failures \in 0 .. MaxFailures
      /\ promised \in [Device -> SUBSET Entry]
  BY <1>1, ConstantsAssumption DEF ConstantsAssumption, Init, Phase
<1>8. /\ written \subseteq Entry /\ removed \subseteq Entry /\ acked \subseteq Entry
      /\ unflattened \subseteq SUBSET Nat
  BY <1>1, <1>3 DEF Init
<1>. QED  BY <1>2, <1>4, <1>5, <1>6, <1>7, <1>8 DEF TypeOK

\* Every step keeps the state well typed.
LEMMA NextType == TypeOK /\ [Next]_vars => TypeOK'
<1>. SUFFICES ASSUME TypeOK, [Next]_vars PROVE TypeOK'
  OBVIOUS
<1>. USE DEF Goto, localVars, loopVars, ghosts, records, budgets
<1>len. Len(history) \in Nat
  BY DEF TypeOK
<1>phase. \A d \in Device : \A p \in Phase : [phase EXCEPT ![d] = p] \in [Device -> Phase]
  BY DEF TypeOK
<1>stay. CASE UNCHANGED vars
  BY <1>stay DEF TypeOK, vars
<1>write. ASSUME NEW d \in Device, NEW e \in Entry, Write(d, e) PROVE TypeOK'
  <2>1. FileOf[e] \in File /\ work[d] \in Tree
    BY ConstantsAssumption DEF ConstantsAssumption, TypeOK
  <2>2. [work[d] EXCEPT ![FileOf[e]] = {(UNION @) \cup {e}}] \in Tree
    BY <2>1, RecordsType
  <2>3. work' \in [Device -> Tree]
    BY <1>write, <2>1, <2>2 DEF TypeOK, Write
  <2>. QED  BY <1>write, <2>3 DEF TypeOK, Write
<1>remove. ASSUME NEW d \in Device, NEW e \in Entry, Remove(d, e) PROVE TypeOK'
  <2>1. FileOf[e] \in File /\ work[d] \in Tree
    BY ConstantsAssumption DEF ConstantsAssumption, TypeOK
  <2>2. [work[d] EXCEPT ![FileOf[e]] = {(UNION @) \ {e}}] \in Tree
    BY <2>1, RecordsType
  <2>3. work' \in [Device -> Tree]
    BY <1>remove, <2>1, <2>2 DEF TypeOK, Remove
  <2>. QED  BY <1>remove, <2>3 DEF TypeOK, Remove
<1>delete. ASSUME NEW d \in Device, DeleteLocal(d) PROVE TypeOK'
  <2>1. /\ work' \in [Device -> Tree]
        /\ repo' \in [Device -> BOOLEAN]
        /\ head' \in [Device -> 0 .. Len(history)]
        /\ merging' \in [Device -> 0 .. Len(history)]
        /\ tracking' \in [Device -> 0 .. Len(history)]
    BY <1>delete, <1>len, EmptyTreeType DEF TypeOK, DeleteLocal
  <2>. QED  BY <1>delete, <2>1 DEF TypeOK, DeleteLocal
<1>startsync. ASSUME NEW d \in Device, StartSync(d) PROVE TypeOK'
  <2>1. tracking' \in [Device -> 0 .. Len(history)] /\ phase' \in [Device -> Phase]
    BY <1>startsync, <1>len, <1>phase DEF TypeOK, StartSync, Phase
  <2>. QED  BY <1>startsync, <2>1 DEF TypeOK, StartSync
<1>clone. ASSUME NEW d \in Device, Clone(d) PROVE TypeOK'
  <2>1. TreeOf(tip) \in Tree
    BY TreeOfType DEF TypeOK
  <2>2. CASE UNCHANGED localVars
    BY <1>clone, <2>2 DEF TypeOK, Clone, localVars
  <2>3. CASE /\ repo' = [repo EXCEPT ![d] = TRUE]
             /\ work' = [work EXCEPT ![d] = TreeOf(tip)]
             /\ head' = [head EXCEPT ![d] = tip]
             /\ tracking' = [tracking EXCEPT ![d] = tip]
             /\ UNCHANGED merging
    <3>1. work' \in [Device -> Tree]
      BY <2>1, <2>3 DEF TypeOK
    <3>2. /\ head' \in [Device -> 0 .. Len(history)]
          /\ tracking' \in [Device -> 0 .. Len(history)]
      BY <2>3 DEF TypeOK
    <3>3. repo' \in [Device -> BOOLEAN] /\ merging' \in [Device -> 0 .. Len(history)]
      BY <2>3 DEF TypeOK
    <3>. QED  BY <1>clone, <3>1, <3>2, <3>3 DEF TypeOK, Clone
  <2>. QED  BY <1>clone, <2>2, <2>3 DEF Clone
<1>startfirst. ASSUME NEW d \in Device, StartFirst(d) PROVE TypeOK'
  <2>1. repo' \in [Device -> BOOLEAN] /\ phase' \in [Device -> Phase]
    BY <1>startfirst, <1>phase DEF TypeOK, StartFirst, Phase
  <2>. QED  BY <1>startfirst, <2>1 DEF TypeOK, StartFirst
<1>commits. ASSUME NEW d \in Device, CommitWork(d), NEW p \in Phase, Goto(d, p),
                   UNCHANGED <<tip, duplicated, repo, tracking, fetchFailed, budgets,
                               written, removed, acked, unflattened>>,
                   attempt' \in [Device -> 0 .. MaxAttempts],
                   promised' \in [Device -> SUBSET Entry]
            PROVE  TypeOK'
  <2>len. Len(history') \in Nat /\ Len(history) <= Len(history')
    BY <1>commits, CommitWorkType
  <2>tip. tip' \in 0 .. Len(history')
    BY <1>commits, <1>len, <2>len DEF TypeOK
  <2>tr. tracking \in [Device -> 0 .. Len(history')]
    <3>1. tracking \in [Device -> 0 .. Len(history)]
      BY DEF TypeOK
    <3>. HIDE DEF TypeOK
    <3>. QED  BY <1>len, <2>len, <3>1, LongerType
  <2>1. tip' \in 0 .. Len(history') /\ tracking' \in [Device -> 0 .. Len(history')]
    BY <1>commits, <2>tip, <2>tr
  <2>2. phase' \in [Device -> Phase]
    BY <1>commits, <1>phase
  <2>. QED  BY <1>commits, <2>1, <2>2, CommitWorkType DEF TypeOK
<1>firstcommit. ASSUME NEW d \in Device, FirstCommit(d) PROVE TypeOK'
  BY <1>firstcommit, <1>commits DEF TypeOK, FirstCommit, Phase
<1>firstpush. ASSUME NEW d \in Device, FirstPush(d) PROVE TypeOK'
  <2>1. tip' \in 0 .. Len(history) /\ duplicated' \in BOOLEAN
    BY <1>firstpush DEF TypeOK, FirstPush, StoreTakes
  <2>2. failures' \in 0 .. MaxFailures /\ interrupts' = interrupts
    BY <1>firstpush, ConstantsAssumption
       DEF ConstantsAssumption, TypeOK, FirstPush, NetworkFails
  <2>3. phase' \in [Device -> Phase]
    BY <1>firstpush, <1>phase DEF TypeOK, FirstPush, Phase
  <2>. QED  BY <1>firstpush, <2>1, <2>2, <2>3 DEF TypeOK, FirstPush
<1>commitall. ASSUME NEW d \in Device, CommitAll(d) PROVE TypeOK'
  <2>1. Repaired(work[d]) \in Tree
    BY RepairedInType DEF TypeOK, Repaired
  <2>2. EntriesOf(Repaired(work[d])) \subseteq Entry
    BY <2>1 DEF EntriesOf, Tree, Text
  <2>3. promised' \in [Device -> SUBSET Entry] /\ "sync" \in Phase
    BY <1>commitall, <2>2 DEF TypeOK, CommitAll, Phase
  <2>. QED  BY <1>commitall, <1>commits, <2>3 DEF TypeOK, CommitAll
<1>beginsync. ASSUME NEW d \in Device, BeginSync(d) PROVE TypeOK'
  <2>1. attempt' \in [Device -> 0 .. MaxAttempts] /\ "fetch" \in Phase
    BY <1>beginsync, ConstantsAssumption DEF ConstantsAssumption, TypeOK, BeginSync, Phase
  <2>2. CASE CommitWork(d)
    BY <1>beginsync, <1>commits, <2>1, <2>2 DEF TypeOK, BeginSync
  <2>3. CASE UNCHANGED <<history, work, head, merging>>
    BY <1>beginsync, <1>phase, <2>1, <2>3 DEF TypeOK, BeginSync
  <2>. QED  BY <1>beginsync, <2>2, <2>3 DEF BeginSync
<1>fetchends. ASSUME NEW d \in Device, NEW failed \in BOOLEAN, FetchEnds(d, failed),
                     duplicated' \in BOOLEAN,
                     tracking' \in [Device -> 0 .. Len(history)],
                     UNCHANGED budgets \/ NetworkFails
              PROVE  TypeOK'
  <2>1. fetchFailed' \in [Device -> BOOLEAN] /\ phase' \in [Device -> Phase]
    BY <1>fetchends, <1>phase DEF TypeOK, FetchEnds, Phase
  <2>2. failures' \in 0 .. MaxFailures /\ interrupts' = interrupts
    BY <1>fetchends, ConstantsAssumption DEF ConstantsAssumption, TypeOK, NetworkFails
  <2>. QED  BY <1>fetchends, <2>1, <2>2 DEF TypeOK, FetchEnds
<1>fetch. ASSUME NEW d \in Device, Fetch(d) PROVE TypeOK'
  <2>1. duplicated' \in BOOLEAN /\ tracking' \in [Device -> 0 .. Len(history)]
    BY <1>fetch DEF TypeOK, Fetch
  <2>. QED  BY <1>fetch, <1>fetchends, <2>1 DEF Fetch
<1>repack. ASSUME NEW d \in Device, RepackRemote(d) PROVE TypeOK'
  <2>1. tip \in 0 .. Len(history) /\ 0 \in 0 .. Len(history)
    BY <1>len DEF TypeOK
  <2>2. tracking' = [tracking EXCEPT ![d] = tip] \/ tracking' = [tracking EXCEPT ![d] = 0]
    BY <1>repack DEF RepackRemote
  <2>3. tracking' \in [Device -> 0 .. Len(history)]
    BY <2>1, <2>2 DEF TypeOK
  <2>4. duplicated' \in BOOLEAN
    BY <1>repack DEF RepackRemote
  <2>. QED  BY <1>repack, <1>fetchends, <2>3, <2>4 DEF RepackRemote
<1>nothing. ASSUME NEW d \in Device, NothingMerged(d) PROVE TypeOK'
  <2>1. phase' \in [Device -> Phase]
    BY <1>nothing, <1>phase DEF NothingMerged, Phase
  <2>. QED  BY <1>nothing, <2>1 DEF TypeOK, NothingMerged
<1>ff. ASSUME NEW d \in Device, FastForward(d) PROVE TypeOK'
  <2>1. CheckedOut(d, TreeOf(tracking[d])) \in Tree
    BY TreeOfType, CheckedOutType DEF TypeOK
  <2>2. /\ work' \in [Device -> Tree]
        /\ head' \in [Device -> 0 .. Len(history)]
        /\ phase' \in [Device -> Phase]
    BY <1>ff, <1>phase, <2>1 DEF TypeOK, FastForward, Phase
  <2>. QED  BY <1>ff, <2>2 DEF TypeOK, FastForward
<1>merge. ASSUME NEW d \in Device, Merge(d) PROVE TypeOK'
  <2>1. PICK base, fits :
          LET r == MergedTree(base, head[d], tracking[d], fits)
          IN  /\ work' = [work EXCEPT ![d] = CheckedOut(d, r)]
              /\ \/ /\ merging' = [merging EXCEPT ![d] = tracking[d]]
                    /\ Goto(d, "resolve")
                    /\ UNCHANGED <<history, head, unflattened>>
                 \/ /\ history' = Append(history, NewCommit(r, {head[d], tracking[d]}))
                    /\ head' = [head EXCEPT ![d] = Len(history) + 1]
                    /\ unflattened' = unflattened \cup {{head[d], tracking[d]}}
                    /\ Goto(d, "push")
                    /\ UNCHANGED merging
    BY <1>merge DEF Merge
  <2>. DEFINE r == MergedTree(base, head[d], tracking[d], fits)
  <2>2. r \in Tree
    BY MergedTreeType DEF TypeOK
  <2>3. CheckedOut(d, r) \in Tree
    BY <2>2, CheckedOutType
  <2>. HIDE DEF r
  <2>4. work' \in [Device -> Tree]
    BY <2>1, <2>3 DEF TypeOK, r
  <2>5. {head[d], tracking[d]} \in SUBSET (1 .. Len(history))
    BY <1>merge DEF Merge, Diverged, TypeOK
  <2>un. {head[d], tracking[d]} \in SUBSET Nat
    BY <1>len, <2>5
  <2>6. phase' \in [Device -> Phase] /\ unflattened' \subseteq SUBSET Nat
    <3>1. phase' \in [Device -> Phase]
      BY <1>phase, <2>1 DEF Phase
    <3>2. \/ unflattened' = unflattened
          \/ unflattened' = unflattened \cup {{head[d], tracking[d]}}
      BY <2>1
    <3>3. unflattened \subseteq SUBSET Nat
      BY DEF TypeOK
    <3>4. unflattened' \subseteq SUBSET Nat
      BY <2>un, <3>2, <3>3
    <3>. QED  BY <3>1, <3>4
  <2>7. CASE UNCHANGED <<history, head>> /\ merging' = [merging EXCEPT ![d] = tracking[d]]
    <3>1. merging' \in [Device -> 0 .. Len(history)]
      BY <2>7 DEF TypeOK
    <3>. QED  BY <1>merge, <2>4, <2>6, <2>7, <3>1 DEF TypeOK, Merge
  <2>8. CASE /\ history' = Append(history, NewCommit(r, {head[d], tracking[d]}))
             /\ head' = [head EXCEPT ![d] = Len(history) + 1]
             /\ UNCHANGED merging
    <3>1. history' \in Seq(Commit) /\ Len(history') = Len(history) + 1
      BY <2>2, <2>5, <2>8, NewCommitType
    <3>2. /\ tip' \in 0 .. Len(history')
          /\ head' \in [Device -> 0 .. Len(history')]
          /\ merging' \in [Device -> 0 .. Len(history')]
          /\ tracking' \in [Device -> 0 .. Len(history')]
      BY <1>merge, <1>len, <2>8, <3>1 DEF TypeOK, Merge
    <3>. QED  BY <1>merge, <2>4, <2>6, <3>1, <3>2 DEF TypeOK, Merge
  <2>. QED  BY <2>1, <2>7, <2>8 DEF r
<1>resolve. ASSUME NEW d \in Device, Resolve(d) PROVE TypeOK'
  BY <1>resolve, <1>commits DEF TypeOK, Resolve, Phase
<1>flatten. ASSUME NEW d \in Device, Flatten(d) PROVE TypeOK'
  <2>1. head' \in [Device -> 0 .. Len(history)] /\ phase' \in [Device -> Phase]
    BY <1>flatten, <1>phase DEF TypeOK, Flatten, Phase
  <2>. QED  BY <1>flatten, <2>1 DEF TypeOK, Flatten
<1>flattencommit. ASSUME NEW d \in Device, FlattenCommit(d) PROVE TypeOK'
  <2>1. work[d] \in Tree /\ {head[d]} \ {0} \in SUBSET (1 .. Len(history))
    BY DEF TypeOK
  <2>2. history' \in Seq(Commit) /\ Len(history') = Len(history) + 1
    BY <1>flattencommit, <2>1, NewCommitType DEF FlattenCommit
  <2>3. /\ tip' \in 0 .. Len(history')
        /\ head' \in [Device -> 0 .. Len(history')]
        /\ merging' \in [Device -> 0 .. Len(history')]
        /\ tracking' \in [Device -> 0 .. Len(history')]
        /\ phase' \in [Device -> Phase]
    BY <1>flattencommit, <1>len, <1>phase, <2>2 DEF TypeOK, FlattenCommit, Phase
  <2>. QED  BY <1>flattencommit, <2>2, <2>3 DEF TypeOK, FlattenCommit
<1>endrun. ASSUME NEW d \in Device, EndRun(d)
           PROVE  /\ attempt' \in [Device -> 0 .. MaxAttempts]
                  /\ fetchFailed' \in [Device -> BOOLEAN]
                  /\ promised' \in [Device -> SUBSET Entry]
                  /\ phase' \in [Device -> Phase]
  BY <1>endrun, <1>phase, ConstantsAssumption DEF ConstantsAssumption, TypeOK, EndRun, Phase
<1>pushok. ASSUME NEW d \in Device, PushSucceeds(d) PROVE TypeOK'
  <2>1. tip' \in 0 .. Len(history) /\ duplicated' \in BOOLEAN /\ acked' \subseteq Entry
    BY <1>pushok DEF TypeOK, PushSucceeds, StoreTakes
  <2>. QED  BY <1>pushok, <1>endrun, <2>1 DEF TypeOK, PushSucceeds
<1>pushfails. ASSUME NEW d \in Device, PushFails(d) PROVE TypeOK'
  <2>1. tip' \in 0 .. Len(history) /\ duplicated' \in BOOLEAN
    BY <1>pushfails DEF TypeOK, PushFails, StoreTakes
  <2>2. failures' \in 0 .. MaxFailures /\ interrupts' = interrupts
    BY <1>pushfails, ConstantsAssumption
       DEF ConstantsAssumption, TypeOK, PushFails, NetworkFails
  <2>3. /\ attempt' \in [Device -> 0 .. MaxAttempts]
        /\ fetchFailed' \in [Device -> BOOLEAN]
        /\ promised' \in [Device -> SUBSET Entry]
        /\ phase' \in [Device -> Phase]
    <3>1. CASE EndRun(d)
      BY <1>endrun, <3>1
    <3>2. CASE /\ attempt[d] < MaxAttempts
               /\ attempt' = [attempt EXCEPT ![d] = @ + 1]
               /\ Goto(d, "fetch")
               /\ UNCHANGED <<fetchFailed, promised>>
      BY <1>phase, <3>2, ConstantsAssumption DEF ConstantsAssumption, TypeOK, Phase
    <3>. QED  BY <1>pushfails, <3>1, <3>2 DEF PushFails, TryAgain
  <2>. QED  BY <1>pushfails, <2>1, <2>2, <2>3 DEF TypeOK, PushFails
<1>refuse. ASSUME NEW d \in Device, Refuse(d) PROVE TypeOK'
  <2>1. work' \in [Device -> Tree]
    BY <1>refuse, RepairedInType DEF TypeOK, Refuse
  <2>. QED  BY <1>refuse, <1>endrun, <2>1 DEF TypeOK, Refuse
<1>interrupt. ASSUME NEW d \in Device, Interrupt(d) PROVE TypeOK'
  <2>1. work' \in [Device -> Tree] /\ interrupts' \in 0 .. MaxInterrupts
    BY <1>interrupt, RepairedInType, ConstantsAssumption
       DEF ConstantsAssumption, TypeOK, Interrupt
  <2>2. MergeAtHand(d) \subseteq SUBSET Nat
    <3>1. {head[d], merging[d]} \ {0} \in SUBSET Nat
      BY <1>len DEF TypeOK
    <3>2. head[d] # 0 => history[head[d]].parents \in SUBSET Nat
      <4>1. head[d] # 0 => history[head[d]] \in Commit
        BY DEF TypeOK
      <4>. QED  BY <4>1 DEF Commit
    <3>. QED  BY <3>1, <3>2 DEF MergeAtHand
  <2>3. unflattened' \subseteq SUBSET Nat
    BY <1>interrupt, <2>2 DEF TypeOK, Interrupt
  <2>. QED  BY <1>interrupt, <1>endrun, <2>1, <2>3 DEF TypeOK, Interrupt
<1>. QED
  BY <1>stay, <1>write, <1>remove, <1>delete, <1>startsync, <1>clone, <1>startfirst,
     <1>firstcommit, <1>firstpush, <1>commitall, <1>beginsync, <1>fetch, <1>repack,
     <1>nothing, <1>ff, <1>merge, <1>resolve, <1>flatten, <1>flattencommit, <1>pushok,
     <1>pushfails, <1>refuse, <1>interrupt DEF Next, Start, RunStep

\* Every reachable state of GitSync is well typed, whatever the devices, files and
\* records: the program's own variables and the store stay what the code assumes
\* of them.
THEOREM TypeCorrect == Spec => []TypeOK
<1>1. TypeOK /\ [Next]_vars => TypeOK'
  BY NextType
<1>. QED  BY InitType, <1>1, PTL DEF Spec

---------------------------------------------------------------------------
(* Durability. *)

\* Every record of tree t1 that is not gone is in the same file of tree t2.
Kept(t1, t2, gone) == \A f \in File : (UNION t1[f]) \ gone \subseteq UNION t2[f]

\* A commit keeps every record of the commits it descends from.
HistoryOK ==
  \A c \in 1 .. Len(history) :
    /\ c \in history[c].past
    /\ history[c].past \subseteq 1 .. c
    /\ \A a \in history[c].past :
         /\ history[a].past \subseteq history[c].past
         /\ Kept(history[a].tree, history[c].tree, removed)

\* A working copy keeps every record of HEAD and of MERGE_HEAD.
CopyOK(d) ==
  /\ ~repo[d] => phase[d] = "idle" /\ head[d] = 0 /\ merging[d] = 0
  /\ Kept(TreeOf(head[d]), work[d], removed)
  /\ merging[d] # 0 => Kept(TreeOf(merging[d]), work[d], removed)
  /\ merging[d] # 0 => phase[d] \in {"idle", "commit_all", "resolve"}

\* A run carries what it promised in HEAD, or in the index once HEAD is reset.
RunOK(d) ==
  /\ phase[d] \in {"idle", "commit_all", "first_commit", "first_push"} => promised[d] = {}
  /\ phase[d] # "flatten_commit" => promised[d] \ removed \subseteq EntriesOf(TreeOf(head[d]))
  /\ phase[d] = "flatten_commit" => promised[d] \ removed \subseteq EntriesOf(work[d])
  /\ phase[d] = "resolve" => merging[d] # 0 /\ merging[d] = tracking[d]
  /\ phase[d] = "flatten" => tracking[d] \in PastOf(head[d]) /\ work[d] = TreeOf(head[d])

Durable ==
  /\ TypeOK
  /\ HistoryOK
  /\ \A d \in Device : CopyOK(d) /\ RunOK(d)
  /\ AckedIsStored

---------------------------------------------------------------------------
(* Trees. *)

\* Keeping records is transitive, and lasts when more records are removed.
LEMMA KeptFacts ==
  /\ \A t, gone : Kept(t, t, gone) /\ Kept(EmptyTree, t, gone)
  /\ \A t1, t2, t3, gone : Kept(t1, t2, gone) /\ Kept(t2, t3, gone) => Kept(t1, t3, gone)
  /\ \A t1, t2, gone, more : Kept(t1, t2, gone) /\ gone \subseteq more => Kept(t1, t2, more)
  /\ \A t1, t2, gone : Kept(t1, t2, gone) => EntriesOf(t1) \ gone \subseteq EntriesOf(t2)
<1>1. \A t, gone : Kept(t, t, gone) /\ Kept(EmptyTree, t, gone)
  BY DEF Kept, EmptyTree
<1>2. \A t1, t2, t3, gone : Kept(t1, t2, gone) /\ Kept(t2, t3, gone) => Kept(t1, t3, gone)
  BY DEF Kept
<1>3. \A t1, t2, gone, more : Kept(t1, t2, gone) /\ gone \subseteq more => Kept(t1, t2, more)
  BY DEF Kept
<1>4. \A t1, t2, gone : Kept(t1, t2, gone) => EntriesOf(t1) \ gone \subseteq EntriesOf(t2)
  BY DEF Kept, EntriesOf
<1>. QED  BY <1>1, <1>2, <1>3, <1>4

\* A three-way merge keeps the records of both sides, when the base is an ancestor
\* of both, that is when both sides keep the records of the base.
LEMMA MergeTextKeeps ==
  ASSUME NEW base, NEW ours, NEW theirs, NEW fits, NEW gone,
         (UNION base) \ gone \subseteq UNION ours,
         (UNION base) \ gone \subseteq UNION theirs
  PROVE  /\ (UNION ours) \ gone \subseteq UNION MergeText(base, ours, theirs, fits)
         /\ (UNION theirs) \ gone \subseteq UNION MergeText(base, ours, theirs, fits)
<1>. DEFINE clean == ((UNION ours) \cap (UNION theirs)) \cup ((UNION ours) \ (UNION base))
                        \cup ((UNION theirs) \ (UNION base))
<1>1. UNION {clean} = clean
  OBVIOUS
<1>2. (UNION ours) \ gone \subseteq clean /\ (UNION theirs) \ gone \subseteq clean
  OBVIOUS
<1>3. UNION (ours \cup theirs) = (UNION ours) \cup (UNION theirs)
  OBVIOUS
<1>4. MergeText(base, ours, theirs, fits) \in {ours, theirs, ours \cup theirs, {clean}}
  BY DEF MergeText
<1>5. CASE ours = theirs
  BY <1>5 DEF MergeText
<1>6. CASE base = theirs /\ ours # theirs
  BY <1>6 DEF MergeText
<1>7. CASE base = ours /\ ours # theirs /\ base # theirs
  BY <1>7 DEF MergeText
<1>8. CASE ~(ours = theirs \/ base = theirs) /\ base # ours
  <2>1. MergeText(base, ours, theirs, fits) \in {ours \cup theirs, {clean}}
    BY <1>8 DEF MergeText
  <2>. QED  BY <1>1, <1>2, <1>3, <2>1
<1>. QED  BY <1>5, <1>6, <1>7, <1>8

\* A merge of two commits keeps the records of both.
LEMMA MergedTreeKeeps ==
  ASSUME NEW base, NEW a, NEW b, NEW fits, NEW gone,
         Kept(TreeOf(base), TreeOf(a), gone), Kept(TreeOf(base), TreeOf(b), gone)
  PROVE  /\ Kept(TreeOf(a), MergedTree(base, a, b, fits), gone)
         /\ Kept(TreeOf(b), MergedTree(base, a, b, fits), gone)
<1>1. ASSUME NEW f \in File
      PROVE  /\ (UNION TreeOf(a)[f]) \ gone \subseteq UNION MergedTree(base, a, b, fits)[f]
             /\ (UNION TreeOf(b)[f]) \ gone \subseteq UNION MergedTree(base, a, b, fits)[f]
  <2>1. /\ (UNION TreeOf(base)[f]) \ gone \subseteq UNION TreeOf(a)[f]
        /\ (UNION TreeOf(base)[f]) \ gone \subseteq UNION TreeOf(b)[f]
    BY DEF Kept
  <2>. QED  BY <2>1, MergeTextKeeps DEF MergedTree
<1>. QED  BY <1>1 DEF Kept

\* A checkout that overwrites no uncommitted edit keeps the records of the new
\* tree, and those of an older one the new tree keeps.
LEMMA CheckedOutKeeps ==
  ASSUME NEW d \in Device, NEW tree, ~Overwrites(d, tree),
         Kept(TreeOf(head[d]), work[d], removed)
  PROVE  Kept(tree, CheckedOut(d, tree), removed)
<1>1. ASSUME NEW f \in File
      PROVE  (UNION tree[f]) \ removed \subseteq UNION CheckedOut(d, tree)[f]
  <2>1. CASE f \in Dirty(d)
    BY <2>1 DEF Overwrites, Kept, CheckedOut
  <2>2. CASE f \notin Dirty(d)
    BY <2>2 DEF CheckedOut
  <2>. QED  BY <2>1, <2>2
<1>. QED  BY <1>1 DEF Kept

---------------------------------------------------------------------------
(* The history. *)

\* Commits are never changed: the history only grows.
Grown ==
  /\ Len(history) <= Len(history')
  /\ \A c \in 1 .. Len(history) : history'[c] = history[c]

\* A commit that is made keeps the records of its parents, so of all its ancestors.
LEMMA NewCommitKeeps ==
  ASSUME TypeOK, HistoryOK, NEW tree \in Tree, NEW ps \in SUBSET (1 .. Len(history)),
         history' = Append(history, NewCommit(tree, ps)), removed' = removed,
         \A p \in ps : Kept(TreeOf(p), tree, removed)
  PROVE  /\ Grown
         /\ HistoryOK'
         /\ history'[Len(history) + 1].tree = tree
         /\ \A p \in ps : p \in history'[Len(history) + 1].past
<1>. DEFINE n == Len(history) + 1
            new == NewCommit(tree, ps)
<1>1. Len(history) \in Nat /\ Len(history') = n
  BY NewCommitType DEF TypeOK
<1>2. \A c \in 1 .. Len(history) : history'[c] = history[c]
  BY DEF TypeOK
<1>3. history'[n] = new
  BY DEF TypeOK
<1>4. new.tree = tree /\ new.past = {n} \cup UNION {history[p].past : p \in ps}
  BY DEF NewCommit
<1>. HIDE DEF new
<1>5. ASSUME NEW c \in 1 .. Len(history)
      PROVE  /\ c \in history[c].past
             /\ history[c].past \subseteq 1 .. c
             /\ \A a \in history[c].past :
                  /\ history[a].past \subseteq history[c].past
                  /\ Kept(history[a].tree, history[c].tree, removed)
  BY DEF HistoryOK
<1>6. ASSUME NEW c \in 1 .. Len(history)
      PROVE  /\ c \in history'[c].past
             /\ history'[c].past \subseteq 1 .. c
             /\ \A a \in history'[c].past :
                  /\ history'[a].past \subseteq history'[c].past
                  /\ Kept(history'[a].tree, history'[c].tree, removed')
  <2>1. history'[c] = history[c]
    BY <1>2
  <2>2. \A a \in history[c].past : history'[a] = history[a]
    BY <1>1, <1>2, <1>5
  <2>. QED  BY <1>5, <2>1, <2>2
<1>7. ASSUME NEW a \in new.past, a # n
      PROVE  /\ a \in 1 .. Len(history)
             /\ history[a].past \subseteq new.past
             /\ Kept(history[a].tree, tree, removed)
  <2>1. PICK p \in ps : a \in history[p].past
    BY <1>4, <1>7
  <2>2. /\ a \in 1 .. p
        /\ history[a].past \subseteq history[p].past
        /\ Kept(history[a].tree, history[p].tree, removed)
    BY <1>5, <2>1
  <2>3. Kept(history[p].tree, tree, removed)
    BY <1>1 DEF TreeOf
  <2>. QED  BY <1>1, <1>4, <2>1, <2>2, <2>3, KeptFacts
<1>8. /\ n \in history'[n].past
      /\ history'[n].past \subseteq 1 .. n
      /\ \A a \in history'[n].past :
           /\ history'[a].past \subseteq history'[n].past
           /\ Kept(history'[a].tree, history'[n].tree, removed')
  <2>1. n \in new.past /\ new.past \subseteq 1 .. n
    BY <1>1, <1>4, <1>7
  <2>2. ASSUME NEW a \in new.past
        PROVE  history'[a].past \subseteq new.past /\ Kept(history'[a].tree, tree, removed')
    <3>1. CASE a = n
      BY <1>3, <1>4, <3>1, KeptFacts
    <3>2. CASE a # n
      BY <1>2, <1>7, <3>2
    <3>. QED  BY <3>1, <3>2
  <2>. QED  BY <1>3, <1>4, <2>1, <2>2
<1>9. HistoryOK'
  <2>1. \A c \in 1 .. Len(history') : c \in 1 .. Len(history) \/ c = n
    BY <1>1
  <2>. QED  BY <1>6, <1>8, <2>1 DEF HistoryOK
<1>10. \A p \in ps : p \in new.past
  BY <1>4, <1>5
<1>. QED  BY <1>1, <1>2, <1>3, <1>4, <1>9, <1>10 DEF Grown

\* When the history stays as it is, so does what holds of it.
LEMMA SameHistoryKeeps ==
  ASSUME TypeOK, HistoryOK, history' = history, removed \subseteq removed'
  PROVE  Grown /\ HistoryOK'
<1>1. Grown
  BY DEF Grown, TypeOK
<1>2. ASSUME NEW c \in 1 .. Len(history)
      PROVE  /\ c \in history[c].past
             /\ history[c].past \subseteq 1 .. c
             /\ \A a \in history[c].past :
                  /\ history[a].past \subseteq history[c].past
                  /\ Kept(history[a].tree, history[c].tree, removed')
  BY KeptFacts DEF HistoryOK
<1>. QED  BY <1>1, <1>2 DEF HistoryOK

\* The tree of a commit keeps the records of every commit it descends from.
LEMMA DescendantKeeps ==
  ASSUME TypeOK, HistoryOK, NEW c \in 0 .. Len(history), NEW a \in PastOf(c)
  PROVE  a \in 1 .. Len(history) /\ Kept(TreeOf(a), TreeOf(c), removed)
<1>1. c \in 1 .. Len(history) /\ a \in history[c].past
  BY DEF PastOf
<1>2. a \in 1 .. c /\ Kept(history[a].tree, history[c].tree, removed)
  BY <1>1 DEF HistoryOK
<1>. QED  BY <1>1, <1>2 DEF TreeOf

---------------------------------------------------------------------------
(* A step of one device. *)

\* Nothing of device x changes.
Untouched(x) ==
  /\ repo'[x] = repo[x] /\ work'[x] = work[x] /\ head'[x] = head[x]
  /\ merging'[x] = merging[x] /\ tracking'[x] = tracking[x]
  /\ phase'[x] = phase[x] /\ promised'[x] = promised[x]

\* What other devices do leaves the copy and the run of x in order.
LEMMA UntouchedKeeps ==
  ASSUME TypeOK, Grown, removed \subseteq removed', NEW x \in Device,
         CopyOK(x), RunOK(x), Untouched(x)
  PROVE  CopyOK(x)' /\ RunOK(x)'
<1>1. head[x] \in 0 .. Len(history) /\ merging[x] \in 0 .. Len(history)
  BY DEF TypeOK
<1>2. /\ TreeOf(head[x])' = TreeOf(head[x])
      /\ TreeOf(merging[x])' = TreeOf(merging[x])
      /\ PastOf(head[x])' = PastOf(head[x])
  BY <1>1 DEF Untouched, Grown, TreeOf, PastOf
<1>3. CopyOK(x)'
  BY <1>2, KeptFacts DEF CopyOK, Untouched
<1>4. RunOK(x)'
  BY <1>2 DEF RunOK, Untouched
<1>. QED  BY <1>3, <1>4

\* A step of device d keeps Durable if it leaves the history, the store, the copy
\* and the run of d in order and touches no other device.
LEMMA StepKeeps ==
  ASSUME Durable, TypeOK', Grown, HistoryOK', removed \subseteq removed',
         NEW d \in Device, CopyOK(d)', RunOK(d)', AckedIsStored',
         \A x \in Device : x # d => Untouched(x)
  PROVE  Durable'
<1>1. ASSUME NEW x \in Device PROVE CopyOK(x)' /\ RunOK(x)'
  <2>1. CASE x = d
    BY <2>1
  <2>2. CASE x # d
    BY <2>2, UntouchedKeeps DEF Durable
  <2>. QED  BY <2>1, <2>2
<1>. QED  BY <1>1 DEF Durable

\* What is acknowledged stays stored while the tip stays.
LEMMA SameTipKeeps ==
  ASSUME TypeOK, AckedIsStored, Grown, removed \subseteq removed', tip' = tip, acked' = acked
  PROVE  AckedIsStored'
<1>1. TreeOf(tip)' = TreeOf(tip)
  BY DEF TypeOK, Grown, TreeOf
<1>. QED  BY <1>1 DEF AckedIsStored

\* What is acknowledged is in every commit the store accepts.
LEMMA AcceptedKeeps ==
  ASSUME TypeOK, HistoryOK, AckedIsStored, NEW c \in 0 .. Len(history), Accepts(c)
  PROVE  acked \ removed \subseteq EntriesOf(TreeOf(c))
<1>1. CASE tip = 0
  BY <1>1 DEF AckedIsStored, TreeOf, EmptyTree, EntriesOf
<1>2. CASE tip \in PastOf(c)
  BY <1>2, DescendantKeeps, KeptFacts DEF AckedIsStored
<1>. QED  BY <1>1, <1>2 DEF Accepts

\* Repairing files takes no record from a working copy.
LEMMA RepairKeeps ==
  ASSUME TypeOK, NEW d \in Device, CopyOK(d), NEW fs,
         work' = [work EXCEPT ![d] = RepairedIn(@, fs)],
         UNCHANGED <<history, removed, repo, head, merging>>
  PROVE  /\ Kept(TreeOf(head[d]), work[d], removed)'
         /\ merging[d] # 0 => Kept(TreeOf(merging[d]), work[d], removed)'
         /\ EntriesOf(work[d])' = EntriesOf(work[d])
<1>1. work[d] \in Tree /\ work'[d] = RepairedIn(work[d], fs)
  BY DEF TypeOK
<1>2. \A f \in File : UNION work'[d][f] = UNION work[d][f]
  <2>1. \A f \in File : UNION RepairedIn(work[d], fs)[f] = UNION work[d][f]
    <3>1. work[d] \in Tree
      BY <1>1
    <3>. QED  BY ONLY <3>1, RepairedInType
  <2>. QED  BY <1>1, <2>1
<1>3. history' = history /\ removed' = removed /\ head' = head /\ merging' = merging
  OBVIOUS
<1>4. TreeOf(head[d])' = TreeOf(head[d]) /\ TreeOf(merging[d])' = TreeOf(merging[d])
  BY <1>3 DEF TreeOf
<1>5. Kept(TreeOf(head[d]), work'[d], removed)
      /\ (merging[d] # 0 => Kept(TreeOf(merging[d]), work'[d], removed))
  BY <1>2 DEF CopyOK, Kept
<1>6. EntriesOf(work'[d]) = EntriesOf(work[d])
  BY <1>2 DEF EntriesOf
<1>. QED  BY <1>3, <1>4, <1>5, <1>6 DEF Kept, EntriesOf

\* commitAll: HEAD becomes the working copy, with every record it had.
LEMMA CommitWorkKeeps ==
  ASSUME Durable, NEW d \in Device, CommitWork(d), removed' = removed
  PROVE  /\ Grown
         /\ HistoryOK'
         /\ work'[d] = Repaired(work[d])
         /\ TreeOf(head[d])' = work'[d]
         /\ EntriesOf(work[d])' = EntriesOf(work[d])
         /\ merging'[d] = 0
         /\ merging[d] # 0 => merging[d] \in PastOf(head[d])'
         /\ head'[d] # 0 \/ head[d] = 0
         /\ \A x \in Device : x # d =>
              work'[x] = work[x] /\ head'[x] = head[x] /\ merging'[x] = merging[x]
<1>. DEFINE w == Repaired(work[d])
            ps == {head[d], merging[d]} \ {0}
<1>0. TypeOK /\ HistoryOK /\ CopyOK(d)
  BY DEF Durable
<1>1. work[d] \in Tree /\ w \in Tree
  BY <1>0, RepairedInType DEF TypeOK, Repaired
<1>2. \A f \in File : UNION w[f] = UNION work[d][f]
  BY <1>1, RepairedInType DEF Repaired
<1>. HIDE DEF w
<1>3. work'[d] = w /\ \A x \in Device : x # d => work'[x] = work[x]
  BY <1>0, <1>1 DEF CommitWork, TypeOK, w
<1>4. EntriesOf(work[d])' = EntriesOf(work[d])
  BY <1>2, <1>3 DEF EntriesOf
<1>5. CASE w = TreeOf(head[d]) /\ merging[d] = 0 /\ UNCHANGED <<history, head, merging>>
  <2>1. Grown /\ HistoryOK'
    BY <1>0, <1>5, SameHistoryKeeps
  <2>2. TreeOf(head[d])' = TreeOf(head[d])
    BY <1>5 DEF TreeOf
  <2>. QED  BY <1>3, <1>4, <1>5, <2>1, <2>2 DEF w
<1>6. CASE /\ history' = Append(history, NewCommit(w, ps))
           /\ head' = [head EXCEPT ![d] = Len(history) + 1]
           /\ merging' = [merging EXCEPT ![d] = 0]
  <2>1. ps \in SUBSET (1 .. Len(history)) /\ Len(history) \in Nat
    BY <1>0 DEF TypeOK
  <2>2. ASSUME NEW p \in ps PROVE Kept(TreeOf(p), w, removed)
    <3>1. Kept(TreeOf(p), work[d], removed)
      BY <1>0 DEF CopyOK
    <3>. QED  BY <1>2, <3>1 DEF Kept
  <2>. HIDE DEF ps
  <2>3. /\ Grown /\ HistoryOK'
        /\ history'[Len(history) + 1].tree = w
        /\ \A p \in ps : p \in history'[Len(history) + 1].past
    BY <1>0, <1>1, <1>6, <2>1, <2>2, NewCommitKeeps
  <2>4. head'[d] = Len(history) + 1 /\ merging'[d] = 0
        /\ \A x \in Device : x # d => head'[x] = head[x] /\ merging'[x] = merging[x]
    BY <1>0, <1>6 DEF TypeOK
  <2>5. TreeOf(head[d])' = w
    BY <2>1, <2>3, <2>4 DEF TreeOf
  <2>6. merging[d] # 0 => merging[d] \in PastOf(head[d])'
    BY <2>1, <2>3, <2>4 DEF PastOf, ps
  <2>7. head'[d] # 0
    BY <2>1, <2>4
  <2>. QED  BY <1>3, <1>4, <2>3, <2>4, <2>5, <2>6, <2>7 DEF w
<1>. QED  BY <1>5, <1>6 DEF CommitWork, w

---------------------------------------------------------------------------
(* The steps. *)

\* A page's write or removal.
LEMMA PageKeeps ==
  ASSUME Durable, TypeOK', NEW d \in Device, NEW e \in Entry, Write(d, e) \/ Remove(d, e)
  PROVE  Durable'
<1>. DEFINE f0 == FileOf[e]
<1>0. TypeOK /\ HistoryOK /\ CopyOK(d) /\ RunOK(d) /\ AckedIsStored
  BY DEF Durable
<1>1. /\ UNCHANGED <<history, tip, repo, head, merging, tracking, phase, promised, acked>>
      /\ removed \subseteq removed'
      /\ BetweenCommands(d)
  BY DEF Write, Remove, budgets, loopVars
<1>2. /\ work[d] \in Tree /\ f0 \in File
      /\ \A x \in Device : x # d => work'[x] = work[x]
  BY <1>0, ConstantsAssumption DEF ConstantsAssumption, TypeOK, Write, Remove
<1>3. \A f \in File : (UNION work[d][f]) \ removed' \subseteq UNION work'[d][f]
  <2>1. CASE Write(d, e)
    <3>1. work'[d] = [work[d] EXCEPT ![f0] = {(UNION @) \cup {e}}]
      BY <1>0, <2>1 DEF Write, TypeOK
    <3>2. \A f \in File : work'[d][f] = work[d][f]
                          \/ work'[d][f] = {(UNION work[d][f]) \cup {e}}
      BY <1>2, <3>1 DEF Tree
    <3>3. \A S : UNION {S} = S
      OBVIOUS
    <3>. QED  BY <3>2, <3>3
  <2>2. CASE Remove(d, e)
    <3>1. work'[d] = [work[d] EXCEPT ![f0] = {(UNION @) \ {e}}] /\ e \in removed'
      BY <1>0, <2>2 DEF Remove, TypeOK
    <3>2. \A f \in File : work'[d][f] = work[d][f]
                          \/ work'[d][f] = {(UNION work[d][f]) \ {e}}
      BY <1>2, <3>1 DEF Tree
    <3>. QED  BY <3>1, <3>2
  <2>. QED  BY <2>1, <2>2
<1>4. Grown /\ HistoryOK'
  BY <1>0, <1>1, SameHistoryKeeps
<1>5. TreeOf(head[d])' = TreeOf(head[d]) /\ TreeOf(merging[d])' = TreeOf(merging[d])
  BY <1>1 DEF TreeOf
<1>6. \A t : Kept(t, work[d], removed) => Kept(t, work'[d], removed')
  BY <1>1, <1>3 DEF Kept
<1>7. CopyOK(d)'
  <2>1. /\ Kept(TreeOf(head[d]), work'[d], removed')
        /\ merging[d] # 0 => Kept(TreeOf(merging[d]), work'[d], removed')
    BY <1>0, <1>6 DEF CopyOK
  <2>. QED  BY <1>0, <1>1, <1>5, <2>1 DEF CopyOK
<1>8. RunOK(d)'
  BY <1>0, <1>1, <1>5 DEF RunOK, BetweenCommands
<1>9. AckedIsStored'
  BY <1>0, <1>1, <1>4, SameTipKeeps
<1>. QED  BY <1>1, <1>2, <1>4, <1>7, <1>8, <1>9, StepKeeps DEF Untouched

\* The user's commands: delete the local data, press Synchronize.
LEMMA UserKeeps ==
  ASSUME Durable, TypeOK', NEW d \in Device, DeleteLocal(d) \/ Start(d)
  PROVE  Durable'
<1>. USE DEF Goto, ghosts, records, budgets, loopVars, localVars
<1>0. TypeOK /\ HistoryOK /\ CopyOK(d) /\ RunOK(d) /\ AckedIsStored
  BY DEF Durable
<1>1. UNCHANGED <<history, tip, promised, acked, removed>> /\ phase[d] = "idle"
  BY DEF DeleteLocal, Start, StartSync, Clone, StartFirst
<1>2. \A x \in Device : x # d => Untouched(x)
  BY <1>0, <1>1 DEF DeleteLocal, Start, StartSync, Clone, StartFirst, Untouched, TypeOK
<1>3. Grown /\ HistoryOK' /\ AckedIsStored'
  BY <1>0, <1>1, SameHistoryKeeps, SameTipKeeps
<1>4. promised'[d] = {}
  BY <1>0, <1>1 DEF RunOK
<1>5. /\ Kept(TreeOf(head[d]), work[d], removed)'
      /\ merging'[d] # 0 => merging'[d] = merging[d] /\ work'[d] = work[d]
      /\ phase'[d] \in {"idle", "commit_all", "first_commit"}
      /\ ~repo'[d] => phase'[d] = "idle" /\ head'[d] = 0 /\ merging'[d] = 0
      /\ merging'[d] # 0 => phase'[d] \in {"idle", "commit_all"}
  <2>1. CASE DeleteLocal(d)
    <3>1. head'[d] = 0 /\ merging'[d] = 0 /\ phase'[d] = "idle"
      BY <1>0, <1>1, <2>1 DEF DeleteLocal, TypeOK
    <3>. QED  BY <3>1, KeptFacts DEF TreeOf
  <2>2. CASE StartSync(d)
    <3>1. phase'[d] = "commit_all" /\ UNCHANGED <<repo, work, head, merging>> /\ repo[d]
      BY <1>0, <2>2 DEF StartSync, TypeOK
    <3>. QED  BY <1>0, <1>1, <3>1 DEF CopyOK, TreeOf
  <2>3. CASE Clone(d)
    <3>1. CASE UNCHANGED localVars
      BY <1>0, <1>1, <2>3, <3>1 DEF Clone, CopyOK, TreeOf
    <3>2. CASE /\ repo' = [repo EXCEPT ![d] = TRUE]
               /\ work' = [work EXCEPT ![d] = TreeOf(tip)]
               /\ head' = [head EXCEPT ![d] = tip]
               /\ UNCHANGED merging
      <4>1. /\ repo'[d] /\ work'[d] = TreeOf(tip) /\ head'[d] = tip
            /\ merging'[d] = 0 /\ phase'[d] = "idle"
        BY <1>0, <1>1, <2>3, <3>2 DEF Clone, CopyOK, TypeOK
      <4>2. TreeOf(head[d])' = work'[d]
        BY <1>1, <4>1 DEF TreeOf
      <4>. QED  BY <4>1, <4>2, KeptFacts
    <3>. QED  BY <2>3, <3>1, <3>2 DEF Clone
  <2>4. CASE StartFirst(d)
    <3>1. /\ phase'[d] = "first_commit" /\ repo'[d] /\ merging[d] = 0
          /\ UNCHANGED <<work, head, merging>>
      BY <1>0, <2>4 DEF StartFirst, TypeOK, CopyOK
    <3>. QED  BY <1>0, <1>1, <3>1 DEF CopyOK, TreeOf
  <2>. QED  BY <2>1, <2>2, <2>3, <2>4 DEF Start
<1>6. CopyOK(d)'
  <2>1. merging'[d] # 0 => TreeOf(merging[d])' = TreeOf(merging[d])
    BY <1>1, <1>5 DEF TreeOf
  <2>. QED  BY <1>0, <1>1, <1>5, <2>1 DEF CopyOK
<1>7. RunOK(d)'
  BY <1>4, <1>5 DEF RunOK
<1>. QED  BY <1>1, <1>2, <1>3, <1>6, <1>7, StepKeeps

\* The commands that commit the working copy.
LEMMA CommitKeeps ==
  ASSUME Durable, TypeOK', NEW d \in Device,
         FirstCommit(d) \/ CommitAll(d) \/ (BeginSync(d) /\ CommitWork(d)) \/ Resolve(d)
  PROVE  Durable'
<1>. USE DEF Goto, ghosts, records, budgets, loopVars
<1>0. TypeOK /\ HistoryOK /\ CopyOK(d) /\ RunOK(d) /\ AckedIsStored
  BY DEF Durable
<1>1. CommitWork(d) /\ UNCHANGED <<tip, repo, tracking, acked, removed>>
  BY DEF FirstCommit, CommitAll, BeginSync, Resolve
<1>2. /\ Grown /\ HistoryOK'
      /\ TreeOf(head[d])' = work'[d]
      /\ EntriesOf(work[d])' = EntriesOf(work[d])
      /\ work'[d] = Repaired(work[d])
      /\ merging'[d] = 0
      /\ merging[d] # 0 => merging[d] \in PastOf(head[d])'
      /\ \A x \in Device : x # d =>
           work'[x] = work[x] /\ head'[x] = head[x] /\ merging'[x] = merging[x]
  BY <1>1, CommitWorkKeeps
<1>3. AckedIsStored'
  BY <1>0, <1>1, <1>2, SameTipKeeps
<1>4. \A x \in Device : x # d => Untouched(x)
  BY <1>0, <1>1, <1>2 DEF FirstCommit, CommitAll, BeginSync, Resolve, Untouched, TypeOK
<1>5. /\ phase'[d] \in {"first_push", "sync", "fetch", "flatten"}
      /\ phase'[d] = "flatten" => phase[d] = "resolve"
      /\ phase'[d] = "first_push" => promised'[d] = {}
      /\ promised'[d] = promised[d] \/ promised'[d] = EntriesOf(Repaired(work[d]))
      /\ phase[d] # "flatten_commit" /\ phase[d] # "idle"
  BY <1>0 DEF FirstCommit, CommitAll, BeginSync, Resolve, RunOK, TypeOK
<1>6. CopyOK(d)'
  <2>1. repo'[d]
    BY <1>0, <1>1, <1>5 DEF CopyOK
  <2>. QED  BY <1>2, <2>1, KeptFacts DEF CopyOK
<1>7. promised'[d] \ removed' \subseteq EntriesOf(TreeOf(head[d]))'
  <2>1. EntriesOf(TreeOf(head[d]))' = EntriesOf(work[d])'
    BY <1>2 DEF EntriesOf
  <2>2. promised[d] \ removed \subseteq EntriesOf(work[d])
    BY <1>0, <1>5, KeptFacts DEF RunOK, CopyOK
  <2>3. EntriesOf(work'[d]) = EntriesOf(work[d])
    BY <1>2 DEF EntriesOf
  <2>. QED  BY <1>1, <1>2, <1>5, <2>1, <2>2, <2>3
<1>8. phase'[d] = "flatten" => tracking'[d] \in PastOf(head[d])' /\ work'[d] = TreeOf(head[d])'
  BY <1>0, <1>1, <1>2, <1>5 DEF RunOK
<1>9. RunOK(d)'
  BY <1>5, <1>7, <1>8 DEF RunOK
<1>. QED  BY <1>1, <1>2, <1>3, <1>4, <1>6, <1>9, StepKeeps

\* The steps of a run that leave the device's copy alone.
LEMMA QuietKeeps ==
  ASSUME Durable, TypeOK', NEW d \in Device,
         \/ BeginSync(d) /\ UNCHANGED <<history, work, head, merging>>
         \/ Fetch(d) \/ RepackRemote(d) \/ NothingMerged(d)
  PROVE  Durable'
<1>. USE DEF Goto, ghosts, records, budgets, loopVars, localVars
<1>0. TypeOK /\ HistoryOK /\ CopyOK(d) /\ RunOK(d) /\ AckedIsStored
  BY DEF Durable
<1>1. /\ UNCHANGED <<history, tip, repo, work, head, merging, promised, acked, removed>>
      /\ phase[d] \in {"sync", "fetch", "merge"}
      /\ phase' = [phase EXCEPT ![d] = "fetch"] \/ phase' = [phase EXCEPT ![d] = "merge"]
           \/ phase' = [phase EXCEPT ![d] = "push"]
      /\ \E t : tracking' = tracking \/ tracking' = [tracking EXCEPT ![d] = t]
  <2>1. CASE BeginSync(d) /\ UNCHANGED <<history, work, head, merging>>
    BY <2>1 DEF BeginSync
  <2>2. CASE Fetch(d)
    BY <2>2 DEF Fetch, FetchEnds
  <2>3. CASE RepackRemote(d)
    BY <2>3 DEF RepackRemote, FetchEnds
  <2>4. CASE NothingMerged(d)
    BY <2>4 DEF NothingMerged
  <2>. QED  BY <2>1, <2>2, <2>3, <2>4
<1>2. phase'[d] \in {"fetch", "merge", "push"}
  BY <1>0, <1>1 DEF TypeOK
<1>3. \A x \in Device : x # d => Untouched(x)
  BY <1>0, <1>1 DEF Untouched, TypeOK
<1>4. Grown /\ HistoryOK' /\ AckedIsStored'
  BY <1>0, <1>1, SameHistoryKeeps, SameTipKeeps
<1>5. TreeOf(head[d])' = TreeOf(head[d])
  BY <1>1 DEF TreeOf
<1>6. merging[d] = 0 /\ repo[d]
  BY <1>0, <1>1 DEF CopyOK
<1>7. CopyOK(d)'
  BY <1>0, <1>1, <1>5, <1>6 DEF CopyOK
<1>8. RunOK(d)'
  BY <1>0, <1>1, <1>2, <1>5 DEF RunOK
<1>. QED  BY <1>1, <1>3, <1>4, <1>7, <1>8, StepKeeps

\* A fast-forward.
LEMMA FastForwardKeeps ==
  ASSUME Durable, TypeOK', NEW d \in Device, FastForward(d)
  PROVE  Durable'
<1>. USE DEF Goto, ghosts, records, budgets, loopVars
<1>. DEFINE t == TreeOf(tracking[d])
<1>0. TypeOK /\ HistoryOK /\ CopyOK(d) /\ RunOK(d) /\ AckedIsStored
  BY DEF Durable
<1>1. /\ UNCHANGED <<history, tip, repo, merging, tracking, promised, acked, removed>>
      /\ phase[d] = "merge" /\ phase'[d] = "push"
      /\ work'[d] = CheckedOut(d, t) /\ head'[d] = tracking[d]
      /\ ~Overwrites(d, t)
  BY <1>0 DEF FastForward, TypeOK
<1>2. \A x \in Device : x # d => Untouched(x)
  BY <1>0 DEF FastForward, Untouched, TypeOK
<1>3. Grown /\ HistoryOK' /\ AckedIsStored'
  BY <1>0, <1>1, SameHistoryKeeps, SameTipKeeps
<1>4. Kept(TreeOf(head[d]), t, removed)
  <2>1. CASE head[d] = 0
    BY <2>1, KeptFacts DEF TreeOf
  <2>2. CASE head[d] \in PastOf(tracking[d])
    BY <1>0, <2>2, DescendantKeeps DEF TypeOK
  <2>. QED  BY <2>1, <2>2 DEF FastForward
<1>5. Kept(t, CheckedOut(d, t), removed)
  BY <1>0, <1>1, CheckedOutKeeps DEF CopyOK
<1>6. TreeOf(head[d])' = t
  BY <1>1 DEF TreeOf
<1>. HIDE DEF t
<1>7. merging[d] = 0 /\ repo[d]
  BY <1>0, <1>1 DEF CopyOK
<1>8. CopyOK(d)'
  BY <1>1, <1>5, <1>6, <1>7 DEF CopyOK
<1>9. promised[d] \ removed \subseteq EntriesOf(t)
  <2>1. promised[d] \ removed \subseteq EntriesOf(TreeOf(head[d]))
    BY <1>0, <1>1 DEF RunOK
  <2>2. EntriesOf(TreeOf(head[d])) \ removed \subseteq EntriesOf(t)
    BY <1>4, KeptFacts
  <2>. QED  BY <2>1, <2>2
<1>10. EntriesOf(TreeOf(head[d]))' = EntriesOf(t)
  BY <1>6 DEF EntriesOf
<1>11. RunOK(d)'
  BY <1>1, <1>9, <1>10 DEF RunOK
<1>. QED  BY <1>1, <1>2, <1>3, <1>8, <1>11, StepKeeps

\* A best common ancestor is an ancestor of both.
LEMMA MergeBaseKeeps ==
  ASSUME TypeOK, HistoryOK, NEW a \in 0 .. Len(history), NEW b \in 0 .. Len(history),
         NEW base \in MergeBases(a, b)
  PROVE  Kept(TreeOf(base), TreeOf(a), removed) /\ Kept(TreeOf(base), TreeOf(b), removed)
<1>1. CASE base = 0
  BY <1>1, KeptFacts DEF TreeOf
<1>2. CASE base \in PastOf(a) \cap PastOf(b)
  BY <1>2, DescendantKeeps
<1>. QED  BY <1>1, <1>2 DEF MergeBases

\* The merge of two diverged branches.
LEMMA MergeKeeps ==
  ASSUME Durable, TypeOK', NEW d \in Device, Merge(d)
  PROVE  Durable'
<1>. USE DEF Goto, ghosts, records, budgets, loopVars
<1>0. TypeOK /\ HistoryOK /\ CopyOK(d) /\ RunOK(d) /\ AckedIsStored
  BY DEF Durable
<1>1. PICK base \in MergeBases(head[d], tracking[d]), fits \in SUBSET File :
        LET r == MergedTree(base, head[d], tracking[d], fits)
        IN /\ ~Overwrites(d, r)
           /\ work' = [work EXCEPT ![d] = CheckedOut(d, r)]
           /\ \/ /\ merging' = [merging EXCEPT ![d] = tracking[d]]
                 /\ Goto(d, "resolve")
                 /\ UNCHANGED <<history, head>>
              \/ /\ ~Conflicted(base, head[d], tracking[d], fits)
                 /\ history' = Append(history, NewCommit(r, {head[d], tracking[d]}))
                 /\ head' = [head EXCEPT ![d] = Len(history) + 1]
                 /\ Goto(d, "push")
                 /\ UNCHANGED merging
  BY DEF Merge
<1>. DEFINE o == head[d]
            t == tracking[d]
            r == MergedTree(base, o, t, fits)
<1>2. /\ UNCHANGED <<tip, repo, tracking, promised, acked, removed>>
      /\ phase[d] = "merge" /\ o # 0 /\ t # 0
  BY DEF Merge, Diverged
<1>3. o \in 1 .. Len(history) /\ t \in 1 .. Len(history) /\ Len(history) \in Nat
  BY <1>0, <1>2 DEF TypeOK
<1>4. Kept(TreeOf(o), r, removed) /\ Kept(TreeOf(t), r, removed)
  BY <1>0, <1>3, MergeBaseKeeps, MergedTreeKeeps
<1>5. r \in Tree
  BY <1>0, <1>3, MergedTreeType
<1>6. ~Overwrites(d, r) /\ work'[d] = CheckedOut(d, r)
  BY <1>0, <1>1 DEF TypeOK
<1>7. Kept(r, work'[d], removed)
  BY <1>0, <1>6, CheckedOutKeeps DEF CopyOK
<1>8. Kept(TreeOf(o), work'[d], removed) /\ Kept(TreeOf(t), work'[d], removed)
  BY <1>4, <1>7, KeptFacts
<1>9. merging[d] = 0 /\ repo[d]
  BY <1>0, <1>2 DEF CopyOK
<1>10. promised[d] \ removed \subseteq EntriesOf(TreeOf(o))
  BY <1>0, <1>2 DEF RunOK
<1>11. CASE /\ merging' = [merging EXCEPT ![d] = t]
            /\ Goto(d, "resolve")
            /\ UNCHANGED <<history, head>>
  <2>1. merging'[d] = t /\ phase'[d] = "resolve"
    BY <1>0, <1>11 DEF TypeOK
  <2>2. \A x \in Device : x # d => Untouched(x)
    BY <1>0, <1>1, <1>2, <1>11 DEF Untouched, TypeOK
  <2>3. Grown /\ HistoryOK' /\ AckedIsStored'
    BY <1>0, <1>2, <1>11, SameHistoryKeeps, SameTipKeeps
  <2>4. TreeOf(head[d])' = TreeOf(o) /\ TreeOf(merging[d])' = TreeOf(t)
    BY <1>2, <1>11, <2>1 DEF TreeOf
  <2>5. CopyOK(d)'
    BY <1>2, <1>8, <1>9, <2>1, <2>4 DEF CopyOK
  <2>6. EntriesOf(TreeOf(head[d]))' = EntriesOf(TreeOf(o))
    BY <2>4 DEF EntriesOf
  <2>7. RunOK(d)'
    BY <1>2, <1>10, <2>1, <2>6 DEF RunOK
  <2>. QED  BY <1>2, <2>2, <2>3, <2>5, <2>7, StepKeeps
<1>12. CASE /\ history' = Append(history, NewCommit(r, {o, t}))
            /\ head' = [head EXCEPT ![d] = Len(history) + 1]
            /\ Goto(d, "push")
            /\ UNCHANGED merging
  <2>1. head'[d] = Len(history) + 1 /\ phase'[d] = "push" /\ merging'[d] = 0
    BY <1>0, <1>9, <1>12 DEF TypeOK
  <2>2. \A x \in Device : x # d => Untouched(x)
    BY <1>0, <1>1, <1>2, <1>12 DEF Untouched, TypeOK
  <2>3. Grown /\ HistoryOK' /\ history'[Len(history) + 1].tree = r
    <3>1. {o, t} \in SUBSET (1 .. Len(history))
      BY <1>3
    <3>2. \A p \in {o, t} : Kept(TreeOf(p), r, removed)
      BY <1>4
    <3>. HIDE DEF o, t, r
    <3>. QED  BY <1>0, <1>2, <1>5, <1>12, <3>1, <3>2, NewCommitKeeps
  <2>4. AckedIsStored'
    BY <1>0, <1>2, <2>3, SameTipKeeps
  <2>5. TreeOf(head[d])' = r
    BY <1>3, <2>1, <2>3 DEF TreeOf
  <2>6. CopyOK(d)'
    BY <1>2, <1>7, <1>9, <2>1, <2>5 DEF CopyOK
  <2>7. EntriesOf(TreeOf(head[d]))' = EntriesOf(r)
    BY <2>5 DEF EntriesOf
  <2>8. promised[d] \ removed \subseteq EntriesOf(r)
    <3>1. EntriesOf(TreeOf(o)) \ removed \subseteq EntriesOf(r)
      BY <1>4, KeptFacts
    <3>. QED  BY <1>10, <3>1
  <2>9. RunOK(d)'
    BY <1>2, <2>1, <2>7, <2>8 DEF RunOK
  <2>. QED  BY <1>2, <2>2, <2>3, <2>4, <2>6, <2>9, StepKeeps
<1>. QED  BY <1>1, <1>11, <1>12

\* reset --soft to the remote's commit: the index keeps what HEAD had.
LEMMA FlattenKeeps ==
  ASSUME Durable, TypeOK', NEW d \in Device, Flatten(d)
  PROVE  Durable'
<1>. USE DEF Goto, ghosts, records, budgets, loopVars
<1>0. TypeOK /\ HistoryOK /\ CopyOK(d) /\ RunOK(d) /\ AckedIsStored
  BY DEF Durable
<1>1. /\ UNCHANGED <<history, tip, repo, work, merging, tracking, promised, acked, removed>>
      /\ phase[d] = "flatten" /\ head'[d] = tracking[d]
      /\ \/ work[d] = TreeOf(tracking[d]) /\ phase'[d] = "push"
         \/ phase'[d] = "flatten_commit"
  BY <1>0 DEF Flatten, TypeOK
<1>2. \A x \in Device : x # d => Untouched(x)
  BY <1>0 DEF Flatten, Untouched, TypeOK
<1>3. Grown /\ HistoryOK' /\ AckedIsStored'
  BY <1>0, <1>1, SameHistoryKeeps, SameTipKeeps
<1>4. tracking[d] \in PastOf(head[d]) /\ work[d] = TreeOf(head[d])
      /\ promised[d] \ removed \subseteq EntriesOf(work[d])
  BY <1>0, <1>1 DEF RunOK
<1>5. Kept(TreeOf(tracking[d]), work[d], removed)
  BY <1>0, <1>4, DescendantKeeps DEF TypeOK
<1>6. TreeOf(head[d])' = TreeOf(tracking[d])
  BY <1>1 DEF TreeOf
<1>7. merging[d] = 0 /\ repo[d]
  BY <1>0, <1>1 DEF CopyOK
<1>8. CopyOK(d)'
  BY <1>1, <1>5, <1>6, <1>7 DEF CopyOK
<1>9. EntriesOf(TreeOf(head[d]))' = EntriesOf(TreeOf(tracking[d]))
      /\ EntriesOf(work[d])' = EntriesOf(work[d])
  BY <1>1, <1>6 DEF EntriesOf
<1>10. RunOK(d)'
  BY <1>1, <1>4, <1>9 DEF RunOK
<1>. QED  BY <1>1, <1>2, <1>3, <1>8, <1>10, StepKeeps

\* The one commit on top of it.
LEMMA FlattenCommitKeeps ==
  ASSUME Durable, TypeOK', NEW d \in Device, FlattenCommit(d)
  PROVE  Durable'
<1>. USE DEF Goto, ghosts, records, budgets, loopVars
<1>. DEFINE ps == {head[d]} \ {0}
<1>0. TypeOK /\ HistoryOK /\ CopyOK(d) /\ RunOK(d) /\ AckedIsStored
  BY DEF Durable
<1>1. /\ UNCHANGED <<tip, repo, work, merging, tracking, promised, acked, removed>>
      /\ phase[d] = "flatten_commit" /\ phase'[d] = "push"
      /\ head'[d] = Len(history) + 1
      /\ history' = Append(history, NewCommit(work[d], ps))
  BY <1>0 DEF FlattenCommit, TypeOK
<1>2. \A x \in Device : x # d => Untouched(x)
  BY <1>0 DEF FlattenCommit, Untouched, TypeOK
<1>3. /\ work[d] \in Tree /\ ps \in SUBSET (1 .. Len(history)) /\ Len(history) \in Nat
      /\ \A p \in ps : Kept(TreeOf(p), work[d], removed)
  BY <1>0 DEF TypeOK, CopyOK
<1>. HIDE DEF ps
<1>4. Grown /\ HistoryOK' /\ history'[Len(history) + 1].tree = work[d]
  BY <1>0, <1>1, <1>3, NewCommitKeeps
<1>5. AckedIsStored'
  BY <1>0, <1>1, <1>4, SameTipKeeps
<1>6. TreeOf(head[d])' = work[d]
  BY <1>1, <1>3, <1>4 DEF TreeOf
<1>7. merging[d] = 0 /\ repo[d]
  BY <1>0, <1>1 DEF CopyOK
<1>8. CopyOK(d)'
  BY <1>1, <1>6, <1>7, KeptFacts DEF CopyOK
<1>9. EntriesOf(TreeOf(head[d]))' = EntriesOf(work[d])
  BY <1>6 DEF EntriesOf
<1>10. RunOK(d)'
  BY <1>0, <1>1, <1>9 DEF RunOK
<1>. QED  BY <1>1, <1>2, <1>4, <1>5, <1>8, <1>10, StepKeeps

\* A push, whatever comes of it and whatever the device is told.
LEMMA PushKeeps ==
  ASSUME Durable, TypeOK', NEW d \in Device,
         FirstPush(d) \/ PushSucceeds(d) \/ PushFails(d)
  PROVE  Durable'
<1>. USE DEF Goto, ghosts, records, budgets, loopVars, localVars
<1>0. TypeOK /\ HistoryOK /\ CopyOK(d) /\ RunOK(d) /\ AckedIsStored
  BY DEF Durable
<1>1. /\ UNCHANGED <<history, localVars, removed>>
      /\ phase[d] \in {"first_push", "push"}
      /\ tip' = tip \/ (tip' = head[d] /\ Accepts(head[d]))
      /\ acked' = acked \/ (acked' = acked \cup promised[d] /\ tip' = head[d] /\ Accepts(head[d]))
  BY DEF FirstPush, PushSucceeds, PushFails, StoreTakes
<1>2. \A x \in Device : x # d => promised'[x] = promised[x] /\ phase'[x] = phase[x]
  BY <1>0 DEF FirstPush, PushSucceeds, PushFails, TryAgain, EndRun, TypeOK
<1>3. /\ phase'[d] \in {"idle", "fetch"}
      /\ phase'[d] = "idle" => promised'[d] = {}
      /\ promised'[d] = {} \/ promised'[d] = promised[d]
  <2>1. CASE FirstPush(d)
    BY <1>0, <2>1 DEF FirstPush, RunOK, TypeOK
  <2>2. CASE PushSucceeds(d)
    BY <1>0, <2>2 DEF PushSucceeds, EndRun, TypeOK
  <2>3. CASE PushFails(d)
    BY <1>0, <2>3 DEF PushFails, TryAgain, EndRun, TypeOK
  <2>. QED  BY <2>1, <2>2, <2>3
<1>4. \A x \in Device : x # d => Untouched(x)
  BY <1>1, <1>2 DEF Untouched
<1>5. Grown /\ HistoryOK'
  BY <1>0, <1>1, SameHistoryKeeps
<1>6. TreeOf(head[d])' = TreeOf(head[d])
  BY <1>1 DEF TreeOf
<1>7. merging[d] = 0 /\ repo[d]
  BY <1>0, <1>1 DEF CopyOK
<1>8. CopyOK(d)'
  BY <1>0, <1>1, <1>6, <1>7 DEF CopyOK
<1>9. promised[d] \ removed \subseteq EntriesOf(TreeOf(head[d]))
  BY <1>0, <1>1 DEF RunOK
<1>10. EntriesOf(TreeOf(head[d]))' = EntriesOf(TreeOf(head[d]))
  BY <1>6 DEF EntriesOf
<1>11. RunOK(d)'
  BY <1>1, <1>3, <1>9, <1>10 DEF RunOK
<1>12. AckedIsStored'
  <2>1. CASE tip' = tip /\ acked' = acked
    BY <1>0, <1>1, <1>5, <2>1, SameTipKeeps
  <2>2. CASE tip' = head[d] /\ Accepts(head[d])
    <3>1. acked \ removed \subseteq EntriesOf(TreeOf(head[d]))
      BY <1>0, <2>2, AcceptedKeeps DEF TypeOK
    <3>2. EntriesOf(TreeOf(tip))' = EntriesOf(TreeOf(head[d]))
      BY <1>1, <2>2 DEF TreeOf, EntriesOf
    <3>. QED  BY <1>1, <1>9, <3>1, <3>2 DEF AckedIsStored
  <2>. QED  BY <1>1, <2>1, <2>2
<1>. QED  BY <1>1, <1>4, <1>5, <1>8, <1>11, <1>12, StepKeeps

\* A run that stops, by an error or because the page is closed.
LEMMA StopKeeps ==
  ASSUME Durable, TypeOK', NEW d \in Device, Refuse(d) \/ Interrupt(d)
  PROVE  Durable'
<1>. USE DEF budgets
<1>0. TypeOK /\ HistoryOK /\ CopyOK(d) /\ RunOK(d) /\ AckedIsStored
  BY DEF Durable
<1>1. PICK fs : work' = [work EXCEPT ![d] = RepairedIn(@, fs)]
  BY DEF Refuse, Interrupt
<1>2. /\ UNCHANGED <<history, tip, repo, head, merging, tracking, removed, acked>>
      /\ EndRun(d) /\ phase[d] # "idle"
  BY DEF Refuse, Interrupt, Committing
<1>3. phase'[d] = "idle" /\ promised'[d] = {}
  BY <1>0, <1>2 DEF EndRun, Goto, TypeOK
<1>4. \A x \in Device : x # d => Untouched(x)
  BY <1>0, <1>1, <1>2 DEF EndRun, Goto, Untouched, TypeOK
<1>5. Grown /\ HistoryOK' /\ AckedIsStored'
  BY <1>0, <1>2, SameHistoryKeeps, SameTipKeeps
<1>6. /\ Kept(TreeOf(head[d]), work[d], removed)'
      /\ merging[d] # 0 => Kept(TreeOf(merging[d]), work[d], removed)'
  BY <1>0, <1>1, <1>2, RepairKeeps
<1>7. repo'[d]
  BY <1>0, <1>2 DEF CopyOK
<1>8. CopyOK(d)'
  BY <1>2, <1>3, <1>6, <1>7 DEF CopyOK
<1>9. RunOK(d)'
  BY <1>3 DEF RunOK
<1>. QED  BY <1>2, <1>4, <1>5, <1>8, <1>9, StepKeeps

---------------------------------------------------------------------------
(* The invariant and the theorems. *)

\* A store that is empty or holds an older client's commit, and no copy yet.
LEMMA DurableInit == Init => Durable
<1>. SUFFICES ASSUME Init PROVE Durable
  OBVIOUS
<1>1. TypeOK
  BY InitType
<1>2. HistoryOK
  <2>1. CASE tip = 0
    BY <2>1 DEF Init, HistoryOK
  <2>2. CASE tip # 0
    <3>1. history = <<[tree |-> SeedTree, parents |-> {}, past |-> {1}]>>
      BY <2>2 DEF Init
    <3>. QED  BY <3>1, KeptFacts DEF HistoryOK
  <2>. QED  BY <2>1, <2>2
<1>3. ASSUME NEW d \in Device PROVE CopyOK(d) /\ RunOK(d)
  <2>1. /\ head[d] = 0 /\ merging[d] = 0 /\ phase[d] = "idle" /\ promised[d] = {}
    BY DEF Init
  <2>. QED  BY <2>1, KeptFacts DEF CopyOK, RunOK, TreeOf
<1>4. AckedIsStored
  BY DEF Init, AckedIsStored
<1>. QED  BY <1>1, <1>2, <1>3, <1>4 DEF Durable

\* Every action of a page, a user, a run or a crash keeps the invariant.
LEMMA DurableNext == Durable /\ [Next]_vars => Durable'
<1>. SUFFICES ASSUME Durable, [Next]_vars PROVE Durable'
  OBVIOUS
<1>1. TypeOK'
  BY NextType DEF Durable
<1>2. CASE UNCHANGED vars
  <2>1. /\ UNCHANGED <<history, tip, removed, acked>>
        /\ \A d \in Device : Untouched(d)
    BY <1>2 DEF vars, localVars, ghosts, records, Untouched
  <2>2. Grown /\ HistoryOK' /\ AckedIsStored'
    BY <2>1, SameHistoryKeeps, SameTipKeeps DEF Durable
  <2>3. \A d \in Device : CopyOK(d)' /\ RunOK(d)'
    BY <2>1, <2>2, UntouchedKeeps DEF Durable
  <2>. QED  BY <1>1, <2>2, <2>3 DEF Durable
<1>3. ASSUME NEW d \in Device, NEW e \in Entry, Write(d, e) \/ Remove(d, e) PROVE Durable'
  BY <1>1, <1>3, PageKeeps
<1>4. ASSUME NEW d \in Device, DeleteLocal(d) \/ Start(d) PROVE Durable'
  BY <1>1, <1>4, UserKeeps
<1>5. ASSUME NEW d \in Device, RunStep(d) PROVE Durable'
  <2>1. CASE FirstCommit(d) \/ CommitAll(d) \/ Resolve(d)
    BY <1>1, <2>1, CommitKeeps
  <2>2. CASE BeginSync(d)
    BY <1>1, <2>2, CommitKeeps, QuietKeeps DEF BeginSync
  <2>3. CASE Fetch(d) \/ RepackRemote(d) \/ NothingMerged(d)
    BY <1>1, <2>3, QuietKeeps
  <2>4. CASE FastForward(d)
    BY <1>1, <2>4, FastForwardKeeps
  <2>5. CASE Merge(d)
    BY <1>1, <2>5, MergeKeeps
  <2>6. CASE Flatten(d)
    BY <1>1, <2>6, FlattenKeeps
  <2>7. CASE FlattenCommit(d)
    BY <1>1, <2>7, FlattenCommitKeeps
  <2>8. CASE FirstPush(d) \/ PushSucceeds(d) \/ PushFails(d)
    BY <1>1, <2>8, PushKeeps
  <2>9. CASE Refuse(d)
    BY <1>1, <2>9, StopKeeps
  <2>. QED  BY <1>5, <2>1, <2>2, <2>3, <2>4, <2>5, <2>6, <2>7, <2>8, <2>9 DEF RunStep
<1>6. ASSUME NEW d \in Device, Interrupt(d) PROVE Durable'
  BY <1>1, <1>6, StopKeeps
<1>. QED  BY <1>2, <1>3, <1>4, <1>5, <1>6 DEF Next

\* The strengthening of AckedIsStored that is inductive: besides the store, it speaks
\* of all commits, of every device's copy and of what each run has promised so far.
THEOREM DurableInvariant == Spec => []Durable
BY DurableInit, DurableNext, PTL DEF Spec

\* Whatever the number of devices, runs cut short, lost answers, concurrent pushes
\* and merges: a record that was in the working copy when a synchronization that
\* ended well committed it is in the store from then on, unless a page removed it.
THEOREM Durability == Spec => []AckedIsStored
<1>1. Durable => AckedIsStored
  BY DEF Durable
<1>. QED  BY DurableInvariant, <1>1, PTL

\* A merge left unfinished by a run that was cut short is always finished before
\* the worker starts another: no device reaches "repository is in unexpected state".
THEOREM MergesAreFinished == Spec => []MergeFinishedFirst
<1>1. Durable => MergeFinishedFirst
  BY DEF Durable, CopyOK, MergeFinishedFirst
<1>. QED  BY DurableInvariant, <1>1, PTL

\* In every state the store's tip descends only from commits whose records it keeps,
\* and so does every commit a device is at: no merge, repair or flattening drops a
\* record of an ancestor that nobody removed.
THEOREM HistoryKeepsRecords == Spec => []HistoryOK
<1>1. Durable => HistoryOK
  BY DEF Durable
<1>. QED  BY DurableInvariant, <1>1, PTL

---------------------------------------------------------------------------
(* Refinement: what a step does to the store and to the copies. *)

\* origin/master, where a device has one, is the store's tip or an ancestor of it.
TrackedOK == \A d \in Device : tracking[d] # 0 => tracking[d] \in PastOf(tip)

\* What a step does to the commits, to the tip and to what a device knows of it.
LEMMA StepMoves ==
  ASSUME TypeOK, [Next]_vars
  PROVE  /\ history' = history \/ \E c : history' = Append(history, c)
         /\ \/ tip' = tip
            \/ \E d \in Device : tip' = head[d] /\ Accepts(head[d]) /\ history' = history
         /\ \/ tracking' = tracking
            \/ \E d \in Device, t \in {0, tip} : tracking' = [tracking EXCEPT ![d] = t] /\ tip' = tip
<1>. USE DEF localVars, loopVars, ghosts, records, budgets
<1>1. CASE UNCHANGED vars
  BY <1>1 DEF vars
<1>2. ASSUME NEW d \in Device, NEW e \in Entry, Write(d, e) \/ Remove(d, e)
      PROVE  UNCHANGED <<history, tip, tracking>>
  BY <1>2 DEF Write, Remove
<1>3. ASSUME NEW d \in Device, DeleteLocal(d) \/ StartSync(d) \/ Clone(d) \/ StartFirst(d)
      PROVE  /\ UNCHANGED <<history, tip>>
             /\ \/ tracking' = tracking
                \/ \E t \in {0, tip} : tracking' = [tracking EXCEPT ![d] = t]
  BY <1>3 DEF DeleteLocal, StartSync, Clone, StartFirst
<1>4. ASSUME NEW d \in Device, CommitWork(d)
      PROVE  history' = history \/ \E c : history' = Append(history, c)
  BY <1>4 DEF CommitWork
<1>5. ASSUME NEW d \in Device, FirstCommit(d) \/ CommitAll(d) \/ BeginSync(d) \/ Resolve(d)
      PROVE  /\ history' = history \/ \E c : history' = Append(history, c)
             /\ UNCHANGED <<tip, tracking>>
  BY <1>4, <1>5 DEF FirstCommit, CommitAll, BeginSync, Resolve
<1>6. ASSUME NEW d \in Device, FirstPush(d) \/ PushSucceeds(d) \/ PushFails(d)
      PROVE  /\ UNCHANGED <<history, tracking>>
             /\ tip' = tip \/ (tip' = head[d] /\ Accepts(head[d]))
  BY <1>6 DEF FirstPush, PushSucceeds, PushFails, StoreTakes
<1>7. ASSUME NEW d \in Device, Fetch(d) \/ RepackRemote(d)
      PROVE  /\ UNCHANGED <<history, tip>>
             /\ \/ tracking' = tracking
                \/ \E t \in {0, tip} : tracking' = [tracking EXCEPT ![d] = t]
  BY <1>7 DEF Fetch, RepackRemote, FetchEnds
<1>8. ASSUME NEW d \in Device,
             NothingMerged(d) \/ FastForward(d) \/ Flatten(d) \/ Refuse(d) \/ Interrupt(d)
      PROVE  UNCHANGED <<history, tip, tracking>>
  BY <1>8 DEF NothingMerged, FastForward, Flatten, Refuse, Interrupt
<1>9. ASSUME NEW d \in Device, Merge(d) \/ FlattenCommit(d)
      PROVE  /\ history' = history \/ \E c : history' = Append(history, c)
             /\ UNCHANGED <<tip, tracking>>
  BY <1>9 DEF Merge, FlattenCommit
<1>. QED
  BY <1>1, <1>2, <1>3, <1>5, <1>6, <1>7, <1>8, <1>9 DEF Next, Start, RunStep

\* Commits are never changed or dropped by a step.
LEMMA StepGrows ==
  ASSUME TypeOK, [Next]_vars
  PROVE  Grown
<1>1. history \in Seq(Commit)
  BY DEF TypeOK
<1>2. CASE history' = history
  BY <1>1, <1>2 DEF Grown
<1>3. CASE \E c : history' = Append(history, c)
  BY <1>1, <1>3 DEF Grown
<1>. QED  BY <1>2, <1>3, StepMoves

\* The tip only moves to a descendant.
LEMMA TipAdvances ==
  ASSUME Durable, [Next]_vars
  PROVE  PastOf(tip) \subseteq PastOf(tip)'
<1>0. TypeOK /\ HistoryOK /\ tip \in 0 .. Len(history)
  BY DEF Durable, TypeOK
<1>1. CASE tip' = tip
  BY <1>0, <1>1, StepGrows DEF Grown, PastOf
<1>2. ASSUME NEW d \in Device, tip' = head[d], Accepts(head[d]), history' = history
      PROVE  PastOf(tip) \subseteq PastOf(tip)'
  <2>1. tip = 0 \/ tip \in PastOf(head[d])
    BY <1>2 DEF Accepts
  <2>2. head[d] \in 1 .. Len(history)
    BY <1>0, <1>2 DEF Accepts, TypeOK
  <2>3. PastOf(tip) \subseteq PastOf(head[d])
    BY <1>0, <2>1, <2>2 DEF HistoryOK, PastOf
  <2>4. PastOf(tip)' = PastOf(head[d])
    BY <1>2 DEF PastOf
  <2>. QED  BY <2>3, <2>4
<1>. QED  BY <1>0, <1>1, <1>2, StepMoves

\* A push or a fetch leaves origin/master an ancestor of the tip.
LEMMA TrackedStep == Durable /\ TrackedOK /\ [Next]_vars => TrackedOK'
<1>. SUFFICES ASSUME Durable, TrackedOK, [Next]_vars, NEW x \in Device, tracking'[x] # 0
              PROVE  tracking'[x] \in PastOf(tip)'
  BY DEF TrackedOK
<1>0. TypeOK /\ HistoryOK
  BY DEF Durable
<1>1. tip # 0 => tip \in PastOf(tip)
  BY <1>0 DEF TypeOK, HistoryOK, PastOf
<1>2. tracking'[x] \in {tracking[x], 0, tip}
  BY <1>0, StepMoves DEF TypeOK
<1>3. tracking'[x] \in PastOf(tip)
  BY <1>1, <1>2 DEF TrackedOK
<1>. QED  BY <1>3, TipAdvances

---------------------------------------------------------------------------

\* Only one device's copy changes by a step, and how.
Learns(d) ==
  /\ EntriesOf(work[d]) \ removed \subseteq EntriesOf(work'[d])
  /\ EntriesOf(work'[d]) \ removed \subseteq EntriesOf(work[d]) \cup EntriesOf(TreeOf(tip))

\* The records of a tree are those of its files.
LEMMA TreesTouch ==
  /\ EntriesOf(EmptyTree) = {}
  /\ \A t : \A f \in File : UNION t[f] \subseteq EntriesOf(t)
BY DEF EntriesOf, EmptyTree

\* A record is in a tree when it is in one of its files.
LEMMA EntriesMembers ==
  \A t, x : x \in EntriesOf(t) <=> \E f \in File : x \in UNION t[f]
BY DEF EntriesOf

\* A tree whose files are some the copy has and some of the store's ancestors.
LEMMA CheckedOutLearns ==
  ASSUME TypeOK, NEW d \in Device, NEW tree, ~Overwrites(d, tree),
         Kept(TreeOf(head[d]), tree, removed),
         work'[d] = CheckedOut(d, tree),
         EntriesOf(tree) \ removed \subseteq EntriesOf(work[d]) \cup EntriesOf(TreeOf(tip))
  PROVE  Learns(d)
<1>1. ASSUME NEW f \in File
      PROVE  /\ (UNION work[d][f]) \ removed \subseteq UNION work'[d][f]
             /\ UNION work'[d][f] \subseteq (UNION work[d][f]) \cup (UNION tree[f])
  <2>1. CASE f \in Dirty(d)
    BY <2>1 DEF CheckedOut
  <2>2. CASE f \notin Dirty(d)
    <3>1. work'[d][f] = tree[f] /\ work[d][f] = TreeOf(head[d])[f]
      BY <2>2 DEF CheckedOut, Dirty
    <3>. QED  BY <3>1 DEF Kept
  <2>. QED  BY <2>1, <2>2
<1>2. EntriesOf(work[d]) \ removed \subseteq EntriesOf(work'[d])
  BY <1>1 DEF EntriesOf
<1>3. EntriesOf(work'[d]) \subseteq EntriesOf(work[d]) \cup EntriesOf(tree)
  BY <1>1 DEF EntriesOf
<1>. QED  BY <1>2, <1>3 DEF Learns

\* What a commit holds that descends to the tip, the tip holds.
LEMMA TrackedIsStored ==
  ASSUME Durable, TrackedOK, NEW d \in Device
  PROVE  Kept(TreeOf(tracking[d]), TreeOf(tip), removed)
<1>0. TypeOK /\ HistoryOK /\ tip \in 0 .. Len(history)
  BY DEF Durable, TypeOK
<1>1. CASE tracking[d] = 0
  BY <1>1, KeptFacts DEF TreeOf
<1>2. CASE tracking[d] \in PastOf(tip)
  BY <1>0, <1>2, DescendantKeeps
<1>. QED  BY <1>1, <1>2 DEF TrackedOK

\* A fast-forward brings in what origin/master has, which the store has.
LEMMA FastForwardLearns ==
  ASSUME Durable, TrackedOK, NEW d \in Device, FastForward(d)
  PROVE  Learns(d)
<1>. DEFINE t == TreeOf(tracking[d])
<1>0. TypeOK /\ HistoryOK
  BY DEF Durable
<1>1. ~Overwrites(d, t) /\ work'[d] = CheckedOut(d, t)
  BY <1>0 DEF FastForward, TypeOK
<1>2. Kept(TreeOf(head[d]), t, removed)
  <2>1. CASE head[d] = 0
    BY <2>1, KeptFacts DEF TreeOf
  <2>2. CASE head[d] \in PastOf(tracking[d])
    BY <1>0, <2>2, DescendantKeeps DEF TypeOK
  <2>. QED  BY <2>1, <2>2 DEF FastForward
<1>3. EntriesOf(t) \ removed \subseteq EntriesOf(TreeOf(tip))
  BY TrackedIsStored, KeptFacts
<1>. QED  BY <1>0, <1>1, <1>2, <1>3, CheckedOutLearns

\* A merge brings in nothing that neither side has.
LEMMA MergeAddsNothing ==
  ASSUME NEW base, NEW a, NEW b, NEW fits
  PROVE  EntriesOf(MergedTree(base, a, b, fits)) \subseteq EntriesOf(TreeOf(a)) \cup EntriesOf(TreeOf(b))
<1>1. ASSUME NEW x, NEW ours, NEW theirs, NEW fit
      PROVE  UNION MergeText(x, ours, theirs, fit) \subseteq (UNION ours) \cup (UNION theirs)
  <2>1. UNION (ours \cup theirs) \subseteq (UNION ours) \cup (UNION theirs)
    OBVIOUS
  <2>2. \A S : UNION {S} = S
    OBVIOUS
  <2>. QED  BY <2>1, <2>2 DEF MergeText
<1>2. ASSUME NEW f \in File
      PROVE  UNION MergedTree(base, a, b, fits)[f]
               \subseteq (UNION TreeOf(a)[f]) \cup (UNION TreeOf(b)[f])
  BY <1>1 DEF MergedTree
<1>. QED  BY <1>2 DEF EntriesOf

\* A merge keeps what the copy has and brings in what origin/master has.
LEMMA MergeLearns ==
  ASSUME Durable, TrackedOK, NEW d \in Device, Merge(d)
  PROVE  Learns(d)
<1>0. TypeOK /\ HistoryOK /\ CopyOK(d)
  BY DEF Durable
<1>1. PICK base \in MergeBases(head[d], tracking[d]), fits \in SUBSET File :
        LET r == MergedTree(base, head[d], tracking[d], fits)
        IN  ~Overwrites(d, r) /\ work' = [work EXCEPT ![d] = CheckedOut(d, r)]
  BY DEF Merge
<1>. DEFINE r == MergedTree(base, head[d], tracking[d], fits)
<1>2. ~Overwrites(d, r) /\ work'[d] = CheckedOut(d, r)
  BY <1>0, <1>1 DEF TypeOK
<1>3. head[d] \in 0 .. Len(history) /\ tracking[d] \in 0 .. Len(history)
  BY <1>0 DEF TypeOK
<1>4. Kept(TreeOf(head[d]), r, removed)
  BY <1>0, <1>3, MergeBaseKeeps, MergedTreeKeeps
<1>5. EntriesOf(r) \subseteq EntriesOf(TreeOf(head[d])) \cup EntriesOf(TreeOf(tracking[d]))
  BY MergeAddsNothing
<1>6. EntriesOf(TreeOf(head[d])) \ removed \subseteq EntriesOf(work[d])
  BY <1>0, KeptFacts DEF CopyOK
<1>7. EntriesOf(TreeOf(tracking[d])) \ removed \subseteq EntriesOf(TreeOf(tip))
  BY TrackedIsStored, KeptFacts
<1>. HIDE DEF r
<1>. QED  BY <1>0, <1>2, <1>4, <1>5, <1>6, <1>7, CheckedOutLearns

\* A clone takes over the store's tree.
LEMMA CloneLearns ==
  ASSUME Durable, NEW d \in Device, Clone(d)
  PROVE  Learns(d)
<1>1. EntriesOf(work[d]) = {}
  BY TreesTouch DEF Clone
<1>2. work'[d] = TreeOf(tip) \/ work'[d] = work[d]
  BY DEF Clone, localVars, Durable, TypeOK
<1>. QED  BY <1>1, <1>2 DEF Learns

---------------------------------------------------------------------------
(* Every step is a step of SharedRecords, or changes none of its variables. *)

\* The records of the store and of the copies, whatever files they are in.
SameRecords(d) == EntriesOf(work'[d]) = EntriesOf(work[d])
OtherCopies(d) == \A x \in Device : x # d => work'[x] = work[x]

\* A page that adds a record adds it to its own copy.
LEMMA WriteAdds ==
  ASSUME TypeOK, NEW d \in Device, NEW e \in Entry, Write(d, e)
  PROVE  /\ EntriesOf(work'[d]) = EntriesOf(work[d]) \cup {e}
         /\ OtherCopies(d)
         /\ UNCHANGED <<history, tip, removed, acked>>
<1>. DEFINE f == FileOf[e]
<1>0. f \in File
  BY ConstantsAssumption
<1>1. work' = [work EXCEPT ![d][f] = {(UNION @) \cup {e}}]
  BY DEF Write
<1>2. /\ work'[d] = [work[d] EXCEPT ![f] = {(UNION @) \cup {e}}]
      /\ OtherCopies(d)
  BY <1>1 DEF TypeOK, OtherCopies
<1>3. \A g \in File : work'[d][g] = IF g = f THEN {(UNION work[d][f]) \cup {e}} ELSE work[d][g]
  BY <1>0, <1>2 DEF TypeOK, Tree
<1>4. UNION {(UNION work[d][f]) \cup {e}} = (UNION work[d][f]) \cup {e}
  OBVIOUS
<1>5. \A g \in File : UNION work'[d][g] =
        IF g = f THEN (UNION work[d][g]) \cup {e} ELSE UNION work[d][g]
  BY <1>3, <1>4
<1>6. EntriesOf(work'[d]) = EntriesOf(work[d]) \cup {e}
  <2>1. \A x : x \in EntriesOf(work'[d]) <=> x = e \/ x \in EntriesOf(work[d])
    BY <1>0, <1>5, EntriesMembers
  <2>. QED  BY <2>1
<1>. QED  BY <1>2, <1>6 DEF Write

\* A page that removes a record removes it from its own copy.
LEMMA RemoveTakes ==
  ASSUME TypeOK, NEW d \in Device, NEW e \in Entry, Remove(d, e)
  PROVE  /\ EntriesOf(work'[d]) \cup {e} = EntriesOf(work[d]) \cup {e}
         /\ OtherCopies(d)
         /\ UNCHANGED <<history, tip, acked>>
         /\ removed' = removed \cup {e}
<1>. DEFINE f == FileOf[e]
<1>0. f \in File
  BY ConstantsAssumption
<1>1. work' = [work EXCEPT ![d][f] = {(UNION @) \ {e}}]
  BY DEF Remove
<1>2. /\ work'[d] = [work[d] EXCEPT ![f] = {(UNION @) \ {e}}]
      /\ OtherCopies(d)
  BY <1>1 DEF TypeOK, OtherCopies
<1>3. \A g \in File : work'[d][g] = IF g = f THEN {(UNION work[d][f]) \ {e}} ELSE work[d][g]
  BY <1>0, <1>2 DEF TypeOK, Tree
<1>4. UNION {(UNION work[d][f]) \ {e}} = (UNION work[d][f]) \ {e}
  OBVIOUS
<1>5. \A g \in File : UNION work'[d][g] =
        IF g = f THEN (UNION work[d][g]) \ {e} ELSE UNION work[d][g]
  BY <1>3, <1>4
<1>6. EntriesOf(work'[d]) \cup {e} = EntriesOf(work[d]) \cup {e}
  <2>1. \A x : x # e => (x \in EntriesOf(work'[d]) <=> x \in EntriesOf(work[d]))
    BY <1>0, <1>5, EntriesMembers
  <2>. QED  BY <2>1
<1>. QED  BY <1>2, <1>6 DEF Remove

\* The tip a push may leave behind.
Pushed(d) ==
  /\ tip' = head[d] /\ Accepts(head[d])
  /\ phase[d] \in {"first_push", "push"}
  /\ acked' = acked \/ acked' = acked \cup promised[d]

\* A step that neither writes nor removes: one copy learns from the store, or a
\* device pushes, or all copies hold the records they held.
LEMMA GitStep ==
  ASSUME Durable, TrackedOK, NEW d \in Device, Start(d) \/ RunStep(d) \/ Interrupt(d)
  PROVE  /\ removed' = removed
         /\ OtherCopies(d)
         /\ \/ Learns(d) /\ UNCHANGED <<tip, acked>>
            \/ SameRecords(d) /\ UNCHANGED <<tip, acked>>
            \/ SameRecords(d) /\ history' = history /\ Pushed(d)
<1>. USE DEF localVars, ghosts, records, OtherCopies, SameRecords
<1>0. TypeOK /\ CopyOK(d)
  BY DEF Durable
<1>1. CASE StartSync(d) \/ StartFirst(d) \/ Fetch(d) \/ RepackRemote(d) \/ NothingMerged(d)
            \/ Flatten(d) \/ FlattenCommit(d)
  BY <1>1 DEF StartSync, StartFirst, Fetch, RepackRemote, FetchEnds, NothingMerged, Flatten,
              FlattenCommit
<1>2. CASE Clone(d)
  BY <1>0, <1>2, CloneLearns DEF Clone, TypeOK
<1>3. CASE FastForward(d)
  BY <1>0, <1>3, FastForwardLearns DEF FastForward, TypeOK
<1>4. CASE Merge(d)
  <2>1. \A x \in Device : x # d => work'[x] = work[x]
    BY <1>0, <1>4 DEF Merge, TypeOK
  <2>2. removed' = removed /\ UNCHANGED <<tip, acked>>
    BY <1>4 DEF Merge
  <2>. QED  BY <1>4, <2>1, <2>2, MergeLearns
<1>5. CASE FirstCommit(d) \/ CommitAll(d) \/ Resolve(d) \/ (BeginSync(d) /\ CommitWork(d))
  <2>1. CommitWork(d) /\ removed' = removed /\ UNCHANGED <<tip, acked>>
    BY <1>5 DEF FirstCommit, CommitAll, Resolve, BeginSync
  <2>. QED  BY <2>1, CommitWorkKeeps
<1>6. CASE BeginSync(d) /\ UNCHANGED <<history, work, head, merging>>
  BY <1>6 DEF BeginSync
<1>7. CASE FirstPush(d) \/ PushSucceeds(d) \/ PushFails(d)
  <2>1. UNCHANGED <<history, work, removed>>
    BY <1>7 DEF FirstPush, PushSucceeds, PushFails
  <2>2. UNCHANGED <<tip, acked>> \/ Pushed(d)
    BY <1>7 DEF FirstPush, PushSucceeds, PushFails, StoreTakes, Pushed
  <2>. QED  BY <2>1, <2>2
<1>8. CASE Refuse(d) \/ Interrupt(d)
  <2>1. PICK fs : work' = [work EXCEPT ![d] = RepairedIn(@, fs)]
    BY <1>8 DEF Refuse, Interrupt
  <2>2. UNCHANGED <<history, tip, repo, head, merging, removed, acked>>
    BY <1>8 DEF Refuse, Interrupt, budgets
  <2>3. SameRecords(d)
    BY <1>0, <2>1, <2>2, RepairKeeps DEF EntriesOf
  <2>. QED  BY <1>0, <2>1, <2>2, <2>3 DEF TypeOK
<1>9. BeginSync(d) => CommitWork(d) \/ UNCHANGED <<history, work, head, merging>>
  BY DEF BeginSync
<1>. QED
  BY <1>1, <1>2, <1>3, <1>4, <1>5, <1>6, <1>7, <1>8, <1>9 DEF Start, RunStep

\* The store keeps what it has when nobody pushes, and when a push goes through.
LEMMA SameTipSameRecords ==
  ASSUME Durable, [Next]_vars, tip' = tip
  PROVE  EntriesOf(TreeOf(tip))' = EntriesOf(TreeOf(tip))
<1>1. TypeOK
  BY DEF Durable
<1>2. TreeOf(tip)' = TreeOf(tip)
  BY <1>1, StepGrows DEF TypeOK, Grown, TreeOf
<1>. QED  BY <1>2 DEF EntriesOf

\* A push adds to the store what the copy of the device that pushes has, and only
\* what it added is acknowledged.
LEMMA PushPublishes ==
  ASSUME Durable, Durable', NEW d \in Device, Pushed(d), UNCHANGED <<history, removed>>
  PROVE  /\ storeBar \subseteq storeBar'
         /\ storeBar' \subseteq storeBar \cup copyBar[d]
         /\ ackedBar \subseteq ackedBar'
         /\ ackedBar' \subseteq ackedBar \cup copyBar[d]
         /\ ackedBar' \subseteq storeBar'
<1>0. TypeOK /\ HistoryOK /\ CopyOK(d) /\ RunOK(d) /\ tip \in 0 .. Len(history)
      /\ head[d] \in 0 .. Len(history)
  BY DEF Durable, TypeOK
<1>1. EntriesOf(TreeOf(tip))' = EntriesOf(TreeOf(head[d]))
  BY DEF Pushed, TreeOf, EntriesOf
<1>2. EntriesOf(TreeOf(tip)) \ removed \subseteq EntriesOf(TreeOf(head[d]))
  <2>1. CASE tip = 0
    BY <2>1, TreesTouch DEF TreeOf
  <2>2. CASE tip \in PastOf(head[d])
    BY <1>0, <2>2, DescendantKeeps, KeptFacts
  <2>. QED  BY <2>1, <2>2 DEF Pushed, Accepts
<1>3. EntriesOf(TreeOf(head[d])) \ removed \subseteq EntriesOf(work[d])
  BY <1>0, KeptFacts DEF CopyOK
<1>4. promised[d] \ removed \subseteq EntriesOf(TreeOf(head[d]))
  BY <1>0 DEF RunOK, Pushed
<1>5. acked' \ removed' \subseteq EntriesOf(TreeOf(tip))'
  BY DEF Durable, AckedIsStored
<1>. QED  BY <1>1, <1>2, <1>3, <1>4, <1>5 DEF storeBar, copyBar, ackedBar, Pushed

\* No copy holds a record, and the store the seed's.
LEMMA SharedInit == Init => Shared!Init
<1>. SUFFICES ASSUME Init PROVE Shared!Init
  OBVIOUS
<1>1. TypeOK
  BY InitType
<1>2. copyBar = [d \in Device |-> {}]
  BY TreesTouch DEF copyBar, Init
<1>3. storeBar \subseteq Entry
  <2>1. TreeOf(tip) \in Tree
    BY <1>1, TreeOfType DEF TypeOK
  <2>2. \A f \in File : UNION TreeOf(tip)[f] \subseteq Entry
    BY <2>1 DEF Tree, Text
  <2>. QED  BY <2>2, EntriesMembers DEF storeBar
<1>4. ackedBar = {}
  BY DEF ackedBar, Init
<1>. QED  BY <1>2, <1>3, <1>4 DEF Shared!Init

\* Writing adds, removing withdraws, deleting discards; a clone, a fast-forward and a
\* merge learn; a push publishes; the rest leaves the shared records alone.
LEMMA SharedStep ==
  ASSUME Durable, Durable', TrackedOK, [Next]_vars
  PROVE  [Shared!Next]_(Shared!sharedVars)
<1>. USE DEF copyBar, storeBar, ackedBar
<1>0. TypeOK
  BY DEF Durable
<1>1. CASE UNCHANGED vars
  BY <1>1 DEF vars, localVars, ghosts, records, Shared!sharedVars, TreeOf, EntriesOf
<1>2. ASSUME NEW d \in Device, NEW e \in Entry, Write(d, e)
      PROVE  Shared!Next \/ UNCHANGED Shared!sharedVars
  <2>1. storeBar' = storeBar /\ ackedBar' = ackedBar
    BY <1>0, <1>2, WriteAdds DEF TreeOf, EntriesOf
  <2>2. copyBar' = IF e \in removed THEN copyBar ELSE [copyBar EXCEPT ![d] = @ \cup {e}]
    <3>1. \A x \in Device : copyBar'[x] =
             IF x = d /\ e \notin removed THEN copyBar[x] \cup {e} ELSE copyBar[x]
      BY <1>0, <1>2, WriteAdds DEF OtherCopies
    <3>2. copyBar' = [x \in Device |-> copyBar'[x]]
      OBVIOUS
    <3>. QED  BY <3>1, <3>2
  <2>. QED  BY <2>1, <2>2 DEF Shared!Next, Shared!Add, Shared!sharedVars
<1>3. ASSUME NEW d \in Device, NEW e \in Entry, Remove(d, e)
      PROVE  Shared!Next
  <2>1. storeBar' = storeBar \ {e} /\ ackedBar' = ackedBar \ {e}
    <3>1. removed' = removed \cup {e} /\ acked' = acked
      BY <1>0, <1>3, RemoveTakes
    <3>2. EntriesOf(TreeOf(tip))' = EntriesOf(TreeOf(tip))
      BY <1>0, <1>3, RemoveTakes, SameTipSameRecords DEF Next
    <3>. QED  BY <3>1, <3>2
  <2>2. copyBar' = [x \in Device |-> copyBar[x] \ {e}]
    <3>1. \A x \in Device : copyBar'[x] = copyBar[x] \ {e}
      BY <1>0, <1>3, RemoveTakes DEF OtherCopies
    <3>. QED  BY <3>1
  <2>. QED  BY <2>1, <2>2 DEF Shared!Next, Shared!Withdraw
<1>4. ASSUME NEW d \in Device, DeleteLocal(d)
      PROVE  Shared!Next
  <2>1. UNCHANGED <<history, tip, removed, acked>> /\ work' = [work EXCEPT ![d] = EmptyTree]
    BY <1>4 DEF DeleteLocal, ghosts, records
  <2>2. storeBar' = storeBar /\ ackedBar' = ackedBar
    BY <2>1 DEF TreeOf, EntriesOf
  <2>3. copyBar' = [copyBar EXCEPT ![d] = {}]
    <3>1. \A x \in Device : copyBar'[x] = IF x = d THEN {} ELSE copyBar[x]
      BY <1>0, <2>1, TreesTouch DEF TypeOK
    <3>. QED  BY <3>1
  <2>. QED  BY <2>2, <2>3 DEF Shared!Next, Shared!Discard
<1>5. ASSUME NEW d \in Device, Start(d) \/ RunStep(d) \/ Interrupt(d)
      PROVE  Shared!Next \/ UNCHANGED Shared!sharedVars
  <2>1. CASE Learns(d) /\ UNCHANGED <<tip, acked>>
    <3>1. storeBar' = storeBar /\ ackedBar' = ackedBar
      BY <1>5, <2>1, GitStep, SameTipSameRecords DEF Next
    <3>2. copyBar' = [copyBar EXCEPT ![d] = copyBar'[d]]
      BY <1>5, GitStep DEF OtherCopies
    <3>3. copyBar[d] \subseteq copyBar'[d] /\ copyBar'[d] \subseteq copyBar[d] \cup storeBar
      BY <1>5, <2>1, GitStep DEF Learns
    <3>. QED  BY <3>1, <3>2, <3>3 DEF Shared!Next, Shared!Learn
  <2>2. CASE SameRecords(d) /\ UNCHANGED <<tip, acked>>
    <3>1. storeBar' = storeBar /\ ackedBar' = ackedBar
      BY <1>5, <2>2, GitStep, SameTipSameRecords DEF Next
    <3>2. copyBar' = copyBar
      BY <1>5, <2>2, GitStep DEF OtherCopies, SameRecords
    <3>. QED  BY <3>1, <3>2 DEF Shared!sharedVars
  <2>3. CASE SameRecords(d) /\ history' = history /\ Pushed(d)
    <3>1. copyBar' = copyBar
      BY <1>5, <2>3, GitStep DEF OtherCopies, SameRecords
    <3>. QED  BY <1>5, <2>3, <3>1, GitStep, PushPublishes DEF Shared!Next, Shared!Publish
  <2>. QED  BY <1>5, <2>1, <2>2, <2>3, GitStep
<1>. QED  BY <1>1, <1>2, <1>3, <1>4, <1>5 DEF Next

\* The git machinery implements the shared set of records, for every number of
\* devices, files and records, every bound on failures and interrupted runs.
THEOREM SharedRefinement == Spec => ImplementsShared
<1>1. Init => TrackedOK
  BY DEF Init, TrackedOK
<1>2. Spec => [](Durable /\ TrackedOK)
  BY <1>1, DurableInit, DurableNext, TrackedStep, PTL DEF Spec
<1>3. Durable /\ Durable' /\ TrackedOK /\ [Next]_vars => [Shared!Next]_(Shared!sharedVars)
  BY SharedStep
<1>. QED  BY <1>2, <1>3, SharedInit, PTL DEF Spec, ImplementsShared, Shared!Spec

\* Synchronizing never takes a record out of a working copy, except one that some
\* page removed: no fetch, merge, repair, flattening or cut-short run loses local data.
THEOREM LocalDataStays == Spec => LocalDataKept
<1>. DEFINE Safe(d) == DeleteLocal(d) \/ EntriesOf(work[d]) \ removed' \subseteq EntriesOf(work'[d])
<1>1. Init => TrackedOK
  BY DEF Init, TrackedOK
<1>2. ASSUME Durable, TrackedOK, [Next]_vars
      PROVE  [\A d \in Device : Safe(d)]_vars
  <2>0. TypeOK
    BY <1>2 DEF Durable
  <2>1. ASSUME NEW d \in Device, NEW e \in Entry, Write(d, e) PROVE \A x \in Device : Safe(x)
    BY <2>0, <2>1, WriteAdds DEF OtherCopies
  <2>2. ASSUME NEW d \in Device, NEW e \in Entry, Remove(d, e) PROVE \A x \in Device : Safe(x)
    BY <2>0, <2>2, RemoveTakes DEF OtherCopies
  <2>3. ASSUME NEW d \in Device, DeleteLocal(d) PROVE \A x \in Device : Safe(x)
    <3>1. \A x \in Device : x # d => work'[x] = work[x]
      BY <2>0, <2>3 DEF DeleteLocal, TypeOK
    <3>. QED  BY <2>3, <3>1
  <2>4. ASSUME NEW d \in Device, Start(d) \/ RunStep(d) \/ Interrupt(d)
        PROVE  \A x \in Device : Safe(x)
    BY <1>2, <2>4, GitStep DEF OtherCopies, Learns, SameRecords
  <2>. HIDE DEF Safe
  <2>. QED  BY <1>2, <2>1, <2>2, <2>3, <2>4 DEF Next
<1>3. Spec => [](Durable /\ TrackedOK)
  BY <1>1, DurableInit, DurableNext, TrackedStep, PTL DEF Spec
<1>. QED  BY <1>2, <1>3, PTL DEF Spec, LocalDataKept

---------------------------------------------------------------------------
(* Markers. *)

\* What a run commits while it flattens holds no markers.
Flattening(d) == phase[d] \in {"flatten", "flatten_commit"}
FlattenedClean == \A d \in Device : Flattening(d) => ~HasMarkers(work[d])

\* A tree that may be committed on ps: a file with markers is a file of some of ps.
Inherits(tree, ps) ==
  \A f \in File : Marked(tree[f]) =>
    \E p \in ps : p \in 1 .. Len(history) /\ history[p].tree[f] = tree[f]

\* A merge without conflicts puts markers into no file that has none on either side.
LEMMA CleanMergeInherits ==
  ASSUME NEW base, NEW a \in 1 .. Len(history), NEW b \in 1 .. Len(history), NEW fits,
         ~Conflicted(base, a, b, fits)
  PROVE  Inherits(MergedTree(base, a, b, fits), {a, b})
<1>. DEFINE r == MergedTree(base, a, b, fits)
<1>. SUFFICES ASSUME NEW f \in File, Marked(r[f])
              PROVE  r[f] = TreeOf(a)[f] \/ r[f] = TreeOf(b)[f]
  BY DEF Inherits, TreeOf
<1>. DEFINE x == TreeOf(base)[f]
            ours == TreeOf(a)[f]
            theirs == TreeOf(b)[f]
            fit == f \in fits
<1>1. ~Conflicts(x, ours, theirs, fit)
  BY DEF Conflicted
<1>2. r[f] = MergeText(x, ours, theirs, fit)
  BY DEF MergedTree
<1>. HIDE DEF r, x, ours, theirs, fit
<1>3. r[f] \in {ours, theirs} \/ \E s : r[f] = {s}
  BY <1>1, <1>2 DEF MergeText
<1>4. r[f] \in {ours, theirs}
  BY <1>3 DEF Marked
<1>. QED  BY <1>4 DEF ours, theirs

\* Every commit that is made is clean, or carries its markers over from a parent.
LEMMA CommitInherits ==
  ASSUME Durable, FlattenedClean, [Next]_vars
  PROVE  \/ history' = history
         \/ \E tree, ps : history' = Append(history, NewCommit(tree, ps)) /\ Inherits(tree, ps)
<1>. USE DEF localVars, loopVars, ghosts, records, budgets
<1>0. TypeOK
  BY DEF Durable
<1>1. \A tree, ps : ~HasMarkers(tree) => Inherits(tree, ps)
  BY DEF HasMarkers, Inherits
<1>2. CASE UNCHANGED vars
  BY <1>2 DEF vars
<1>3. ASSUME NEW d \in Device, NEW e \in Entry, Write(d, e) \/ Remove(d, e)
      PROVE  history' = history
  BY <1>3 DEF Write, Remove
<1>4. ASSUME NEW d \in Device,
             DeleteLocal(d) \/ Start(d) \/ FirstPush(d) \/ PushSucceeds(d) \/ PushFails(d)
               \/ Fetch(d) \/ RepackRemote(d) \/ NothingMerged(d) \/ FastForward(d) \/ Flatten(d)
               \/ Refuse(d) \/ Interrupt(d)
      PROVE  history' = history
  BY <1>4 DEF DeleteLocal, Start, StartSync, Clone, StartFirst, FirstPush, PushSucceeds, PushFails,
       Fetch, RepackRemote, FetchEnds, NothingMerged, FastForward, Flatten, Refuse, Interrupt
<1>5. ASSUME NEW d \in Device, FirstCommit(d) \/ CommitAll(d) \/ BeginSync(d) \/ Resolve(d)
      PROVE  \/ history' = history
             \/ \E tree, ps : history' = Append(history, NewCommit(tree, ps)) /\ ~HasMarkers(tree)
  BY <1>5 DEF FirstCommit, CommitAll, BeginSync, Resolve, CommitWork
<1>6. ASSUME NEW d \in Device, Merge(d)
      PROVE  \/ history' = history
             \/ \E tree, ps : history' = Append(history, NewCommit(tree, ps)) /\ Inherits(tree, ps)
  <2>1. head[d] \in 1 .. Len(history) /\ tracking[d] \in 1 .. Len(history)
    BY <1>0, <1>6 DEF Merge, Diverged, TypeOK
  <2>2. PICK base, fits :
          \/ history' = history
          \/ /\ ~Conflicted(base, head[d], tracking[d], fits)
             /\ history' = Append(history, NewCommit(MergedTree(base, head[d], tracking[d], fits),
                                                     {head[d], tracking[d]}))
    BY <1>6 DEF Merge
  <2>. QED  BY <2>1, <2>2, CleanMergeInherits
<1>7. ASSUME NEW d \in Device, FlattenCommit(d)
      PROVE  \E tree, ps : history' = Append(history, NewCommit(tree, ps)) /\ ~HasMarkers(tree)
  BY <1>7 DEF FlattenCommit, FlattenedClean, Flattening
<1>8. ASSUME NEW d \in Device, RunStep(d)
      PROVE  \/ history' = history
             \/ \E tree, ps : history' = Append(history, NewCommit(tree, ps)) /\ Inherits(tree, ps)
  <2>1. CASE FirstCommit(d) \/ CommitAll(d) \/ BeginSync(d) \/ Resolve(d)
    BY <1>1, <1>5, <2>1
  <2>2. CASE FlattenCommit(d)
    BY <1>1, <1>7, <2>2
  <2>. QED  BY <1>4, <1>6, <1>8, <2>1, <2>2 DEF RunStep
<1>. QED  BY <1>2, <1>3, <1>4, <1>8 DEF Next

\* A merge is repaired before it is flattened, and nobody writes in between.
LEMMA FlattenedCleanStep ==
  ASSUME Durable, FlattenedClean, [Next]_vars
  PROVE  FlattenedClean'
<1>. USE DEF localVars, loopVars, ghosts, records, budgets
<1>. DEFINE Still(x) == phase'[x] = phase[x] /\ work'[x] = work[x]
            Gone(x) == phase'[x] \notin {"flatten", "flatten_commit"}
<1>0. TypeOK
  BY DEF Durable
<1>. SUFFICES ASSUME NEW x \in Device
              PROVE  Still(x) \/ Gone(x) \/ ~HasMarkers(work'[x])
                       \/ (Flattening(x) /\ work'[x] = work[x])
  BY DEF FlattenedClean, Flattening, HasMarkers
<1>1. CASE UNCHANGED vars
  BY <1>1 DEF vars
<1>2. ASSUME NEW d \in Device, NEW e \in Entry, Write(d, e) \/ Remove(d, e)
      PROVE  Still(x) \/ Gone(x)
  BY <1>0, <1>2 DEF Write, Remove, BetweenCommands, TypeOK
<1>3. ASSUME NEW d \in Device, DeleteLocal(d) \/ Start(d) \/ Interrupt(d) \/ Refuse(d)
      PROVE  Still(x) \/ Gone(x)
  BY <1>0, <1>3 DEF DeleteLocal, Start, StartSync, Clone, StartFirst, Interrupt, Refuse, EndRun,
                    Goto, TypeOK
<1>4. ASSUME NEW d \in Device, FirstCommit(d) \/ CommitAll(d) \/ BeginSync(d)
      PROVE  Still(x) \/ Gone(x)
  BY <1>0, <1>4 DEF FirstCommit, CommitAll, BeginSync, CommitWork, Goto, TypeOK
<1>5. ASSUME NEW d \in Device, Resolve(d)
      PROVE  Still(x) \/ ~HasMarkers(work'[x])
  BY <1>0, <1>5 DEF Resolve, CommitWork, Goto, TypeOK
<1>6. ASSUME NEW d \in Device, Flatten(d)
      PROVE  Still(x) \/ (Flattening(x) /\ work'[x] = work[x])
  BY <1>0, <1>6 DEF Flatten, Flattening, Goto, TypeOK
<1>7. ASSUME NEW d \in Device,
             FirstPush(d) \/ PushSucceeds(d) \/ PushFails(d) \/ Fetch(d) \/ RepackRemote(d)
               \/ NothingMerged(d) \/ FlattenCommit(d)
      PROVE  Still(x) \/ Gone(x)
  BY <1>0, <1>7 DEF FirstPush, PushSucceeds, PushFails, TryAgain, Fetch, RepackRemote, FetchEnds,
                    NothingMerged, FlattenCommit, EndRun, Goto, TypeOK
<1>8. ASSUME NEW d \in Device, FastForward(d) \/ Merge(d)
      PROVE  Still(x) \/ Gone(x)
  BY <1>0, <1>8 DEF FastForward, Merge, Goto, TypeOK
<1>. QED  BY <1>1, <1>2, <1>3, <1>4, <1>5, <1>6, <1>7, <1>8 DEF Next, RunStep

\* MarkersOnlyInherited, with parents that are commits of the history.
MarkersTraced ==
  \A c \in 1 .. Len(history) : \A f \in File :
    Marked(history[c].tree[f]) =>
      \/ history[c].parents = {}
      \/ \E p \in history[c].parents :
           p \in 1 .. Len(history) /\ history[p].tree[f] = history[c].tree[f]

\* A commit that is made does not change what older commits inherit.
LEMMA MarkersTracedStep ==
  ASSUME Durable, FlattenedClean, MarkersTraced, [Next]_vars
  PROVE  MarkersTraced'
<1>0. history \in Seq(Commit)
  BY DEF Durable, TypeOK
<1>1. CASE history' = history
  BY <1>1 DEF MarkersTraced
<1>2. ASSUME NEW tree, NEW ps, history' = Append(history, NewCommit(tree, ps)), Inherits(tree, ps)
      PROVE  MarkersTraced'
  <2>1. /\ Len(history') = Len(history) + 1 /\ Len(history) \in Nat
        /\ \A c \in 1 .. Len(history) : history'[c] = history[c]
        /\ history'[Len(history) + 1] = NewCommit(tree, ps)
    BY <1>0, <1>2
  <2>2. NewCommit(tree, ps).tree = tree /\ NewCommit(tree, ps).parents = ps
    BY DEF NewCommit
  <2>3. ASSUME NEW f \in File, Marked(tree[f])
        PROVE  \E p \in ps : p \in 1 .. Len(history) /\ history'[p].tree[f] = tree[f]
    BY <1>2, <2>1, <2>3 DEF Inherits
  <2>4. ASSUME NEW c \in 1 .. Len(history), NEW f \in File, Marked(history'[c].tree[f])
        PROVE  \/ history'[c].parents = {}
               \/ \E p \in history'[c].parents :
                    p \in 1 .. Len(history) /\ history'[p].tree[f] = history'[c].tree[f]
    BY <2>1, <2>4 DEF MarkersTraced
  <2>5. 1 .. Len(history') = (1 .. Len(history)) \cup {Len(history) + 1}
    BY <2>1
  <2>. QED  BY <2>1, <2>2, <2>3, <2>4, <2>5 DEF MarkersTraced
<1>. QED  BY <1>1, <1>2, CommitInherits

\* "A marker must never reach a commit": on every device and along every history, a
\* commit with conflict markers is the damaged one of an older client, or carries a
\* file with markers over from a parent unchanged.
THEOREM MarkersNeverCommitted == Spec => []MarkersOnlyInherited
<1>1. Init => FlattenedClean /\ MarkersTraced
  <2>. SUFFICES ASSUME Init PROVE FlattenedClean /\ MarkersTraced
    OBVIOUS
  <2>1. FlattenedClean
    BY DEF Init, FlattenedClean, Flattening
  <2>2. \A c \in 1 .. Len(history) : history[c].parents = {}
    BY DEF Init
  <2>. QED  BY <2>1, <2>2 DEF MarkersTraced
<1>2. Spec => [](Durable /\ FlattenedClean /\ MarkersTraced)
  BY <1>1, DurableInit, DurableNext, FlattenedCleanStep, MarkersTracedStep, PTL DEF Spec
<1>3. MarkersTraced => MarkersOnlyInherited
  BY DEF MarkersTraced, MarkersOnlyInherited
<1>. QED  BY <1>2, <1>3, PTL

---------------------------------------------------------------------------
(* Linear pushes. *)

\* A merge that git committed by itself, or whose run was cut short.
Accounted(c) == history[c].parents \in unflattened

\* What a device has committed and not pushed holds no other merge commit than those,
\* and the one that the run at work is about to flatten.
LinearHead(d) ==
  \A c \in PastOf(head[d]) \ PastOf(tip) :
    IsMerge(c) => Accounted(c) \/ (phase[d] = "flatten" /\ c = head[d])

\* A merge in progress is with an ancestor of the tip; if no run is resolving it, it
\* waits for a file that cannot be repaired, or a run was cut short in it.
MergeLeft(d) ==
  merging[d] # 0 =>
    /\ merging[d] \in PastOf(tip)
    /\ \/ phase[d] = "resolve"
       \/ \E f \in File \ JsonFile : Marked(work[d][f])
       \/ {head[d], merging[d]} \ {0} \in unflattened

Linear == \A d \in Device : LinearHead(d) /\ MergeLeft(d)

\* What is accounted for stays so.
LEMMA UnflattenedGrows ==
  ASSUME [Next]_vars
  PROVE  unflattened \subseteq unflattened'
<1>. USE DEF localVars, loopVars, ghosts, records, budgets
<1>1. CASE UNCHANGED vars
  BY <1>1 DEF vars
<1>2. ASSUME NEW d \in Device, NEW e \in Entry, Write(d, e) \/ Remove(d, e)
      PROVE  unflattened \subseteq unflattened'
  BY <1>2 DEF Write, Remove
<1>3. ASSUME NEW d \in Device, DeleteLocal(d) \/ Start(d)
      PROVE  unflattened \subseteq unflattened'
  BY <1>3 DEF DeleteLocal, Start, StartSync, StartFirst, Clone
<1>4. ASSUME NEW d \in Device, RunStep(d)
      PROVE  unflattened \subseteq unflattened'
  BY <1>4 DEF RunStep, FirstCommit, FirstPush, CommitAll, BeginSync, Fetch, RepackRemote,
     FetchEnds, NothingMerged, FastForward, Merge, Resolve, Flatten, FlattenCommit,
     PushSucceeds, PushFails, Refuse
<1>5. ASSUME NEW d \in Device, Interrupt(d)
      PROVE  unflattened \subseteq unflattened'
  BY <1>5 DEF Interrupt
<1>. QED  BY <1>1, <1>2, <1>3, <1>4, <1>5 DEF Next

\* commitAll refuses a file with markers that is not JSON.
LEMMA StuckRefuses ==
  ASSUME NEW d \in Device, CommitWork(d)
  PROVE  \A f \in File \ JsonFile : ~Marked(work[d][f])
BY DEF CommitWork, HasMarkers, Repaired, RepairedIn

\* Files that a repair leaves alone keep their markers.
LEMMA RepairLeavesOthers ==
  ASSUME TypeOK, NEW d \in Device, NEW fs \in SUBSET JsonFile,
         work' = [work EXCEPT ![d] = RepairedIn(@, fs)]
  PROVE  \A f \in File \ JsonFile : work'[d][f] = work[d][f]
BY DEF TypeOK, RepairedIn

\* A page writes only into files without markers.
LEMMA PageLeavesMarked ==
  ASSUME TypeOK, NEW d \in Device, NEW e \in Entry, Write(d, e) \/ Remove(d, e),
         NEW x \in Device
  PROVE  /\ \A f \in File : Marked(work[x][f]) => work'[x][f] = work[x][f]
         /\ UNCHANGED <<history, tip, head, merging, phase>>
<1>1. \E s : work' = [work EXCEPT ![d][FileOf[e]] = s]
  BY DEF Write, Remove
<1>2. ~Marked(work[d][FileOf[e]])
  BY DEF Write, Remove
<1>3. \A f \in File : f # FileOf[e] \/ x # d => work'[x][f] = work[x][f]
  BY <1>1 DEF TypeOK, Tree
<1>. QED  BY <1>2, <1>3 DEF Write, Remove

\* The commits of the old history, seen from the new one.
LEMMA OldCommits ==
  ASSUME Durable, [Next]_vars, NEW n \in 0 .. Len(history)
  PROVE  /\ PastOf(n)' = PastOf(n)
         /\ \A c \in PastOf(n) : /\ c \in 1 .. Len(history)
                                 /\ IsMerge(c)' <=> IsMerge(c)
                                 /\ Accounted(c) => Accounted(c)'
<1>1. TypeOK /\ HistoryOK /\ Grown
  BY StepGrows DEF Durable
<1>2. PastOf(n)' = PastOf(n)
  BY <1>1 DEF TypeOK, Grown, PastOf
<1>3. \A c \in PastOf(n) : c \in 1 .. Len(history)
  BY <1>1, DescendantKeeps
<1>4. ASSUME NEW c \in PastOf(n)
      PROVE  (IsMerge(c)' <=> IsMerge(c)) /\ (Accounted(c) => Accounted(c)')
  BY <1>1, <1>3, UnflattenedGrows DEF Grown, IsMerge, Accounted
<1>. QED  BY <1>2, <1>3, <1>4

\* What holds of a head while it stays, and once it is an ancestor of the tip.
LEMMA SameHeadLinear ==
  ASSUME Durable, [Next]_vars, NEW d \in Device, LinearHead(d), head'[d] = head[d],
         phase[d] = "flatten" => \/ phase'[d] = "flatten"
                                 \/ head[d] # 0 => history[head[d]].parents \in unflattened'
  PROVE  LinearHead(d)'
<1>1. PastOf(tip) \subseteq PastOf(tip)'
  BY TipAdvances
<1>2. head[d] \in 0 .. Len(history) /\ TypeOK
  BY DEF Durable, TypeOK
<1>3. PastOf(head[d])' = PastOf(head[d])
  BY <1>2, OldCommits DEF PastOf
<1>4. ASSUME NEW c \in PastOf(head[d]) \ PastOf(tip), IsMerge(c)'
      PROVE  Accounted(c)' \/ (phase'[d] = "flatten" /\ c = head'[d])
  <2>1. IsMerge(c) /\ (Accounted(c) => Accounted(c)')
    BY <1>2, <1>4, OldCommits
  <2>2. CASE phase[d] = "flatten" /\ c = head[d] /\ phase'[d] # "flatten"
    <3>1. c \in 1 .. Len(history)
      BY <1>2, OldCommits
    <3>2. history'[c] = history[c]
      BY <1>2, <3>1, StepGrows DEF Grown
    <3>. QED  BY <2>2, <3>1, <3>2 DEF Accounted
  <2>. QED  BY <2>1, <2>2 DEF LinearHead
<1>. QED  BY <1>1, <1>3, <1>4 DEF LinearHead

\* A head that is moved to the tip, to an ancestor of it or to nothing is pushed.
LEMMA StoredHeadLinear ==
  ASSUME Durable, [Next]_vars, NEW d \in Device,
         head'[d] = 0 \/ head'[d] = tip \/ head'[d] \in PastOf(tip)
  PROVE  LinearHead(d)'
<1>0. TypeOK /\ HistoryOK /\ tip \in 0 .. Len(history)
  BY DEF Durable, TypeOK
<1>1. PastOf(tip) \subseteq PastOf(tip)'
  BY TipAdvances
<1>2. head'[d] \in 0 .. Len(history) /\ PastOf(head'[d]) \subseteq PastOf(tip)
  <2>1. CASE head'[d] = 0 \/ head'[d] = tip
    BY <1>0, <2>1 DEF PastOf
  <2>2. CASE head'[d] \in PastOf(tip)
    BY <1>0, <2>2 DEF PastOf, HistoryOK
  <2>. QED  BY <2>1, <2>2
<1>3. \A n \in 0 .. Len(history) : PastOf(n)' = PastOf(n)
  BY OldCommits
<1>4. PastOf(head[d])' = PastOf(head'[d])
  <2>1. head'[d] # 0 => history'[head'[d]] = history[head'[d]]
    BY <1>0, <1>2, StepGrows DEF Grown
  <2>. QED  BY <2>1 DEF PastOf
<1>. QED  BY <1>1, <1>2, <1>4 DEF LinearHead

\* A commit on top of HEAD alone, or of HEAD and an ancestor of the tip.
LEMMA CommitLinear ==
  ASSUME Durable, [Next]_vars, NEW d \in Device, LinearHead(d), phase[d] # "flatten",
         NEW tree, NEW m \in 0 .. Len(history),
         history' = Append(history, NewCommit(tree, {head[d], m} \ {0})),
         head'[d] = Len(history) + 1,
         m # 0 => /\ m \in PastOf(tip)
                  /\ {head[d], m} \ {0} \in unflattened' \/ phase'[d] = "flatten"
  PROVE  LinearHead(d)'
<1>0. /\ TypeOK /\ HistoryOK /\ history \in Seq(Commit) /\ Len(history) \in Nat
      /\ head[d] \in 0 .. Len(history) /\ tip \in 0 .. Len(history)
  BY DEF Durable, TypeOK
<1>6. PICK new : new = Len(history) + 1
  OBVIOUS
<1>1. history'[new] = NewCommit(tree, {head[d], m} \ {0})
  BY <1>0, <1>6
<1>2. PastOf(head[d])' = {new} \cup PastOf(head[d]) \cup PastOf(m)
  <2>1. UNION {history[p].past : p \in {head[d], m} \ {0}} = PastOf(head[d]) \cup PastOf(m)
    BY DEF PastOf
  <2>. QED  BY <1>0, <1>6, <1>1, <2>1 DEF PastOf, NewCommit
<1>3. IsMerge(new)' => Accounted(new)' \/ phase'[d] = "flatten"
  <2>1. history'[new].parents = {head[d], m} \ {0}
    <3>1. NewCommit(tree, {head[d], m} \ {0}).parents = {head[d], m} \ {0}
      BY DEF NewCommit
    <3>. QED  BY <1>1, <3>1
  <2>2. CASE m = 0
    BY <2>1, <2>2 DEF IsMerge
  <2>3. CASE m # 0
    BY <2>1, <2>3 DEF Accounted
  <2>. QED  BY <2>2, <2>3
<1>4. ASSUME NEW c \in PastOf(head[d]) \ PastOf(tip), IsMerge(c)' PROVE Accounted(c)'
  BY <1>0, <1>4, OldCommits DEF LinearHead
<1>5. PastOf(tip) \subseteq PastOf(tip)'
  BY TipAdvances
<1>7. PastOf(m) \subseteq PastOf(tip)
  <2>1. CASE m = 0
    BY <2>1 DEF PastOf
  <2>2. CASE m # 0
    BY <1>0, <2>2 DEF PastOf, HistoryOK
  <2>. QED  BY <2>1, <2>2
<1>8. ASSUME NEW c \in PastOf(head[d])' \ PastOf(tip)', IsMerge(c)'
      PROVE  Accounted(c)' \/ (phase'[d] = "flatten" /\ c = head'[d])
  <2>1. CASE c = new
    BY <1>3, <1>6, <1>8, <2>1
  <2>2. CASE c \in PastOf(head[d]) \ PastOf(tip)
    BY <1>4, <1>8, <2>2
  <2>. QED  BY <1>2, <1>5, <1>7, <1>8, <2>1, <2>2
<1>. QED  BY <1>8 DEF LinearHead

\* commitAll makes a merge commit while a run resolves a merge, or of one that was cut
\* short.
LEMMA CommitWorkLinear ==
  ASSUME Durable, [Next]_vars, NEW d \in Device, Linear, phase[d] # "flatten",
         phase[d] = "resolve" => phase'[d] = "flatten", CommitWork(d)
  PROVE  LinearHead(d)' /\ merging'[d] = 0
<1>0. TypeOK /\ LinearHead(d) /\ MergeLeft(d)
  BY DEF Durable, Linear
<1>1. merging[d] # 0 => /\ merging[d] \in PastOf(tip)
                        /\ \/ {head[d], merging[d]} \ {0} \in unflattened'
                           \/ phase'[d] = "flatten"
  BY <1>0, StuckRefuses, UnflattenedGrows DEF MergeLeft
<1>3. merging'[d] = 0
  BY <1>0 DEF CommitWork, TypeOK
<1>4. CASE UNCHANGED <<history, head, merging>>
  BY <1>0, <1>3, <1>4, SameHeadLinear
<1>5. CASE /\ history' = Append(history, NewCommit(Repaired(work[d]), {head[d], merging[d]} \ {0}))
           /\ head' = [head EXCEPT ![d] = Len(history) + 1]
  <2>1. head'[d] = Len(history) + 1 /\ merging[d] \in 0 .. Len(history)
    BY <1>0, <1>5 DEF TypeOK
  <2>2. LinearHead(d)'
    BY <1>0, <1>1, <1>5, <2>1, CommitLinear
  <2>. QED  BY <1>3, <2>2
<1>6. \/ UNCHANGED <<history, head, merging>>
      \/ /\ history' = Append(history, NewCommit(Repaired(work[d]), {head[d], merging[d]} \ {0}))
         /\ head' = [head EXCEPT ![d] = Len(history) + 1]
  BY DEF CommitWork
<1>. QED  BY <1>3, <1>4, <1>5, <1>6

\* A merge that is left as it is stays accounted for.
LEMMA SameMergeLeft ==
  ASSUME Durable, [Next]_vars, NEW x \in Device, MergeLeft(x), head'[x] = head[x],
         merging'[x] = merging[x],
         phase[x] = "resolve" => \/ phase'[x] = "resolve"
                                 \/ \E f \in File \ JsonFile : Marked(work'[x][f])
                                 \/ {head[x], merging[x]} \ {0} \in unflattened',
         \A f \in File \ JsonFile : Marked(work[x][f]) => work'[x][f] = work[x][f]
  PROVE  MergeLeft(x)'
BY TipAdvances, UnflattenedGrows DEF MergeLeft

\* What another device does leaves them accounted for.
LEMMA OthersLinear ==
  ASSUME Durable, [Next]_vars, NEW x \in Device, LinearHead(x), MergeLeft(x),
         head'[x] = head[x], work'[x] = work[x], merging'[x] = merging[x], phase'[x] = phase[x]
  PROVE  LinearHead(x)' /\ MergeLeft(x)'
<1>1. LinearHead(x)'
  BY SameHeadLinear
<1>2. MergeLeft(x)'
  BY SameMergeLeft
<1>. QED  BY <1>1, <1>2

\* A step of another device touches neither HEAD nor the files of x.
LEMMA StepOfAnother ==
  ASSUME TypeOK, NEW d \in Device, NEW x \in Device, x # d,
         DeleteLocal(d) \/ Start(d) \/ RunStep(d) \/ Interrupt(d)
  PROVE  /\ head'[x] = head[x] /\ work'[x] = work[x]
         /\ merging'[x] = merging[x] /\ phase'[x] = phase[x]
<1>. USE DEF localVars, loopVars, ghosts, records, budgets, Goto
<1>1. CASE DeleteLocal(d) \/ Start(d)
  BY <1>1 DEF DeleteLocal, Start, StartSync, StartFirst, Clone, TypeOK
<1>2. CASE FirstCommit(d) \/ CommitAll(d) \/ BeginSync(d) \/ Resolve(d)
  BY <1>2 DEF FirstCommit, CommitAll, BeginSync, Resolve, CommitWork, TypeOK
<1>3. CASE FirstPush(d) \/ PushSucceeds(d) \/ PushFails(d) \/ Fetch(d) \/ RepackRemote(d)
             \/ NothingMerged(d)
  BY <1>3 DEF FirstPush, PushSucceeds, PushFails, TryAgain, EndRun, Fetch,
              RepackRemote, FetchEnds, NothingMerged, TypeOK
<1>4. CASE FastForward(d) \/ Merge(d) \/ Flatten(d) \/ FlattenCommit(d)
  BY <1>4 DEF FastForward, Merge, Flatten, FlattenCommit, TypeOK
<1>5. CASE Refuse(d) \/ Interrupt(d)
  BY <1>5 DEF Refuse, Interrupt, EndRun, TypeOK
<1>. QED  BY <1>1, <1>2, <1>3, <1>4, <1>5 DEF RunStep

\* Every step keeps what is accounted for.
LEMMA LinearStep ==
  ASSUME Durable, TrackedOK, Linear, [Next]_vars
  PROVE  Linear'
<1>. USE DEF localVars, loopVars, ghosts, records, budgets, Goto
<1>0. TypeOK /\ \A x \in Device : LinearHead(x) /\ MergeLeft(x) /\ CopyOK(x) /\ RunOK(x)
  BY DEF Durable, Linear
<1>1. CASE UNCHANGED vars
  <2>. SUFFICES ASSUME NEW x \in Device PROVE LinearHead(x)' /\ MergeLeft(x)'
    BY DEF Linear
  <2>. QED  BY <1>0, <1>1, OthersLinear DEF vars
<1>2. ASSUME NEW d \in Device, NEW e \in Entry, Write(d, e) \/ Remove(d, e)
      PROVE  Linear'
  <2>. SUFFICES ASSUME NEW x \in Device PROVE LinearHead(x)' /\ MergeLeft(x)'
    BY DEF Linear
  <2>1. UNCHANGED <<head, phase, merging>>
        /\ \A f \in File : Marked(work[x][f]) => work'[x][f] = work[x][f]
    BY <1>0, <1>2, PageLeavesMarked
  <2>2. LinearHead(x)'
    BY <1>0, <2>1, SameHeadLinear
  <2>3. MergeLeft(x)'
    BY <1>0, <2>1, SameMergeLeft
  <2>. QED  BY <2>2, <2>3
<1>3. ASSUME NEW d \in Device, NEW x \in Device, x # d,
             DeleteLocal(d) \/ Start(d) \/ RunStep(d) \/ Interrupt(d)
      PROVE  LinearHead(x)' /\ MergeLeft(x)'
  <2>1. /\ head'[x] = head[x] /\ work'[x] = work[x]
        /\ merging'[x] = merging[x] /\ phase'[x] = phase[x]
    BY <1>0, <1>3, StepOfAnother
  <2>. QED  BY <1>0, <2>1, OthersLinear
<1>4. ASSUME NEW d \in Device, DeleteLocal(d) \/ Start(d)
      PROVE  LinearHead(d)' /\ MergeLeft(d)'
  <2>1. CASE DeleteLocal(d)
    <3>1. head'[d] = 0 /\ merging'[d] = 0
      BY <1>0, <2>1 DEF DeleteLocal, TypeOK
    <3>. QED  BY <3>1, StoredHeadLinear DEF MergeLeft
  <2>2. CASE StartSync(d) \/ StartFirst(d)
    <3>1. UNCHANGED <<head, merging, work>> /\ phase[d] = "idle"
      BY <2>2 DEF StartSync, StartFirst
    <3>2. LinearHead(d)'
      BY <1>0, <3>1, SameHeadLinear
    <3>3. MergeLeft(d)'
      BY <1>0, <3>1, SameMergeLeft
    <3>. QED  BY <3>2, <3>3
  <2>3. CASE Clone(d)
    <3>1. (head'[d] = tip \/ head'[d] = head[d]) /\ merging' = merging /\ phase[d] = "idle"
      BY <1>0, <2>3 DEF Clone, TypeOK
    <3>2. merging[d] = 0
      BY <1>0, <2>3 DEF CopyOK, Clone
    <3>. QED  BY <1>0, <3>1, <3>2, SameHeadLinear, StoredHeadLinear DEF MergeLeft
  <2>. QED  BY <1>4, <2>1, <2>2, <2>3 DEF Start
<1>5. ASSUME NEW d \in Device, RunStep(d)
      PROVE  LinearHead(d)' /\ MergeLeft(d)'
  <2>1. CASE \/ FirstCommit(d) \/ CommitAll(d) \/ (BeginSync(d) /\ CommitWork(d))
             \/ Resolve(d)
    <3>1. /\ CommitWork(d) /\ phase[d] # "flatten"
          /\ phase[d] = "resolve" => phase'[d] = "flatten"
      BY <1>0, <2>1 DEF FirstCommit, CommitAll, BeginSync, Resolve, TypeOK
    <3>2. LinearHead(d)' /\ merging'[d] = 0
      BY <3>1, CommitWorkLinear
    <3>. QED  BY <3>2 DEF MergeLeft
  <2>2. CASE BeginSync(d) /\ UNCHANGED <<history, work, head, merging>>
    <3>1. phase[d] = "sync" /\ merging[d] = 0
      BY <1>0, <2>2 DEF BeginSync, CopyOK
    <3>. QED  BY <1>0, <2>2, <3>1, SameHeadLinear DEF MergeLeft
  <2>3. CASE FirstPush(d) \/ PushSucceeds(d) \/ PushFails(d) \/ Fetch(d) \/ RepackRemote(d)
               \/ NothingMerged(d)
    <3>1. /\ UNCHANGED <<head, merging>>
          /\ phase[d] \in {"first_push", "push", "fetch", "merge"}
      BY <2>3 DEF FirstPush, PushSucceeds, PushFails, Fetch, RepackRemote, FetchEnds, NothingMerged
    <3>2. merging[d] = 0
      BY <1>0, <3>1 DEF CopyOK
    <3>. QED  BY <1>0, <3>1, <3>2, SameHeadLinear DEF MergeLeft
  <2>4. CASE FastForward(d) \/ Flatten(d)
    <3>1. head'[d] = tracking[d] /\ merging' = merging /\ phase[d] \in {"merge", "flatten"}
      BY <1>0, <2>4 DEF FastForward, Flatten, TypeOK
    <3>2. merging[d] = 0
      BY <1>0, <3>1 DEF CopyOK
    <3>. QED  BY <3>1, <3>2, StoredHeadLinear DEF TrackedOK, MergeLeft
  <2>5. CASE Merge(d)
    <3>0. /\ phase[d] = "merge" /\ head[d] # 0 /\ tracking[d] # 0
          /\ tracking[d] \in 0 .. Len(history)
      BY <1>0, <2>5 DEF Merge, Diverged, TypeOK
    <3>1. tracking[d] \in PastOf(tip)
      BY <3>0 DEF TrackedOK
    <3>2. merging[d] = 0
      BY <1>0, <3>0 DEF CopyOK
    <3>3. \/ /\ merging' = [merging EXCEPT ![d] = tracking[d]]
             /\ phase' = [phase EXCEPT ![d] = "resolve"]
             /\ UNCHANGED <<history, head>>
          \/ \E t :
               /\ history' = Append(history, NewCommit(t, {head[d], tracking[d]}))
               /\ head' = [head EXCEPT ![d] = Len(history) + 1]
               /\ unflattened' = unflattened \cup {{head[d], tracking[d]}}
               /\ UNCHANGED merging
      BY <2>5 DEF Merge
    <3>4. CASE /\ merging' = [merging EXCEPT ![d] = tracking[d]]
               /\ phase' = [phase EXCEPT ![d] = "resolve"]
               /\ UNCHANGED <<history, head>>
      <4>1. LinearHead(d)'
        BY <1>0, <3>0, <3>4, SameHeadLinear
      <4>2. merging'[d] = tracking[d] /\ phase'[d] = "resolve"
        BY <1>0, <3>4 DEF TypeOK
      <4>3. MergeLeft(d)'
        BY <3>1, <4>2, TipAdvances DEF MergeLeft
      <4>. QED  BY <4>1, <4>3
    <3>5. ASSUME NEW t,
                 history' = Append(history, NewCommit(t, {head[d], tracking[d]})),
                 head' = [head EXCEPT ![d] = Len(history) + 1],
                 unflattened' = unflattened \cup {{head[d], tracking[d]}},
                 UNCHANGED merging
          PROVE  LinearHead(d)' /\ MergeLeft(d)'
      <4>1. {head[d], tracking[d]} \ {0} = {head[d], tracking[d]}
        BY <3>0
      <4>2. head'[d] = Len(history) + 1
        BY <1>0, <3>5 DEF TypeOK
      <4>3. LinearHead(d)'
        BY <1>0, <3>0, <3>1, <3>5, <4>1, <4>2, CommitLinear
      <4>. QED  BY <3>2, <3>5, <4>3 DEF MergeLeft
    <3>. QED  BY <3>3, <3>4, <3>5
  <2>7. CASE FlattenCommit(d)
    <3>1. head'[d] = Len(history) + 1 /\ merging' = merging /\ phase[d] = "flatten_commit"
          /\ history' = Append(history, NewCommit(work[d], {head[d]} \ {0}))
      BY <1>0, <2>7 DEF FlattenCommit, TypeOK
    <3>2. merging[d] = 0
      BY <1>0, <3>1 DEF CopyOK
    <3>3. {head[d], 0} \ {0} = {head[d]} \ {0} /\ 0 \in 0 .. Len(history)
      BY <1>0 DEF TypeOK
    <3>4. LinearHead(d)'
      BY <1>0, <3>1, <3>3, CommitLinear
    <3>. QED  BY <3>1, <3>2, <3>4 DEF MergeLeft
  <2>8. CASE Refuse(d)
    <3>1. PICK fs \in SUBSET JsonFile : work' = [work EXCEPT ![d] = RepairedIn(@, fs)]
      BY <2>8 DEF Refuse
    <3>2. head' = head /\ merging' = merging /\ phase[d] \in Committing
      BY <2>8 DEF Refuse
    <3>3. \E f \in File \ JsonFile : Marked(work[d][f])
      <4>1. \A text : ~Marked(Merged(text))
        BY DEF Marked, Merged
      <4>. QED  BY <2>8, <4>1 DEF Refuse, HasMarkers, Repaired, RepairedIn
    <3>4. \A f \in File \ JsonFile : work'[d][f] = work[d][f]
      BY <1>0, <3>1, RepairLeavesOthers
    <3>5. LinearHead(d)'
      BY <1>0, <3>2, SameHeadLinear DEF Committing
    <3>6. MergeLeft(d)'
      BY <1>0, <3>2, <3>3, <3>4, SameMergeLeft
    <3>. QED  BY <3>5, <3>6
  <2>9. BeginSync(d) => CommitWork(d) \/ UNCHANGED <<history, work, head, merging>>
    BY DEF BeginSync
  <2>. QED  BY <1>5, <2>1, <2>2, <2>3, <2>4, <2>5, <2>7, <2>8, <2>9 DEF RunStep
<1>6. ASSUME NEW d \in Device, Interrupt(d)
      PROVE  LinearHead(d)' /\ MergeLeft(d)'
  <2>1. PICK fs \in SUBSET JsonFile : work' = [work EXCEPT ![d] = RepairedIn(@, fs)]
    BY <1>6 DEF Interrupt
  <2>2. head' = head /\ merging' = merging /\ unflattened' = unflattened \cup MergeAtHand(d)
    BY <1>6 DEF Interrupt
  <2>3. \A f \in File \ JsonFile : work'[d][f] = work[d][f]
    BY <1>0, <2>1, RepairLeavesOthers
  <2>4. phase[d] = "flatten" => (head[d] # 0 => history[head[d]].parents \in unflattened')
    BY <2>2 DEF MergeAtHand
  <2>5. phase[d] = "resolve" => {head[d], merging[d]} \ {0} \in unflattened'
    BY <2>2 DEF MergeAtHand
  <2>6. LinearHead(d)'
    BY <1>0, <2>2, <2>4, SameHeadLinear
  <2>7. MergeLeft(d)'
    BY <1>0, <2>2, <2>3, <2>5, SameMergeLeft
  <2>. QED  BY <2>6, <2>7
<1>7. ASSUME NEW d \in Device, DeleteLocal(d) \/ Start(d) \/ RunStep(d) \/ Interrupt(d)
      PROVE  Linear'
  <2>1. \A x \in Device : LinearHead(x)' /\ MergeLeft(x)'
    BY <1>3, <1>4, <1>5, <1>6, <1>7
  <2>. QED  BY <2>1 DEF Linear
<1>. QED  BY <1>1, <1>2, <1>7 DEF Next

\* "flattenOntoRemote keeps every push linear" (wasmgitworker.js 302-303): however many
\* devices push, are refused, merge and push again, the only merge commits that a push
\* adds to the store are those git committed by itself (line 394 sees neither a conflict
\* nor MERGE_HEAD) and those of a run cut short between its merge and the reset.
THEOREM PushesStayLinear == Spec => PushesAreLinear
<1>1. Init => TrackedOK /\ Linear
  BY DEF Init, TrackedOK, Linear, LinearHead, MergeLeft, PastOf
<1>2. Spec => [](Durable /\ TrackedOK /\ Linear)
  BY <1>1, DurableInit, DurableNext, TrackedStep, LinearStep, PTL DEF Spec
<1>3. ASSUME Durable, Linear, [Next]_vars
      PROVE  [\A c \in NewlyPushed : IsMerge(c)' => history'[c].parents \in unflattened]_tip
  <2>. SUFFICES ASSUME tip' # tip
                PROVE  \A c \in NewlyPushed : IsMerge(c)' => history'[c].parents \in unflattened
    OBVIOUS
  <2>1. PICK d \in Device : (\E e \in Entry : Write(d, e) \/ Remove(d, e)) \/ DeleteLocal(d)
                               \/ Start(d) \/ RunStep(d) \/ Interrupt(d)
    BY <1>3 DEF Next, vars
  <2>2. /\ phase[d] \in {"first_push", "push"}
        /\ tip' = head[d] /\ history' = history
    <3>1. \A e \in Entry : ~Write(d, e) /\ ~Remove(d, e)
      BY DEF Write, Remove
    <3>2. ~DeleteLocal(d)
      BY DEF DeleteLocal
    <3>3. ~(Start(d) \/ Interrupt(d)) /\ (FirstPush(d) \/ PushSucceeds(d) \/ PushFails(d))
      BY <2>1, <3>1, <3>2 DEF Start, StartSync, StartFirst, Clone, Interrupt, RunStep, FirstCommit,
         CommitAll, BeginSync, Fetch, RepackRemote, FetchEnds, NothingMerged, FastForward, Merge,
         Resolve, Flatten, FlattenCommit, Refuse
    <3>. QED  BY <3>3 DEF FirstPush, PushSucceeds, PushFails, StoreTakes
  <2>3. PastOf(tip)' = PastOf(head[d])
    BY <2>2 DEF PastOf
  <2>4. ASSUME NEW c \in PastOf(head[d]) \ PastOf(tip), IsMerge(c)'
        PROVE  history'[c].parents \in unflattened
    <3>1. IsMerge(c)
      BY <2>2, <2>4 DEF IsMerge
    <3>. QED  BY <1>3, <2>2, <2>4, <3>1 DEF Linear, LinearHead, Accounted
  <2>5. NewlyPushed = PastOf(head[d]) \ PastOf(tip)
    BY <2>3 DEF NewlyPushed
  <2>. QED  BY <2>4, <2>5
<1>. QED  BY <1>2, <1>3, PTL DEF Spec, PushesAreLinear
=============================================================================

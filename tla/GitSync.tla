------------------------------ MODULE GitSync ------------------------------
(***************************************************************************)
(* The synchronization of one account's data repository between the        *)
(* devices (browsers) that hold a working copy of it and the encrypted     *)
(* store: storage/wasmgitworker.js, driven by synchronize() of             *)
(* storage/storage-page.component.js through storage/gitstorage.js.        *)
(*                                                                         *)
(* One step is one git command of the worker, or one worker command where  *)
(* the code issues several git commands that only the worker can observe.  *)
(* Other steps of the same device (a page writing a file) and of the other *)
(* devices come in between, exactly where the worker's command queue and   *)
(* the network let them.                                                   *)
(*                                                                         *)
(* Abstraction.  A record of a JSON file (a price day, a transaction) is   *)
(* an Entry.  The text of a file is the set of versions written in it: one *)
(* version (a set of entries), or both sides of a conflict when libgit2    *)
(* has left <<<<<<< markers in it.  A commit is a tree, its parents and    *)
(* the set of commits reachable from it; commits are never changed, so     *)
(* they are numbered in the order they were made.                          *)
(***************************************************************************)
EXTENDS Naturals, Sequences, FiniteSets

CONSTANTS
  Device,           \* the browsers that work on this account's repository
  File,             \* the paths of the repository
  JsonFile,         \* those jsonmerge.js can merge: both sides parse as JSON
  Entry,            \* the records that get written
  FileOf,           \* the file each record belongs to
  Removable,        \* bound: the records a page may take out again
  Discarder,        \* bound: the devices whose user may delete the local data
  SeedTree,         \* the tree of the commit an older client left in the store
  MaxAttempts,      \* MAX_SYNC_ATTEMPTS
  CleanMergeStops,  \* what wasm-git may do with a merge without conflicts:
                    \* TRUE, leave it to be committed; FALSE, commit it
  MaxInterrupts,    \* bound: runs cut short (page closed, a command that throws)
  MaxFailures       \* bound: network failures

VARIABLES
  history,      \* every commit made, in order
  tip,          \* refs/heads/master in the store; 0 while the store is empty
  duplicated,   \* the store's packs carry some object twice
  repo,         \* repo[d]: d has a .git
  work,         \* work[d]: the working tree
  head,         \* head[d]: the commit HEAD is at, 0 while unborn
  merging,      \* merging[d]: MERGE_HEAD, 0 when no merge is in progress
  tracking,     \* tracking[d]: origin/master, 0 when there is no such ref
  phase,        \* phase[d]: where d's run of synchronize() stands
  attempt,      \* attempt[d]: the loop counter of syncWithRemote
  fetchFailed,  \* fetchFailed[d]: fetchErrors of this attempt is not empty
  interrupts,   \* how many runs were cut short
  failures,     \* how many network failures occurred
  written,      \* the entries ever written (each is written once)
  removed,      \* the entries some page has removed from its file
  promised,     \* promised[d]: what d's commit_all had when this run began
  acked,        \* what the runs that ended well had promised
  unflattened   \* the parents of the merges that no run goes on to flatten

localVars == <<repo, work, head, merging, tracking>>
loopVars == <<attempt, fetchFailed>>
records == <<written, removed, promised, acked>>
ghosts == <<records, unflattened>>
budgets == <<interrupts, failures>>
vars == <<history, tip, duplicated, localVars, phase, loopVars, budgets, ghosts>>

Phase == {"idle", "commit_all", "sync", "fetch", "merge", "resolve", "flatten",
          "flatten_commit", "push", "first_commit", "first_push"}

Text == (SUBSET (SUBSET Entry)) \ {{}}
Tree == [File -> Text]
Commit == [tree : Tree, parents : SUBSET Nat, past : SUBSET Nat]

ASSUME ConstantsAssumption ==
  /\ JsonFile \subseteq File
  /\ FileOf \in [Entry -> File]
  /\ SeedTree \in Tree
  /\ Removable \subseteq Entry
  /\ Discarder \subseteq Device
  /\ MaxAttempts \in Nat \ {0}
  /\ CleanMergeStops \subseteq BOOLEAN
  /\ MaxInterrupts \in Nat
  /\ MaxFailures \in Nat

---------------------------------------------------------------------------
(* Files, trees and commits. *)

EmptyTree == [f \in File |-> {{}}]

\* bytesHaveMarker: the text holds two sides.
Marked(text) == \E v, w \in text : v # w

\* Every record a tree holds, on either side of a conflict.
EntriesOf(tree) == UNION {UNION tree[f] : f \in File}

\* Variant for the mutation checks: one side of a conflict wins.
MergedOneSided(text) == {CHOOSE v \in text : TRUE}

\* repairConflictedText: the JSON union of the two sides.
Merged(text) == {UNION text}

\* The files of fs repaired, the others as they are.
RepairedIn(tree, fs) ==
  [f \in File |-> IF f \in fs /\ Marked(tree[f]) THEN Merged(tree[f]) ELSE tree[f]]

\* Variant for the mutation checks: nothing is repaired.
RepairedNever(tree) == tree

Repaired(tree) == RepairedIn(tree, JsonFile)

HasMarkers(tree) == \E f \in File : Marked(tree[f])

TreeOf(c) == IF c = 0 THEN EmptyTree ELSE history[c].tree
PastOf(c) == IF c = 0 THEN {} ELSE history[c].past

NewCommit(tree, parents) ==
  [tree    |-> tree,
   parents |-> parents,
   past    |-> {Len(history) + 1} \cup UNION {history[p].past : p \in parents}]

\* git's textual three-way merge of one file, `fits` telling whether the two
\* sides touch different lines: if they do not, both sides go in, with markers.
Conflicts(base, ours, theirs, fits) ==
  /\ ours # theirs /\ base # theirs /\ base # ours
  /\ ~fits \/ Marked(ours) \/ Marked(theirs)

MergeText(base, ours, theirs, fits) ==
  IF ours = theirs \/ base = theirs THEN ours
  ELSE IF base = ours THEN theirs
  ELSE IF Conflicts(base, ours, theirs, fits) THEN ours \cup theirs
  ELSE {((UNION ours) \cap (UNION theirs)) \cup ((UNION ours) \ (UNION base))
           \cup ((UNION theirs) \ (UNION base))}

\* The best common ancestors; 0 for two histories that share none.
MergeBases(a, b) ==
  LET common == PastOf(a) \cap PastOf(b)
  IN IF common = {} THEN {0}
     ELSE {c \in common : \A x \in common : c \in PastOf(x) => x = c}

MergedTree(base, ours, theirs, fits) ==
  [f \in File |-> MergeText(TreeOf(base)[f], TreeOf(ours)[f], TreeOf(theirs)[f], f \in fits)]

Conflicted(base, ours, theirs, fits) ==
  \E f \in File :
    Conflicts(TreeOf(base)[f], TreeOf(ours)[f], TreeOf(theirs)[f], f \in fits)

Dirty(d) == {f \in File : work[d][f] # TreeOf(head[d])[f]}

\* libgit2 refuses a merge or a checkout that would overwrite uncommitted edits.
Overwrites(d, tree) == \E f \in Dirty(d) : tree[f] # TreeOf(head[d])[f]

\* Variant for the mutation checks: checkout --force.
CheckedOutForced(d, tree) == tree

CheckedOut(d, tree) == [f \in File |-> IF f \in Dirty(d) THEN work[d][f] ELSE tree[f]]

---------------------------------------------------------------------------
(* The initial state: no device has a copy yet; the store is empty, or holds *)
(* the commit an older client pushed, which may contain conflict markers.    *)

Init ==
  /\ tip \in {0, 1}
  /\ history = IF tip = 0 THEN <<>>
               ELSE <<[tree |-> SeedTree, parents |-> {}, past |-> {1}]>>
  /\ duplicated = FALSE
  /\ repo = [d \in Device |-> FALSE]
  /\ work = [d \in Device |-> EmptyTree]
  /\ head = [d \in Device |-> 0]
  /\ merging = [d \in Device |-> 0]
  /\ tracking = [d \in Device |-> 0]
  /\ phase = [d \in Device |-> "idle"]
  /\ attempt = [d \in Device |-> 0]
  /\ fetchFailed = [d \in Device |-> FALSE]
  /\ interrupts = 0
  /\ failures = 0
  /\ written = EntriesOf(SeedTree)
  /\ removed = {}
  /\ promised = [d \in Device |-> {}]
  /\ acked = {}
  /\ unflattened = {}

Goto(d, p) == phase' = [phase EXCEPT ![d] = p]

\* The run is over: what the page and the worker kept for it is gone.
EndRun(d) ==
  /\ attempt' = [attempt EXCEPT ![d] = 0]
  /\ fetchFailed' = [fetchFailed EXCEPT ![d] = FALSE]
  /\ promised' = [promised EXCEPT ![d] = {}]
  /\ Goto(d, "idle")

NetworkFails ==
  /\ failures < MaxFailures
  /\ failures' = failures + 1
  /\ UNCHANGED interrupts

---------------------------------------------------------------------------
(* The pages.  A page's writeFile is a command of its own: it is served      *)
(* between the commands of synchronize(), never in the middle of one.        *)

BetweenCommands(d) == phase[d] \in {"idle", "commit_all", "sync", "first_commit", "first_push"}

\* A page adds a record to its file.  It has read the file first, which it
\* cannot do while the file is not JSON.
Write(d, e) ==
  LET f == FileOf[e] IN
  /\ BetweenCommands(d)
  /\ e \notin written
  /\ ~Marked(work[d][f])
  /\ work' = [work EXCEPT ![d][f] = {(UNION @) \cup {e}}]
  /\ written' = written \cup {e}
  /\ UNCHANGED <<history, tip, duplicated, repo, head, merging, tracking, phase,
                 loopVars, budgets, removed, promised, acked, unflattened>>

\* A page takes a record out of its file (an account, an exclusion, a rate).
Remove(d, e) ==
  LET f == FileOf[e] IN
  /\ BetweenCommands(d)
  /\ ~Marked(work[d][f])
  /\ e \in Removable \cap UNION work[d][f]
  /\ work' = [work EXCEPT ![d][f] = {(UNION @) \ {e}}]
  /\ removed' = removed \cup {e}
  /\ UNCHANGED <<history, tip, duplicated, repo, head, merging, tracking, phase,
                 loopVars, budgets, written, promised, acked, unflattened>>

\* The "delete local data" button: removeRepo takes the working tree and .git.
DeleteLocal(d) ==
  /\ d \in Discarder
  /\ phase[d] = "idle"
  /\ repo[d] \/ work[d] # EmptyTree
  /\ repo' = [repo EXCEPT ![d] = FALSE]
  /\ work' = [work EXCEPT ![d] = EmptyTree]
  /\ head' = [head EXCEPT ![d] = 0]
  /\ merging' = [merging EXCEPT ![d] = 0]
  /\ tracking' = [tracking EXCEPT ![d] = 0]
  /\ UNCHANGED <<history, tip, duplicated, phase, loopVars, budgets, ghosts>>

---------------------------------------------------------------------------
(* commitAll: repair what can be repaired, refuse to commit the rest, then    *)
(* stage everything and commit if that changes anything or ends a merge.      *)

\* Variants for the mutation checks: no repair and no last line of defence; a
\* pending merge that stages nothing is not committed.
CommitWorkMarked(d) ==
  \/ /\ work[d] = TreeOf(head[d]) /\ merging[d] = 0
     /\ UNCHANGED <<history, work, head, merging>>
  \/ /\ work[d] # TreeOf(head[d]) \/ merging[d] # 0
     /\ history' = Append(history, NewCommit(work[d], {head[d], merging[d]} \ {0}))
     /\ head' = [head EXCEPT ![d] = Len(history) + 1]
     /\ merging' = [merging EXCEPT ![d] = 0]
     /\ UNCHANGED work

CommitWorkStagedOnly(d) ==
  LET w == Repaired(work[d]) IN
  /\ ~HasMarkers(w)
  /\ work' = [work EXCEPT ![d] = w]
  /\ \/ w = TreeOf(head[d]) /\ UNCHANGED <<history, head, merging>>
     \/ /\ w # TreeOf(head[d])
        /\ history' = Append(history, NewCommit(w, {head[d], merging[d]} \ {0}))
        /\ head' = [head EXCEPT ![d] = Len(history) + 1]
        /\ merging' = [merging EXCEPT ![d] = 0]

CommitWork(d) ==
  LET w == Repaired(work[d]) IN
  /\ ~HasMarkers(w)
  /\ work' = [work EXCEPT ![d] = w]
  /\ \/ /\ w = TreeOf(head[d]) /\ merging[d] = 0
        /\ UNCHANGED <<history, head, merging>>
     \/ /\ w # TreeOf(head[d]) \/ merging[d] # 0
        /\ history' = Append(history, NewCommit(w, {head[d], merging[d]} \ {0}))
        /\ head' = [head EXCEPT ![d] = Len(history) + 1]
        /\ merging' = [merging EXCEPT ![d] = 0]

Committing == {"commit_all", "first_commit", "sync", "resolve"}

\* The throw of repairMarkedFiles or of commitAll: some file cannot be merged as
\* JSON.  The files repaired before that one stay repaired.
Refuse(d) ==
  /\ phase[d] \in Committing
  /\ HasMarkers(Repaired(work[d]))
  /\ \E fs \in SUBSET JsonFile : work' = [work EXCEPT ![d] = RepairedIn(@, fs)]
  /\ EndRun(d)
  /\ UNCHANGED <<history, tip, duplicated, repo, head, merging, tracking, budgets,
                 written, removed, acked, unflattened>>

---------------------------------------------------------------------------
(* The store. *)

\* Variant for the mutation checks: a push --force.
AcceptsAnyPush(c) == c # 0

\* Its compare-and-set: only a descendant of the tip replaces the tip.
Accepts(c) == c # 0 /\ (tip = 0 \/ tip \in PastOf(c))

IsMerge(c) == \E p, q \in history[c].parents : p # q

\* A push that carries a merge commit may leave an object in two packs.
StoreTakes(c) ==
  /\ tip' = c
  /\ \/ UNCHANGED duplicated
     \/ (\E x \in PastOf(c) \ PastOf(tip) : IsMerge(x)) /\ duplicated' = TRUE

---------------------------------------------------------------------------
(* synchronize() *)

\* A device with a .git: set_remote removes origin (and with it origin/master).
StartSync(d) ==
  /\ phase[d] = "idle"
  /\ repo[d]
  /\ tracking' = [tracking EXCEPT ![d] = 0]
  /\ Goto(d, "commit_all")
  /\ UNCHANGED <<history, tip, duplicated, repo, work, head, merging, loopVars,
                 budgets, ghosts>>

\* No .git and nothing in the directory: git_clone.  A clone that fails (no
\* network, a pack that cannot be indexed) leaves nothing and is not reported.
Clone(d) ==
  /\ phase[d] = "idle"
  /\ ~repo[d]
  /\ work[d] = EmptyTree
  /\ \/ /\ ~duplicated
        /\ repo' = [repo EXCEPT ![d] = TRUE]
        /\ work' = [work EXCEPT ![d] = TreeOf(tip)]
        /\ head' = [head EXCEPT ![d] = tip]
        /\ tracking' = [tracking EXCEPT ![d] = tip]
        /\ UNCHANGED merging
     \/ UNCHANGED localVars
  /\ UNCHANGED <<history, tip, duplicated, phase, loopVars, budgets, ghosts>>

\* No .git but files the pages have written: git_init, set_remote.
StartFirst(d) ==
  /\ phase[d] = "idle"
  /\ ~repo[d]
  /\ work[d] # EmptyTree
  /\ repo' = [repo EXCEPT ![d] = TRUE]
  /\ Goto(d, "first_commit")
  /\ UNCHANGED <<history, tip, duplicated, work, head, merging, tracking, loopVars,
                 budgets, ghosts>>

\* commit_all before the first push.
FirstCommit(d) ==
  /\ phase[d] = "first_commit"
  /\ CommitWork(d)
  /\ Goto(d, "first_push")
  /\ UNCHANGED <<tip, duplicated, repo, tracking, loopVars, budgets, ghosts>>

\* The first push ignores what git answers: it ends well in every case.
FirstPush(d) ==
  /\ phase[d] = "first_push"
  /\ \/ Accepts(head[d]) /\ StoreTakes(head[d]) /\ UNCHANGED budgets
     \/ ~Accepts(head[d]) /\ UNCHANGED <<tip, duplicated, budgets>>
     \/ NetworkFails /\ UNCHANGED <<tip, duplicated>>
  /\ Goto(d, "idle")
  /\ UNCHANGED <<history, localVars, loopVars, ghosts>>

\* commit_all before a sync.
CommitAll(d) ==
  /\ phase[d] = "commit_all"
  /\ CommitWork(d)
  /\ promised' = [promised EXCEPT ![d] = EntriesOf(Repaired(work[d]))]
  /\ Goto(d, "sync")
  /\ UNCHANGED <<tip, duplicated, repo, tracking, loopVars, budgets, written,
                 removed, acked, unflattened>>

\* syncWithRemote up to its loop: heal the damage a commit brought in.
BeginSync(d) ==
  /\ phase[d] = "sync"
  /\ \/ HasMarkers(work[d]) /\ CommitWork(d)
     \/ ~HasMarkers(work[d]) /\ UNCHANGED <<history, work, head, merging>>
  /\ attempt' = [attempt EXCEPT ![d] = 1]
  /\ Goto(d, "fetch")
  /\ UNCHANGED <<tip, duplicated, repo, tracking, fetchFailed, budgets, ghosts>>

FetchEnds(d, failed) ==
  /\ fetchFailed' = [fetchFailed EXCEPT ![d] = failed]
  /\ Goto(d, "merge")
  /\ UNCHANGED <<history, tip, repo, work, head, merging, attempt, ghosts>>

\* git fetch, and what follows when the pack cannot be indexed.
Fetch(d) ==
  /\ phase[d] = "fetch"
  /\ \/ /\ ~duplicated \/ tip \in PastOf(head[d])
        /\ tracking' = [tracking EXCEPT ![d] = tip]
        /\ FetchEnds(d, FALSE)
        /\ UNCHANGED <<duplicated, budgets>>
     \/ /\ NetworkFails
        /\ FetchEnds(d, TRUE)
        /\ UNCHANGED <<duplicated, tracking>>
     \/ /\ duplicated /\ tip \notin PastOf(head[d])
        /\ FetchEnds(d, TRUE)
        /\ UNCHANGED <<duplicated, tracking, budgets>>

\* A device at the tip whose object store is incomplete meets the duplicate and
\* rebuilds the store's packs: push to the repack URL, set_remote, fetch again.
RepackRemote(d) ==
  /\ phase[d] = "fetch"
  /\ duplicated
  /\ tip = head[d]
  /\ duplicated' = FALSE
  /\ \/ /\ tracking' = [tracking EXCEPT ![d] = tip]
        /\ FetchEnds(d, FALSE)
        /\ UNCHANGED budgets
     \/ /\ tracking' = [tracking EXCEPT ![d] = 0]
        /\ NetworkFails
        /\ FetchEnds(d, TRUE)

\* git merge origin/master with nothing to do, or refused: no such ref, already
\* up to date, or uncommitted edits in the way.
NothingMerged(d) ==
  /\ phase[d] = "merge"
  /\ \/ tracking[d] = 0
     \/ tracking[d] \in PastOf(head[d])
     \/ \E base \in MergeBases(head[d], tracking[d]), fits \in SUBSET File :
          Overwrites(d, MergedTree(base, head[d], tracking[d], fits))
  /\ Goto(d, "push")
  /\ UNCHANGED <<history, tip, duplicated, localVars, loopVars, budgets, ghosts>>

FastForward(d) ==
  LET t == TreeOf(tracking[d]) IN
  /\ phase[d] = "merge"
  /\ tracking[d] # 0
  /\ head[d] \in {0} \cup (PastOf(tracking[d]) \ {tracking[d]})
  /\ ~Overwrites(d, t)
  /\ work' = [work EXCEPT ![d] = CheckedOut(d, t)]
  /\ head' = [head EXCEPT ![d] = tracking[d]]
  /\ Goto(d, "push")
  /\ UNCHANGED <<history, tip, duplicated, repo, merging, tracking, loopVars,
                 budgets, ghosts>>

Diverged(d) ==
  /\ head[d] # 0 /\ tracking[d] # 0
  /\ tracking[d] \notin PastOf(head[d])
  /\ head[d] \notin PastOf(tracking[d])

\* The merge of two diverged branches.  With conflicts it stays uncommitted, with
\* the markers in the files; without, wasm-git leaves it or commits it, and then
\* neither a conflict nor MERGE_HEAD tells the worker that there was a merge.
Merge(d) ==
  /\ phase[d] = "merge"
  /\ Diverged(d)
  /\ \E base \in MergeBases(head[d], tracking[d]), fits \in SUBSET File :
       LET r == MergedTree(base, head[d], tracking[d], fits)
           clean == ~Conflicted(base, head[d], tracking[d], fits)
       IN /\ ~Overwrites(d, r)
          /\ work' = [work EXCEPT ![d] = CheckedOut(d, r)]
          /\ \/ /\ clean => TRUE \in CleanMergeStops
                /\ merging' = [merging EXCEPT ![d] = tracking[d]]
                /\ Goto(d, "resolve")
                /\ UNCHANGED <<history, head, unflattened>>
             \/ /\ clean /\ FALSE \in CleanMergeStops
                /\ history' = Append(history, NewCommit(r, {head[d], tracking[d]}))
                /\ head' = [head EXCEPT ![d] = Len(history) + 1]
                /\ unflattened' = unflattened \cup {{head[d], tracking[d]}}
                /\ Goto(d, "push")
                /\ UNCHANGED merging
  /\ UNCHANGED <<tip, duplicated, repo, tracking, loopVars, budgets, records>>

\* Variant for the mutation checks: the merge commit is pushed as it is.
ResolveUnflattened(d) ==
  /\ phase[d] = "resolve"
  /\ CommitWork(d)
  /\ Goto(d, "push")
  /\ UNCHANGED <<tip, duplicated, repo, tracking, loopVars, budgets, ghosts>>

\* commitAll on the unfinished merge.
Resolve(d) ==
  /\ phase[d] = "resolve"
  /\ CommitWork(d)
  /\ Goto(d, "flatten")
  /\ UNCHANGED <<tip, duplicated, repo, tracking, loopVars, budgets, ghosts>>

\* flattenOntoRemote: reset --soft origin/master, then look at what is staged.
Flatten(d) ==
  /\ phase[d] = "flatten"
  /\ head' = [head EXCEPT ![d] = tracking[d]]
  /\ \/ work[d] = TreeOf(tracking[d]) /\ Goto(d, "push")
     \/ work[d] # TreeOf(tracking[d]) /\ Goto(d, "flatten_commit")
  /\ UNCHANGED <<history, tip, duplicated, repo, work, merging, tracking, loopVars,
                 budgets, ghosts>>

\* The one commit on top of the remote.
FlattenCommit(d) ==
  /\ phase[d] = "flatten_commit"
  /\ history' = Append(history, NewCommit(work[d], {head[d]} \ {0}))
  /\ head' = [head EXCEPT ![d] = Len(history) + 1]
  /\ Goto(d, "push")
  /\ UNCHANGED <<tip, duplicated, repo, work, merging, tracking, loopVars, budgets,
                 ghosts>>

\* A push that went through ends the run.
PushSucceeds(d) ==
  /\ phase[d] = "push"
  /\ Accepts(head[d])
  /\ StoreTakes(head[d])
  /\ acked' = acked \cup promised[d]
  /\ EndRun(d)
  /\ UNCHANGED <<history, localVars, budgets, written, removed, unflattened>>

TryAgainForever(d) ==
  \/ ~fetchFailed[d] /\ Goto(d, "fetch") /\ UNCHANGED <<loopVars, promised>>
  \/ fetchFailed[d] /\ EndRun(d)

\* A push that did not: the next attempt, or the error that ends the run.
TryAgain(d) ==
  \/ /\ ~fetchFailed[d] /\ attempt[d] < MaxAttempts
     /\ attempt' = [attempt EXCEPT ![d] = @ + 1]
     /\ Goto(d, "fetch")
     /\ UNCHANGED <<fetchFailed, promised>>
  \/ /\ fetchFailed[d] \/ attempt[d] = MaxAttempts
     /\ EndRun(d)

PushFails(d) ==
  /\ phase[d] = "push"
  /\ \/ ~Accepts(head[d]) /\ UNCHANGED <<tip, duplicated, budgets>>
     \/ NetworkFails /\ UNCHANGED <<tip, duplicated>>
     \/ Accepts(head[d]) /\ StoreTakes(head[d]) /\ NetworkFails  \* the answer is lost
  /\ TryAgain(d)
  /\ UNCHANGED <<history, localVars, written, removed, acked, unflattened>>

\* The merge that d has begun and not flattened, by its parents: what it merges while
\* it is to be committed, what it committed until the reset of flattenOntoRemote.
MergeAtHand(d) ==
  CASE phase[d] = "resolve" -> {{head[d], merging[d]} \ {0}}
    [] phase[d] = "flatten" /\ head[d] # 0 -> {history[head[d]].parents}
    [] OTHER -> {}

\* The page is closed, or a git command throws: what is in OPFS stays, the run is
\* gone, and with it what was to be flattened.  During commitAll some files may
\* already be repaired.
Interrupt(d) ==
  /\ phase[d] # "idle"
  /\ interrupts < MaxInterrupts
  /\ interrupts' = interrupts + 1
  /\ \E fs \in SUBSET JsonFile :
       /\ fs # {} => phase[d] \in Committing
       /\ work' = [work EXCEPT ![d] = RepairedIn(@, fs)]
  /\ unflattened' = unflattened \cup MergeAtHand(d)
  /\ EndRun(d)
  /\ UNCHANGED <<history, tip, duplicated, repo, head, merging, tracking, failures,
                 written, removed, acked>>

---------------------------------------------------------------------------
\* What the event loop carries on by itself once Synchronize was pressed.
RunStep(d) ==
  \/ FirstCommit(d) \/ FirstPush(d)
  \/ CommitAll(d) \/ BeginSync(d) \/ Fetch(d) \/ RepackRemote(d)
  \/ NothingMerged(d) \/ FastForward(d) \/ Merge(d)
  \/ Resolve(d) \/ Flatten(d) \/ FlattenCommit(d)
  \/ PushSucceeds(d) \/ PushFails(d) \/ Refuse(d)

\* Pressing Synchronize.
Start(d) == StartSync(d) \/ Clone(d) \/ StartFirst(d)

Next ==
  \E d \in Device :
    \/ \E e \in Entry : Write(d, e) \/ Remove(d, e)
    \/ DeleteLocal(d)
    \/ Start(d)
    \/ RunStep(d)
    \/ Interrupt(d)

Spec == Init /\ [][Next]_vars

\* With the event loop running: a run that was started is carried on.
RunFairness == \A d \in Device : WF_vars(RunStep(d))

\* Moreover the user of each device presses Synchronize again and again.
SyncFairness == RunFairness /\ \A d \in Device : WF_vars(Start(d))

LiveSpec == Spec /\ RunFairness
EagerSpec == Spec /\ SyncFairness

---------------------------------------------------------------------------
(* Properties. *)

TypeOK ==
  /\ history \in Seq(Commit)
  /\ tip \in 0 .. Len(history)
  /\ duplicated \in BOOLEAN
  /\ repo \in [Device -> BOOLEAN]
  /\ work \in [Device -> Tree]
  /\ head \in [Device -> 0 .. Len(history)]
  /\ merging \in [Device -> 0 .. Len(history)]
  /\ tracking \in [Device -> 0 .. Len(history)]
  /\ phase \in [Device -> Phase]
  /\ attempt \in [Device -> 0 .. MaxAttempts]
  /\ fetchFailed \in [Device -> BOOLEAN]
  /\ interrupts \in 0 .. MaxInterrupts
  /\ failures \in 0 .. MaxFailures
  /\ written \subseteq Entry
  /\ removed \subseteq Entry
  /\ promised \in [Device -> SUBSET Entry]
  /\ acked \subseteq Entry
  /\ unflattened \subseteq SUBSET Nat

\* Durability of what a successful sync promised (syncWithRemote returning at
\* 411-414): every record that was in the working tree when the run committed is
\* in the store's tip from then on, whatever other devices merge and push later,
\* unless some page removed that record.
AckedIsStored == acked \ removed \subseteq EntriesOf(TreeOf(tip))

\* "A marker must never reach a commit" (commitAll, line 209): the only commits
\* with conflict markers are the damaged one of an older client and those that
\* carry a file of one of their parents over unchanged.
MarkersOnlyInherited ==
  \A c \in 1 .. Len(history) : \A f \in File :
    Marked(history[c].tree[f]) =>
      \/ history[c].parents = {}
      \/ \E p \in history[c].parents : history[p].tree[f] = history[c].tree[f]

\* An unfinished merge is finished before the worker merges again, or libgit2
\* refuses every later merge ("repository is in unexpected state", lines 214-217).
MergeFinishedFirst ==
  \A d \in Device : merging[d] # 0 =>
    phase[d] \in {"idle", "commit_all", "resolve"}

\* Synchronizing never takes a record out of a working tree: fetch, merge, repair,
\* flatten and a run cut short anywhere keep everything the device had, except
\* what somebody removed.  Only "delete local data" empties the copy.
LocalDataKept ==
  [][\A d \in Device :
       DeleteLocal(d) \/ EntriesOf(work[d]) \ removed' \subseteq EntriesOf(work'[d])]_vars

\* What a push adds to the store's history.
NewlyPushed == PastOf(tip)' \ PastOf(tip)

\* "flattenOntoRemote keeps every push linear" (lines 302-303), for as long as the run
\* that merged goes on to flatten: a push adds no other merge commit to the store than
\* one that git committed by itself, which line 394 does not see, and one of a run that
\* was cut short after its merge, which the next run finishes, or finds, and pushes.
PushesAreLinear ==
  [][\A c \in NewlyPushed : IsMerge(c)' => history'[c].parents \in unflattened]_tip

\* "This app no longer creates the damage: flattenOntoRemote keeps every push linear"
\* (lines 302-303): no push adds a merge commit to the store.
EveryPushIsLinear == [][\A c \in NewlyPushed : ~IsMerge(c)']_tip

\* A run of synchronize() ends, by success or by an error: the attempts are bounded
\* and no step waits for another device.
RunsEnd == \A d \in Device : phase[d] # "idle" ~> phase[d] = "idle"

\* If every device keeps pressing Synchronize, then once the pages stop writing all
\* copies become and stay equal to the store, without markers.
Converged ==
  \A d \in Device : repo[d] /\ work[d] = TreeOf(tip) /\ ~HasMarkers(work[d])
Convergence == <>[]Converged

---------------------------------------------------------------------------
(* What all this promises to the pages: a set of records shared by the devices *)
(* that only ever grows, see SharedRecords.                                     *)

copyBar == [d \in Device |-> EntriesOf(work[d]) \ removed]
storeBar == EntriesOf(TreeOf(tip)) \ removed
ackedBar == acked \ removed

Shared == INSTANCE SharedRecords WITH copy <- copyBar, store <- storeBar, acked <- ackedBar

\* The git machinery implements the shared set: every step of it adds a record,
\* withdraws one, learns from the store, publishes to it, discards a copy or
\* changes none of them.
ImplementsShared == Shared!Spec
=============================================================================

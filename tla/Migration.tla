------------------------------ MODULE Migration ------------------------------
(***************************************************************************)
(* The one-time move of the repository an older build kept in IndexedDB     *)
(* into OPFS: storage/migrate-idbfs-to-opfs.js, as the git worker runs it   *)
(* before it uses the repository, and the worker's deletelocal, which       *)
(* discards both.                                                          *)
(*                                                                         *)
(* Every tab has a worker of its own over one origin's storage.  A worker   *)
(* may end at any await: the page closes, or the worker is restarted.       *)
(***************************************************************************)
EXTENDS Naturals, FiniteSets, Sequences

CONSTANTS
  Tab,      \* the tabs that are open at once
  File,     \* paths of the repository's files
  Objects   \* those of them under .git/objects

ASSUME ObjectsAssumption == Objects \subseteq File

VARIABLES
  legacy,     \* the regular files in IndexedDB
  repo,       \* repo[f] in OPFS: "absent", "empty", "legacy" or "newer"
  packDir,    \* is there a directory .git/objects/pack?
  marker,     \* the marker file in the OPFS root
  worker,     \* worker[t]: where t's worker stands
  discarded,  \* has deletelocal ever deleted anything?
  overlap,    \* has a worker used or deleted the repository while another copied?
  overwrote,  \* has legacy data replaced something newer?
  refused     \* what the browser has refused to do with IndexedDB: "open" it, "delete" it

migrationVars == <<legacy, repo, packDir, marker, worker, discarded, overlap, overwrote, refused>>

\* What it has still to copy; of a file it has begun to, that one; or the deletion it is at.
Stands(at, todo, writing, step) == [at |-> at, todo |-> todo, writing |-> writing, step |-> step]
Off == Stands("off", {}, {}, 0)
Ready == Stands("ready", {}, {}, 0)

\* deletelocal: the repository, the legacy database, the marker.
DeleteOrder == <<"repo", "legacy", "marker">>

\* Mutant: the marker goes first.
MarkerFirst == <<"repo", "marker", "legacy">>
DeletionOrder == DeleteOrder

Stand == {"off", "check", "read", "copy", "write", "mark", "load", "ready", "delete", "failed"}
Copying == {"read", "copy", "write", "mark"}
Exists(f) == repo[f] # "absent"

MigrationInit ==
  /\ legacy \in SUBSET File
  /\ repo = [f \in File |-> "absent"]
  /\ packDir = FALSE /\ marker = FALSE
  /\ worker = [t \in Tab |-> Off]
  /\ discarded = FALSE /\ overlap = FALSE /\ overwrote = FALSE
  /\ refused = {}

---------------------------------------------------------------------------
(* A worker that starts. *)

MarkerExists == marker

\* A page loads, or restarts its worker.
Start(t) ==
  /\ worker[t].at = "off"
  /\ worker' = [worker EXCEPT ![t].at = "check"]
  /\ UNCHANGED <<legacy, repo, packDir, marker, discarded, overlap, overwrote, refused>>

\* readLegacyRepo, of a repository without the marker: what is there, or nothing when the
\* database cannot be opened.
LegacyFiles == IF MarkerExists THEN {{}} ELSE {legacy, {}}
Refusals(files) == refused \cup (IF MarkerExists \/ files = legacy THEN {} ELSE {"open"})

\* needsIdbfsMigration; and migrateIdbfsToOpfs, which looks again.
Check(t) ==
  /\ worker[t].at = "check"
  /\ \E files \in LegacyFiles :
       /\ worker' = [worker EXCEPT ![t].at = IF files = {} THEN "load" ELSE "read"]
       /\ refused' = Refusals(files)
  /\ UNCHANGED <<legacy, repo, packDir, marker, discarded, overlap, overwrote>>

Read(t) ==
  /\ worker[t].at = "read"
  /\ \E files \in LegacyFiles :
       /\ worker' = [worker EXCEPT ![t] = Stands(IF files = {} THEN "load" ELSE "copy", files, {}, 0)]
       /\ refused' = Refusals(files)
  /\ UNCHANGED <<legacy, repo, packDir, marker, discarded, overlap, overwrote>>

\* getFileHandle creates an empty file if there is none; what is written replaces it when
\* the writable is closed.
CreateFile(t) ==
  /\ worker[t].at = "copy"
  /\ \E f \in worker[t].todo :
       /\ worker' = [worker EXCEPT ![t] = Stands("write", @.todo, {f}, 0)]
       /\ repo' = [repo EXCEPT ![f] = IF @ = "absent" THEN "empty" ELSE @]
  /\ UNCHANGED <<legacy, packDir, marker, discarded, overlap, overwrote, refused>>

CloseFile(t) ==
  /\ worker[t].at = "write"
  /\ \E f \in worker[t].writing :
       LET todo == worker[t].todo \ {f}
       IN /\ Exists(f)
          /\ repo' = [repo EXCEPT ![f] = "legacy"]
          /\ overwrote' = (overwrote \/ repo[f] = "newer")
          /\ worker' = [worker EXCEPT ![t] = Stands(IF todo = {} THEN "mark" ELSE "copy", todo, {}, 0)]
  /\ UNCHANGED <<legacy, packDir, marker, discarded, overlap, refused>>

\* Reading the database or writing a file fails, as when another tab has deleted the
\* repository meanwhile.  The worker never gets ready.
MigrationFails(t) ==
  /\ worker[t].at \in {"check", "read", "copy", "write", "mark", "load"}
  /\ worker' = [worker EXCEPT ![t] = Stands("failed", {}, {}, 0)]
  /\ UNCHANGED <<legacy, repo, packDir, marker, discarded, overlap, overwrote, refused>>

WriteMarker(t) ==
  /\ worker[t].at = "mark"
  /\ marker' = TRUE
  /\ worker' = [worker EXCEPT ![t].at = "load"]
  /\ UNCHANGED <<legacy, repo, packDir, discarded, overlap, overwrote, refused>>

\* Mutant: the directory for packs is as the copy left it.
PackDirAsCopied == packDir

\* The copy made only files: the directory for packs, empty in a repository that never held
\* one, is made again.
EnsureOdbPackDir == packDir \/ \E f \in Objects : Exists(f)

Load(t) ==
  /\ worker[t].at = "load"
  /\ packDir' = EnsureOdbPackDir
  /\ worker' = [worker EXCEPT ![t] = Ready]
  /\ UNCHANGED <<legacy, repo, marker, discarded, overlap, overwrote, refused>>

---------------------------------------------------------------------------
(* A worker that is ready. *)

MeetsCopying(t) == overlap \/ \E u \in Tab \ {t} : worker[u].at \in Copying

\* A commit, a fetch or a page writes a file; the first object makes its directories.
Use(t) ==
  /\ worker[t].at = "ready"
  /\ \E f \in File : repo' = [repo EXCEPT ![f] = "newer"]
  /\ packDir' = TRUE
  /\ overlap' = MeetsCopying(t)
  /\ UNCHANGED <<legacy, marker, worker, discarded, overwrote, refused>>

\* deletelocal, one await at a time.
DeleteLocal(t) ==
  /\ worker[t].at = "ready"
  /\ worker' = [worker EXCEPT ![t] = Stands("delete", {}, {}, 1)]
  /\ UNCHANGED <<legacy, repo, packDir, marker, discarded, overlap, overwrote, refused>>

\* clearLegacyIdbfs resolves as well when the browser does not delete the database, for an
\* error or a connection that blocks it; and a marker that cannot be removed is let be.
DeleteNext(t) ==
  /\ worker[t].at = "delete"
  /\ LET n == worker[t].step
         step == DeletionOrder[n]
     IN /\ repo' = IF step = "repo" THEN [f \in File |-> "absent"] ELSE repo
        /\ packDir' = (packDir /\ step # "repo")
        /\ \/ legacy' = (IF step = "legacy" THEN {} ELSE legacy) /\ UNCHANGED refused
           \/ step = "legacy" /\ legacy # {} /\ UNCHANGED legacy /\ refused' = refused \cup {"delete"}
        /\ \/ marker' = (marker /\ step # "marker")
           \/ step = "marker" /\ UNCHANGED marker
        /\ worker' = [worker EXCEPT ![t] = IF n = Len(DeletionOrder) THEN Ready ELSE Stands("delete", {}, {}, n + 1)]
  /\ discarded' = TRUE
  /\ overlap' = MeetsCopying(t)
  /\ UNCHANGED overwrote

\* A deletion that was blocked is done once the connections are closed.
DeletedLater ==
  /\ "delete" \in refused
  /\ legacy' = {}
  /\ UNCHANGED <<repo, packDir, marker, worker, discarded, overlap, overwrote, refused>>

\* The page closes or the worker is restarted, wherever it stands.
Ends(t) ==
  /\ worker[t].at # "off"
  /\ worker' = [worker EXCEPT ![t] = Off]
  /\ UNCHANGED <<legacy, repo, packDir, marker, discarded, overlap, overwrote, refused>>

MigrationNext ==
  \/ \E t \in Tab :
       \/ Start(t) \/ Check(t) \/ Read(t) \/ CreateFile(t) \/ CloseFile(t) \/ MigrationFails(t)
       \/ WriteMarker(t) \/ Load(t) \/ Use(t) \/ DeleteLocal(t) \/ DeleteNext(t) \/ Ends(t)
  \/ DeletedLater

MigrationSpec == MigrationInit /\ [][MigrationNext]_migrationVars

---------------------------------------------------------------------------
(* Properties. *)

MigrationTypeOK ==
  /\ legacy \in SUBSET File
  /\ repo \in [File -> {"absent", "empty", "legacy", "newer"}]
  /\ packDir \in BOOLEAN /\ marker \in BOOLEAN
  /\ worker \in [Tab -> [at : Stand, todo : SUBSET File, writing : SUBSET File, step : 0 .. 3]]
  /\ discarded \in BOOLEAN /\ overlap \in BOOLEAN /\ overwrote \in BOOLEAN
  /\ refused \in SUBSET {"open", "delete"}

\* However often the migration was cut short, failed or was run by two tabs at once, a worker
\* that uses the repository finds every file of the legacy one in it, whole, and a directory
\* for packs beside the objects, unless the user has deleted the local data or the browser
\* has refused to open the legacy database, which the code takes for there being none.
WholeWhenUsed ==
  \A t \in Tab : worker[t].at = "ready" /\ ~discarded /\ "open" \notin refused =>
    /\ \A f \in legacy : repo[f] \in {"legacy", "newer"}
    /\ (\E f \in Objects : Exists(f)) => packDir

\* Legacy data replaces nothing newer, and does not come back after the user has deleted it,
\* unless a worker has used or deleted the repository while another tab's still copied, or
\* the browser has refused to open or to delete the legacy database: the marker is removed
\* all the same, and the next start copies what was to be deleted.
NothingOldReturns ==
  ~overlap /\ refused = {} =>
    /\ ~overwrote
    /\ discarded => \A f \in File : repo[f] # "legacy"
=============================================================================

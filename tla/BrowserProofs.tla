---------------------------- MODULE BrowserProofs ----------------------------
(***************************************************************************)
(* Proofs about the parts of a browser session that touch none of each      *)
(* other's state, and that MCBrowser instantiates together.                 *)
(*                                                                         *)
(* Migration, for any number of tabs and files: what a worker may rely on   *)
(* once it has looked is Migrated: the marker is there, or there is nothing *)
(* to migrate.  Nothing undoes that but a refusal of the browser to open or  *)
(* delete the legacy files: deletelocal removes the marker after them.      *)
(*                                                                         *)
(* GatewayAccess, for any number of requests, fetches, accounts and tokens: *)
(* while nothing crosses a wallet dialog, the token and what the wallet has *)
(* stored are the connected account's.                                      *)
(*                                                                         *)
(* The pages: each has an inductive invariant that says how far the latest  *)
(* render, run or change has come, and that holds of it only as long as     *)
(* none other met it:                                                       *)
(*   - PageInOrder of TransactionsPage, and RowsAreOfTheChosen;              *)
(*   - ReportInOrder of YearReportPage, RowsAreOfTheReport, WishesAreKept;   *)
(*   - PortfolioInOrder of PortfolioPage, and PartsMeet.                     *)
(***************************************************************************)
EXTENDS Migration, GatewayAccess, TransactionsPage, YearReportPage, PortfolioPage,
        SequenceTheorems, FiniteSetTheorems, TLAPS

---------------------------------------------------------------------------
(* The migration of the repository. *)

Migrated == marker \/ legacy = {}
Whole(f) == repo[f] \in {"legacy", "newer"}

\* What has looked, and copies what it has read.
CopiesRead == {"copy", "write", "mark"}

\* A worker that copies still has the files of the legacy repository that are not whole.
CopyInv ==
  \A t \in Tab : worker[t].at \in CopiesRead /\ ~discarded =>
    /\ worker[t].todo \subseteq legacy
    /\ \A f \in legacy \ worker[t].todo : Whole(f)
    /\ worker[t].at = "mark" => worker[t].todo = {}

MarkerInv == marker /\ ~discarded => \A f \in legacy : Whole(f)

ReadyInv ==
  \A t \in Tab :
    /\ refused = {} /\ worker[t].at \in {"load", "ready", "delete"} => Migrated
    /\ refused = {} /\ worker[t].at = "delete" /\ worker[t].step = 3 => legacy = {}
    /\ worker[t].at = "delete" /\ worker[t].step # 1 => discarded
    /\ worker[t].at = "delete" => worker[t].step \in 1 .. 3

PackInv ==
  \A t \in Tab :
    refused = {} /\ worker[t].at = "ready" /\ ~discarded /\ (\E f \in Objects : Exists(f)) => packDir

\* The first use and the first deletion come after the migration, if the browser opens the
\* legacy database; it refuses to delete it only when asked to.
OrderInv ==
  /\ refused = {} /\ (\E f \in File : repo[f] = "newer") => Migrated
  /\ refused = {} /\ discarded => Migrated
  /\ "delete" \in refused => discarded

AloneInv ==
  ~overlap /\ refused = {} =>
    /\ ~overwrote
    /\ discarded => \A f \in File : repo[f] # "legacy"
    /\ \A t \in Tab : worker[t].at \in CopiesRead =>
         ~discarded /\ \A f \in File : repo[f] # "newer"

MigrationInv ==
  MigrationTypeOK /\ CopyInv /\ MarkerInv /\ ReadyInv /\ PackInv /\ OrderInv /\ AloneInv
---------------------------------------------------------------------------

\* deletelocal deletes the repository, the legacy files and the marker, in that order.
LEMMA DeletionSteps ==
  /\ Len(DeletionOrder) = 3
  /\ DeletionOrder[1] = "repo" /\ DeletionOrder[2] = "legacy" /\ DeletionOrder[3] = "marker"
  BY DEF DeletionOrder, DeleteOrder

\* The invariant holds when the page is opened.
LEMMA MigrationStarts == MigrationInit => MigrationInv
<1> SUFFICES ASSUME MigrationInit PROVE MigrationInv
  OBVIOUS
<1>1. \A t \in Tab : worker[t] = Off /\ Off.at = "off"
  BY DEF MigrationInit, Off, Stands
<1>2. MigrationTypeOK
  <2>1. Off \in [at : Stand, todo : SUBSET File, writing : SUBSET File, step : 0 .. 3]
    BY DEF Off, Stands, Stand
  <2>2. worker \in [Tab -> [at : Stand, todo : SUBSET File, writing : SUBSET File, step : 0 .. 3]]
    BY <2>1, Zenon DEF MigrationInit
  <2>. QED
    BY <2>2 DEF MigrationInit, MigrationTypeOK
<1>. QED
  BY <1>1, <1>2 DEF MigrationInit, MigrationInv, CopyInv, MarkerInv, ReadyInv, PackInv, OrderInv, AloneInv,
                    CopiesRead

\* Every step of a worker keeps it.
LEMMA MigrationSteps == MigrationInv /\ [MigrationNext]_migrationVars => MigrationInv'
<1> SUFFICES ASSUME MigrationInv, [MigrationNext]_migrationVars
             PROVE  MigrationInv'
  OBVIOUS
<1> USE DEF MigrationInv
<1>1. ASSUME NEW t \in Tab, Start(t) PROVE MigrationInv'
  <2>1. MigrationTypeOK'
    BY <1>1, SMT DEF Start, MigrationTypeOK, ReadyInv, Stands, Off, Ready, Stand, Exists, Whole, Migrated, CopiesRead
  <2>2. CopyInv'
    BY <1>1, SMT DEF Start, CopyInv, MigrationTypeOK, Stands, Off, Ready, Stand, Exists, Whole, Migrated, CopiesRead
  <2>3. MarkerInv'
    BY <1>1, SMT DEF Start, MarkerInv, MigrationTypeOK, CopyInv, Stands, Off, Ready, Stand, Exists, Whole, Migrated, CopiesRead
  <2>4. ReadyInv'
    BY <1>1, SMT DEF Start, ReadyInv, MigrationTypeOK, Stands, Off, Ready, Stand, Exists, Whole, Migrated, CopiesRead
  <2>5. PackInv'
    BY <1>1, SMT DEF Start, PackInv, MigrationTypeOK, CopyInv, MarkerInv, ReadyInv, Stands, Off, Ready, Stand, Exists, Whole, Migrated, CopiesRead
  <2>6. OrderInv'
    BY <1>1, SMT DEF Start, OrderInv, MigrationTypeOK, ReadyInv, Stands, Off, Ready, Stand, Exists, Whole, Migrated, CopiesRead
  <2>7. AloneInv'
    BY <1>1, SMT DEF Start, AloneInv, MigrationTypeOK, ReadyInv, OrderInv, MeetsCopying, Copying, Stands, Off, Ready, Stand, Exists, Whole, Migrated, CopiesRead
  <2>. QED
    BY <2>1, <2>2, <2>3, <2>4, <2>5, <2>6, <2>7
<1>2. ASSUME NEW t \in Tab, Check(t) PROVE MigrationInv'
  <2>1. MigrationTypeOK'
    BY <1>2, SMT DEF Check, LegacyFiles, Refusals, MigrationTypeOK, ReadyInv, Stands, Off, Ready, Stand, Exists, Whole, Migrated, CopiesRead, MarkerExists
  <2>2. CopyInv'
    BY <1>2, SMT DEF Check, LegacyFiles, Refusals, CopyInv, MigrationTypeOK, Stands, Off, Ready, Stand, Exists, Whole, Migrated, CopiesRead, MarkerExists
  <2>3. MarkerInv'
    BY <1>2, SMT DEF Check, LegacyFiles, Refusals, MarkerInv, MigrationTypeOK, CopyInv, Stands, Off, Ready, Stand, Exists, Whole, Migrated, CopiesRead, MarkerExists
  <2>4. ReadyInv'
    BY <1>2, SMT DEF Check, LegacyFiles, Refusals, ReadyInv, MigrationTypeOK, Stands, Off, Ready, Stand, Exists, Whole, Migrated, CopiesRead, MarkerExists
  <2>5. PackInv'
    BY <1>2, SMT DEF Check, LegacyFiles, Refusals, PackInv, MigrationTypeOK, CopyInv, MarkerInv, ReadyInv, Stands, Off, Ready, Stand, Exists, Whole, Migrated, CopiesRead, MarkerExists
  <2>6. OrderInv'
    BY <1>2, SMT DEF Check, LegacyFiles, Refusals, OrderInv, MigrationTypeOK, ReadyInv, Stands, Off, Ready, Stand, Exists, Whole, Migrated, CopiesRead, MarkerExists
  <2>7. AloneInv'
    BY <1>2, SMT DEF Check, LegacyFiles, Refusals, AloneInv, MigrationTypeOK, ReadyInv, OrderInv, MeetsCopying, Copying, Stands, Off, Ready, Stand, Exists, Whole, Migrated, CopiesRead, MarkerExists
  <2>. QED
    BY <2>1, <2>2, <2>3, <2>4, <2>5, <2>6, <2>7
<1>3. ASSUME NEW t \in Tab, Read(t) PROVE MigrationInv'
  <2>1. MigrationTypeOK'
    BY <1>3, SMT DEF Read, LegacyFiles, Refusals, MigrationTypeOK, ReadyInv, Stands, Off, Ready, Stand, Exists, Whole, Migrated, CopiesRead, MarkerExists
  <2>2. CopyInv'
    BY <1>3, SMT DEF Read, LegacyFiles, Refusals, CopyInv, MigrationTypeOK, Stands, Off, Ready, Stand, Exists, Whole, Migrated, CopiesRead, MarkerExists
  <2>3. MarkerInv'
    BY <1>3, SMT DEF Read, LegacyFiles, Refusals, MarkerInv, MigrationTypeOK, CopyInv, Stands, Off, Ready, Stand, Exists, Whole, Migrated, CopiesRead, MarkerExists
  <2>4. ReadyInv'
    BY <1>3, SMT DEF Read, LegacyFiles, Refusals, ReadyInv, MigrationTypeOK, Stands, Off, Ready, Stand, Exists, Whole, Migrated, CopiesRead, MarkerExists
  <2>5. PackInv'
    BY <1>3, SMT DEF Read, LegacyFiles, Refusals, PackInv, MigrationTypeOK, CopyInv, MarkerInv, ReadyInv, Stands, Off, Ready, Stand, Exists, Whole, Migrated, CopiesRead, MarkerExists
  <2>6. OrderInv'
    BY <1>3, SMT DEF Read, LegacyFiles, Refusals, OrderInv, MigrationTypeOK, ReadyInv, Stands, Off, Ready, Stand, Exists, Whole, Migrated, CopiesRead, MarkerExists
  <2>7. AloneInv'
    BY <1>3, SMT DEF Read, LegacyFiles, Refusals, AloneInv, MigrationTypeOK, ReadyInv, OrderInv, MeetsCopying, Copying, Stands, Off, Ready, Stand, Exists, Whole, Migrated, CopiesRead, MarkerExists
  <2>. QED
    BY <2>1, <2>2, <2>3, <2>4, <2>5, <2>6, <2>7
<1>4. ASSUME NEW t \in Tab, CreateFile(t) PROVE MigrationInv'
  <2>1. MigrationTypeOK'
    BY <1>4, SMT DEF CreateFile, MigrationTypeOK, ReadyInv, Stands, Off, Ready, Stand, Exists, Whole, Migrated, CopiesRead
  <2>2. CopyInv'
    BY <1>4, SMT DEF CreateFile, CopyInv, MigrationTypeOK, Stands, Off, Ready, Stand, Exists, Whole, Migrated, CopiesRead
  <2>3. MarkerInv'
    BY <1>4, SMT DEF CreateFile, MarkerInv, MigrationTypeOK, CopyInv, Stands, Off, Ready, Stand, Exists, Whole, Migrated, CopiesRead
  <2>4. ReadyInv'
    BY <1>4, SMT DEF CreateFile, ReadyInv, MigrationTypeOK, Stands, Off, Ready, Stand, Exists, Whole, Migrated, CopiesRead
  <2>5. PackInv'
    BY <1>4, SMT DEF CreateFile, PackInv, MigrationTypeOK, CopyInv, MarkerInv, ReadyInv, Stands, Off, Ready, Stand, Exists, Whole, Migrated, CopiesRead
  <2>6. OrderInv'
    BY <1>4, SMT DEF CreateFile, OrderInv, MigrationTypeOK, ReadyInv, Stands, Off, Ready, Stand, Exists, Whole, Migrated, CopiesRead
  <2>7. AloneInv'
    BY <1>4, SMT DEF CreateFile, AloneInv, MigrationTypeOK, ReadyInv, OrderInv, MeetsCopying, Copying, Stands, Off, Ready, Stand, Exists, Whole, Migrated, CopiesRead
  <2>. QED
    BY <2>1, <2>2, <2>3, <2>4, <2>5, <2>6, <2>7
<1>5. ASSUME NEW t \in Tab, CloseFile(t) PROVE MigrationInv'
  <2>1. MigrationTypeOK'
    BY <1>5, SMT DEF CloseFile, MigrationTypeOK, ReadyInv, Stands, Off, Ready, Stand, Exists, Whole, Migrated, CopiesRead
  <2>2. CopyInv'
    BY <1>5, SMT DEF CloseFile, CopyInv, MigrationTypeOK, Stands, Off, Ready, Stand, Exists, Whole, Migrated, CopiesRead
  <2>3. MarkerInv'
    BY <1>5, SMT DEF CloseFile, MarkerInv, MigrationTypeOK, CopyInv, Stands, Off, Ready, Stand, Exists, Whole, Migrated, CopiesRead
  <2>4. ReadyInv'
    BY <1>5, SMT DEF CloseFile, ReadyInv, MigrationTypeOK, Stands, Off, Ready, Stand, Exists, Whole, Migrated, CopiesRead
  <2>5. PackInv'
    BY <1>5, SMT DEF CloseFile, PackInv, MigrationTypeOK, CopyInv, MarkerInv, ReadyInv, Stands, Off, Ready, Stand, Exists, Whole, Migrated, CopiesRead
  <2>6. OrderInv'
    BY <1>5, SMT DEF CloseFile, OrderInv, MigrationTypeOK, ReadyInv, Stands, Off, Ready, Stand, Exists, Whole, Migrated, CopiesRead
  <2>7. AloneInv'
    BY <1>5, SMT DEF CloseFile, AloneInv, MigrationTypeOK, ReadyInv, OrderInv, MeetsCopying, Copying, Stands, Off, Ready, Stand, Exists, Whole, Migrated, CopiesRead
  <2>. QED
    BY <2>1, <2>2, <2>3, <2>4, <2>5, <2>6, <2>7
<1>6. ASSUME NEW t \in Tab, MigrationFails(t) PROVE MigrationInv'
  <2>1. MigrationTypeOK'
    BY <1>6, SMT DEF MigrationFails, MigrationTypeOK, ReadyInv, Stands, Off, Ready, Stand, Exists, Whole, Migrated, CopiesRead
  <2>2. CopyInv'
    BY <1>6, SMT DEF MigrationFails, CopyInv, MigrationTypeOK, Stands, Off, Ready, Stand, Exists, Whole, Migrated, CopiesRead
  <2>3. MarkerInv'
    BY <1>6, SMT DEF MigrationFails, MarkerInv, MigrationTypeOK, CopyInv, Stands, Off, Ready, Stand, Exists, Whole, Migrated, CopiesRead
  <2>4. ReadyInv'
    BY <1>6, SMT DEF MigrationFails, ReadyInv, MigrationTypeOK, Stands, Off, Ready, Stand, Exists, Whole, Migrated, CopiesRead
  <2>5. PackInv'
    BY <1>6, SMT DEF MigrationFails, PackInv, MigrationTypeOK, CopyInv, MarkerInv, ReadyInv, Stands, Off, Ready, Stand, Exists, Whole, Migrated, CopiesRead
  <2>6. OrderInv'
    BY <1>6, SMT DEF MigrationFails, OrderInv, MigrationTypeOK, ReadyInv, Stands, Off, Ready, Stand, Exists, Whole, Migrated, CopiesRead
  <2>7. AloneInv'
    BY <1>6, SMT DEF MigrationFails, AloneInv, MigrationTypeOK, ReadyInv, OrderInv, MeetsCopying, Copying, Stands, Off, Ready, Stand, Exists, Whole, Migrated, CopiesRead
  <2>. QED
    BY <2>1, <2>2, <2>3, <2>4, <2>5, <2>6, <2>7
<1>7. ASSUME NEW t \in Tab, WriteMarker(t) PROVE MigrationInv'
  <2>1. MigrationTypeOK'
    BY <1>7, SMT DEF WriteMarker, MigrationTypeOK, ReadyInv, Stands, Off, Ready, Stand, Exists, Whole, Migrated, CopiesRead
  <2>2. CopyInv'
    BY <1>7, SMT DEF WriteMarker, CopyInv, MigrationTypeOK, Stands, Off, Ready, Stand, Exists, Whole, Migrated, CopiesRead
  <2>3. MarkerInv'
    BY <1>7, SMT DEF WriteMarker, MarkerInv, MigrationTypeOK, CopyInv, Stands, Off, Ready, Stand, Exists, Whole, Migrated, CopiesRead
  <2>4. ReadyInv'
    BY <1>7, SMT DEF WriteMarker, ReadyInv, MigrationTypeOK, Stands, Off, Ready, Stand, Exists, Whole, Migrated, CopiesRead
  <2>5. PackInv'
    BY <1>7, SMT DEF WriteMarker, PackInv, MigrationTypeOK, CopyInv, MarkerInv, ReadyInv, Stands, Off, Ready, Stand, Exists, Whole, Migrated, CopiesRead
  <2>6. OrderInv'
    BY <1>7, SMT DEF WriteMarker, OrderInv, MigrationTypeOK, ReadyInv, Stands, Off, Ready, Stand, Exists, Whole, Migrated, CopiesRead
  <2>7. AloneInv'
    BY <1>7, SMT DEF WriteMarker, AloneInv, MigrationTypeOK, ReadyInv, OrderInv, MeetsCopying, Copying, Stands, Off, Ready, Stand, Exists, Whole, Migrated, CopiesRead
  <2>. QED
    BY <2>1, <2>2, <2>3, <2>4, <2>5, <2>6, <2>7
<1>8. ASSUME NEW t \in Tab, Load(t) PROVE MigrationInv'
  <2>1. MigrationTypeOK'
    BY <1>8, SMT DEF Load, MigrationTypeOK, ReadyInv, Stands, Off, Ready, Stand, Exists, Whole, Migrated, CopiesRead, EnsureOdbPackDir
  <2>2. CopyInv'
    BY <1>8, SMT DEF Load, CopyInv, MigrationTypeOK, Stands, Off, Ready, Stand, Exists, Whole, Migrated, CopiesRead, EnsureOdbPackDir
  <2>3. MarkerInv'
    BY <1>8, SMT DEF Load, MarkerInv, MigrationTypeOK, CopyInv, Stands, Off, Ready, Stand, Exists, Whole, Migrated, CopiesRead, EnsureOdbPackDir
  <2>4. ReadyInv'
    BY <1>8, SMT DEF Load, ReadyInv, MigrationTypeOK, Stands, Off, Ready, Stand, Exists, Whole, Migrated, CopiesRead, EnsureOdbPackDir
  <2>5. PackInv'
    <3>1. \A f \in Objects : Exists(f)' => packDir'
      BY <1>8 DEF Load, EnsureOdbPackDir, Exists
    <3>. QED
      BY <3>1 DEF PackInv
  <2>6. OrderInv'
    BY <1>8, SMT DEF Load, OrderInv, MigrationTypeOK, ReadyInv, Stands, Off, Ready, Stand, Exists, Whole, Migrated, CopiesRead, EnsureOdbPackDir
  <2>7. AloneInv'
    BY <1>8, SMT DEF Load, AloneInv, MigrationTypeOK, ReadyInv, OrderInv, MeetsCopying, Copying, Stands, Off, Ready, Stand, Exists, Whole, Migrated, CopiesRead, EnsureOdbPackDir
  <2>. QED
    BY <2>1, <2>2, <2>3, <2>4, <2>5, <2>6, <2>7
<1>9. ASSUME NEW t \in Tab, Use(t) PROVE MigrationInv'
  <2>1. MigrationTypeOK'
    BY <1>9 DEF Use, MeetsCopying, MigrationTypeOK, ReadyInv, Stands, Off, Ready, Stand, Exists, Whole, Migrated, CopiesRead
  <2>2. CopyInv'
    BY <1>9, SMT DEF Use, CopyInv, MigrationTypeOK, Stands, Off, Ready, Stand, Exists, Whole, Migrated, CopiesRead
  <2>3. MarkerInv'
    BY <1>9, SMT DEF Use, MarkerInv, MigrationTypeOK, CopyInv, Stands, Off, Ready, Stand, Exists, Whole, Migrated, CopiesRead
  <2>4. ReadyInv'
    BY <1>9, SMT DEF Use, ReadyInv, MigrationTypeOK, Stands, Off, Ready, Stand, Exists, Whole, Migrated, CopiesRead
  <2>5. PackInv'
    BY <1>9, SMT DEF Use, PackInv, MigrationTypeOK, CopyInv, MarkerInv, ReadyInv, Stands, Off, Ready, Stand, Exists, Whole, Migrated, CopiesRead
  <2>6. OrderInv'
    BY <1>9, SMT DEF Use, OrderInv, MigrationTypeOK, ReadyInv, Stands, Off, Ready, Stand, Exists, Whole, Migrated, CopiesRead
  <2>7. AloneInv'
    <3> SUFFICES ASSUME ~overlap', refused' = {} PROVE AloneInv'
      BY DEF AloneInv
    <3>1. ~overlap /\ refused = {} /\ \A u \in Tab \ {t} : worker[u].at \notin Copying
      BY <1>9 DEF Use, MeetsCopying
    <3>2. \A u \in Tab : worker[u].at \notin CopiesRead
      BY <1>9, <3>1 DEF Use, CopiesRead, Copying
    <3>3. discarded => \A f \in File : repo'[f] # "legacy"
      BY <1>9, <3>1 DEF Use, AloneInv, MigrationTypeOK
    <3>. QED
      BY <1>9, <3>1, <3>2, <3>3 DEF Use, AloneInv
  <2>. QED
    BY <2>1, <2>2, <2>3, <2>4, <2>5, <2>6, <2>7
<1>10. ASSUME NEW t \in Tab, DeleteLocal(t) PROVE MigrationInv'
  <2>1. MigrationTypeOK'
    BY <1>10, SMT DEF DeleteLocal, MigrationTypeOK, ReadyInv, Stands, Off, Ready, Stand, Exists, Whole, Migrated, CopiesRead
  <2>2. CopyInv'
    BY <1>10, SMT DEF DeleteLocal, CopyInv, MigrationTypeOK, Stands, Off, Ready, Stand, Exists, Whole, Migrated, CopiesRead
  <2>3. MarkerInv'
    BY <1>10, SMT DEF DeleteLocal, MarkerInv, MigrationTypeOK, CopyInv, Stands, Off, Ready, Stand, Exists, Whole, Migrated, CopiesRead
  <2>4. ReadyInv'
    BY <1>10, SMT DEF DeleteLocal, ReadyInv, MigrationTypeOK, Stands, Off, Ready, Stand, Exists, Whole, Migrated, CopiesRead
  <2>5. PackInv'
    BY <1>10, SMT DEF DeleteLocal, PackInv, MigrationTypeOK, CopyInv, MarkerInv, ReadyInv, Stands, Off, Ready, Stand, Exists, Whole, Migrated, CopiesRead
  <2>6. OrderInv'
    BY <1>10, SMT DEF DeleteLocal, OrderInv, MigrationTypeOK, ReadyInv, Stands, Off, Ready, Stand, Exists, Whole, Migrated, CopiesRead
  <2>7. AloneInv'
    BY <1>10, SMT DEF DeleteLocal, AloneInv, MigrationTypeOK, ReadyInv, OrderInv, MeetsCopying, Copying, Stands, Off, Ready, Stand, Exists, Whole, Migrated, CopiesRead
  <2>. QED
    BY <2>1, <2>2, <2>3, <2>4, <2>5, <2>6, <2>7
<1>11. ASSUME NEW t \in Tab, DeleteNext(t) PROVE MigrationInv'
  <2>0. /\ worker[t].at = "delete" /\ worker[t].step \in 1 .. 3 /\ discarded' = TRUE
        /\ worker' = [worker EXCEPT ![t] = IF worker[t].step = 3 THEN Ready
                                          ELSE Stands("delete", {}, {}, worker[t].step + 1)]
    BY <1>11, DeletionSteps DEF DeleteNext, ReadyInv
  <2>10. /\ repo' \in {repo, [f \in File |-> "absent"]}
         /\ legacy' \in {legacy, {}} /\ marker' \in {marker, FALSE} /\ packDir' \in {packDir, FALSE}
         /\ refused' \in {refused, refused \cup {"delete"}}
         /\ refused' = {} /\ worker[t].step # 2 => refused = {} /\ legacy' = legacy
         /\ refused' = {} /\ worker[t].step = 2 => refused = {} /\ legacy' = {}
         /\ worker[t].step # 3 => marker' = marker
    <3>0. marker \in BOOLEAN /\ packDir \in BOOLEAN
      BY DEF MigrationTypeOK
    <3>1. CASE worker[t].step = 1
      BY <1>11, <3>0, <3>1, DeletionSteps DEF DeleteNext
    <3>2. CASE worker[t].step = 2
      BY <1>11, <3>0, <3>2, DeletionSteps DEF DeleteNext
    <3>3. CASE worker[t].step = 3
      BY <1>11, <3>0, <3>3, DeletionSteps DEF DeleteNext
    <3>4. worker[t].step = 1 \/ worker[t].step = 2 \/ worker[t].step = 3
      BY <2>0
    <3>. QED
      BY <3>1, <3>2, <3>3, <3>4, Zenon
  <2>1. MigrationTypeOK'
    <3>1. worker' \in [Tab -> [at : Stand, todo : SUBSET File, writing : SUBSET File, step : 0 .. 3]]
      BY <2>0 DEF MigrationTypeOK, Stands, Ready, Stand
    <3>2. overlap' \in BOOLEAN /\ overwrote' = overwrote
      BY <1>11 DEF DeleteNext, MeetsCopying, MigrationTypeOK
    <3>. QED
      BY <2>0, <2>10, <3>1, <3>2 DEF MigrationTypeOK
  <2>2. CopyInv'
    BY <1>11, DeletionSteps, SMT DEF DeleteNext, CopyInv, MigrationTypeOK, Stands, Off, Ready, Stand, Exists, Whole, Migrated, CopiesRead
  <2>3. MarkerInv'
    BY <1>11, DeletionSteps, SMT DEF DeleteNext, MarkerInv, MigrationTypeOK, CopyInv, Stands, Off, Ready, Stand, Exists, Whole, Migrated, CopiesRead
  <2>4. ReadyInv'
    <3>1. ASSUME NEW u \in Tab
          PROVE  /\ worker'[u].at = "delete" => worker'[u].step \in 1 .. 3
                 /\ u = t \/ worker'[u] = worker[u]
                 /\ u = t /\ worker'[u].at = "delete" /\ worker'[u].step = 3 => worker[t].step = 2
      BY <2>0 DEF ReadyInv, MigrationTypeOK, Stands, Ready
    <3>2. ASSUME refused' = {}
          PROVE  /\ refused = {} /\ (legacy = {} => legacy' = {})
                 /\ worker[t].step \in {2, 3} => legacy' = {}
                 /\ marker' \/ legacy' = {}
      BY <2>0, <2>10, <3>2 DEF ReadyInv, Migrated
    <3>. QED
      BY <2>0, <3>1, <3>2 DEF ReadyInv, Migrated
  <2>5. PackInv'
    BY <1>11, DeletionSteps, SMT DEF DeleteNext, PackInv, MigrationTypeOK, CopyInv, MarkerInv, ReadyInv, Stands, Off, Ready, Stand, Exists, Whole, Migrated, CopiesRead
  <2>6. OrderInv'
    BY <1>11, DeletionSteps, SMT DEF DeleteNext, OrderInv, MigrationTypeOK, ReadyInv, Stands, Off, Ready, Stand, Exists, Whole, Migrated, CopiesRead
  <2>7. AloneInv'
    <3> SUFFICES ASSUME ~overlap', refused' = {} PROVE AloneInv'
      BY DEF AloneInv
    <3>1. ~overlap /\ refused = {} /\ \A u \in Tab \ {t} : worker[u].at \notin Copying
      BY <1>11 DEF DeleteNext, MeetsCopying
    <3>2. \A u \in Tab : worker'[u].at \notin CopiesRead
      BY <1>11, <3>1 DEF DeleteNext, CopiesRead, Copying, MigrationTypeOK, Stands, Ready
    <3>3. \A f \in File : repo'[f] # "legacy"
      BY <1>11, <3>1, DeletionSteps DEF DeleteNext, AloneInv, ReadyInv, MigrationTypeOK
    <3>. QED
      BY <1>11, <3>1, <3>2, <3>3 DEF DeleteNext, AloneInv
  <2>. QED
    BY <2>1, <2>2, <2>3, <2>4, <2>5, <2>6, <2>7
<1>12. ASSUME NEW t \in Tab, Ends(t) PROVE MigrationInv'
  <2>1. MigrationTypeOK'
    BY <1>12, SMT DEF Ends, MigrationTypeOK, ReadyInv, Stands, Off, Ready, Stand, Exists, Whole, Migrated, CopiesRead
  <2>2. CopyInv'
    BY <1>12, SMT DEF Ends, CopyInv, MigrationTypeOK, Stands, Off, Ready, Stand, Exists, Whole, Migrated, CopiesRead
  <2>3. MarkerInv'
    BY <1>12, SMT DEF Ends, MarkerInv, MigrationTypeOK, CopyInv, Stands, Off, Ready, Stand, Exists, Whole, Migrated, CopiesRead
  <2>4. ReadyInv'
    BY <1>12, SMT DEF Ends, ReadyInv, MigrationTypeOK, Stands, Off, Ready, Stand, Exists, Whole, Migrated, CopiesRead
  <2>5. PackInv'
    BY <1>12, SMT DEF Ends, PackInv, MigrationTypeOK, CopyInv, MarkerInv, ReadyInv, Stands, Off, Ready, Stand, Exists, Whole, Migrated, CopiesRead
  <2>6. OrderInv'
    BY <1>12, SMT DEF Ends, OrderInv, MigrationTypeOK, ReadyInv, Stands, Off, Ready, Stand, Exists, Whole, Migrated, CopiesRead
  <2>7. AloneInv'
    BY <1>12, SMT DEF Ends, AloneInv, MigrationTypeOK, ReadyInv, OrderInv, MeetsCopying, Copying, Stands, Off, Ready, Stand, Exists, Whole, Migrated, CopiesRead
  <2>. QED
    BY <2>1, <2>2, <2>3, <2>4, <2>5, <2>6, <2>7
<1>13. ASSUME DeletedLater PROVE MigrationInv'
  <2>1. "delete" \in refused /\ refused' # {}
    BY <1>13 DEF DeletedLater
  <2>2. MigrationTypeOK'
    BY <1>13 DEF DeletedLater, MigrationTypeOK
  <2>. QED
    BY <1>13, <2>1, <2>2 DEF DeletedLater, CopyInv, MarkerInv, ReadyInv, PackInv, OrderInv, AloneInv
<1>14. ASSUME UNCHANGED migrationVars PROVE MigrationInv'
  BY <1>14 DEF migrationVars, MigrationTypeOK, CopyInv, MarkerInv, ReadyInv, PackInv, OrderInv, AloneInv,
               Exists, Whole, Migrated, CopiesRead
<1>. QED
  BY <1>1, <1>2, <1>3, <1>4, <1>5, <1>6, <1>7, <1>8, <1>9, <1>10, <1>11, <1>12, <1>13, <1>14 DEF MigrationNext

\* The invariant holds in every state, the type invariant with it.
THEOREM MigrationInvariant == MigrationSpec => []MigrationInv
  BY MigrationStarts, MigrationSteps, PTL DEF MigrationSpec

\* However often it was cut short, failed or was run by two tabs at once, a worker uses a
\* repository that has all the legacy files, and a directory for packs beside the objects,
\* unless the legacy database could not be opened or the user has deleted the local data.
THEOREM UsesAWholeRepository == MigrationSpec => []WholeWhenUsed
<1>1. MigrationInv /\ ~discarded /\ "open" \notin refused => refused = {}
  BY DEF MigrationInv, MigrationTypeOK, OrderInv
<1>2. MigrationInv => WholeWhenUsed
  BY <1>1 DEF MigrationInv, MarkerInv, ReadyInv, PackInv, WholeWhenUsed, Migrated, Whole
<1>. QED
  BY <1>2, MigrationInvariant, PTL

\* Legacy data replaces nothing newer, and does not come back once the user has deleted it,
\* while no worker uses or deletes the repository that another still copies to and the
\* browser refuses neither to open nor to delete the legacy database.
THEOREM NothingOldComesBack == MigrationSpec => []NothingOldReturns
<1>1. MigrationInv => NothingOldReturns
  BY DEF MigrationInv, AloneInv, NothingOldReturns
<1>. QED
  BY <1>1, MigrationInvariant, PTL

---------------------------------------------------------------------------
(* Tokens and signatures. *)

Stage == {"idle", "wallet", "sign", "sent"}
Person == Account \cup {Other, NoOne}

AccessTypeOK ==
  /\ signer \in [1 .. MaxTokens -> Person]
  /\ stored \in 0 .. MaxTokens
  /\ wallet \in Account \cup {NoOne} /\ entry \in Person
  /\ request \in [Request -> [at : Stage, token : 0 .. MaxTokens, try : 0 .. 2]]
  /\ fetch \in [Fetch -> [at : {"idle", "dialog", "signing"}, before : Person]]

\* A throwaway sign-in is alone, remembers the connected account's entry and meets no
\* signature for the gateway.
AloneInDialog ==
  ~crossed =>
    /\ Signing = {} \/ SigningIn = {}
    /\ \A f, g \in SigningIn : f = g
    /\ \A f \in SigningIn : fetch[f].before = wallet

\* Without one the wallet has stored the account that is connected, and with a token that
\* is its own or nobody's.
OfOneAccount ==
  ~crossed =>
    /\ SigningIn = {} => entry = wallet
    /\ wallet # NoOne /\ stored # 0 => signer[stored] = wallet

AccessInv == AccessTypeOK /\ AloneInDialog /\ OfOneAccount

---------------------------------------------------------------------------

\* The count of signed tokens is a number, and a token that is signed next is a new one.
LEMMA NextToken ==
  ASSUME MaxTokens \in Nat PROVE Minted \in Nat
<1>1. IsFiniteSet(1 .. MaxTokens)
  BY FS_Interval
<1>2. IsFiniteSet({n \in 1 .. MaxTokens : signer[n] # NoOne})
  BY <1>1, FS_Subset
<1>. QED
  BY <1>2, FS_CardinalityType DEF Minted

\* The invariant holds as the page is opened.
LEMMA AccessStarts == AccessInit => AccessInv
<1> SUFFICES ASSUME AccessInit PROVE AccessInv
  OBVIOUS
<1> USE GatewayAssumption DEF AccessInit
<1>1. AccessTypeOK
  BY DEF AccessTypeOK, Person, Stage, Idle, At
<1>2. SigningIn = {} /\ Signing = {}
  BY DEF SigningIn, Signing, Idle, At
<1>. QED
  BY <1>1, <1>2 DEF AccessInv, AloneInDialog, OfOneAccount

\* A request that does not come to sign leaves what signs as it is.
LEMMA NotSigning ==
  ASSUME AccessInv, NEW r \in Request, NEW x \in [at : Stage \ {"sign"}, token : 0 .. MaxTokens, try : 0 .. 2],
         request' = [request EXCEPT ![r] = x]
  PROVE  /\ request' \in [Request -> [at : Stage, token : 0 .. MaxTokens, try : 0 .. 2]]
         /\ Signing' \subseteq Signing
  BY DEF AccessInv, AccessTypeOK, Signing

LEMMA IdleIsOne == GatewayAssumption => Idle \in [at : Stage \ {"sign"}, token : 0 .. MaxTokens, try : 0 .. 2]
  BY DEF GatewayAssumption, Idle, At, Stage

\* What may become of a request that asks for a signature, or sends.
LEMMA Asking ==
  ASSUME AccessInv, NEW r \in Request, NEW try \in 0 .. 2,
         SendWithToken(r, try) \/ AskForSignature(r, try),
         UNCHANGED fetch
  PROVE  /\ request' \in [Request -> [at : Stage, token : 0 .. MaxTokens, try : 0 .. 2]]
         /\ crossed => crossed'
         /\ Signing' \subseteq Signing \/ crossed' \/ SigningIn = {}
<1>1. CASE SendWithToken(r, try) /\ Fresh
  <2> DEFINE x == At("sent", stored, try)
  <2>1. x \in [at : Stage \ {"sign"}, token : 0 .. MaxTokens, try : 0 .. 2]
    BY DEF At, AccessInv, AccessTypeOK, Stage
  <2>2. request' = [request EXCEPT ![r] = x] /\ crossed' = crossed
    BY <1>1 DEF SendWithToken, Become
  <2>. QED
    BY <2>1, <2>2, NotSigning
<1>2. CASE AskForSignature(r, try) /\ wallet = NoOne
  <2>1. request' = [request EXCEPT ![r] = Idle] /\ crossed' = crossed
    BY <1>2 DEF AskForSignature, Settle, Become
  <2>. QED
    BY <2>1, IdleIsOne, GatewayAssumption, NotSigning
<1>3. CASE AskForSignature(r, try) /\ wallet # NoOne
  <2>1. At("sign", 0, try) \in [at : Stage, token : 0 .. MaxTokens, try : 0 .. 2]
    BY GatewayAssumption DEF At, Stage
  <2>2. request' = [request EXCEPT ![r] = At("sign", 0, try)]
    BY <1>3 DEF AskForSignature, Become
  <2>3. (crossed => crossed') /\ (crossed' \/ SigningIn = {})
    BY <1>3 DEF AskForSignature
  <2>. QED
    BY <2>1, <2>2, <2>3 DEF AccessInv, AccessTypeOK
<1>. QED
  BY <1>1, <1>2, <1>3 DEF SendWithToken

\* A step of a request that signs nothing keeps the invariant.
LEMMA RequestKeeps ==
  ASSUME AccessInv,
         request' \in [Request -> [at : Stage, token : 0 .. MaxTokens, try : 0 .. 2]],
         crossed => crossed',
         Signing' \subseteq Signing \/ crossed' \/ SigningIn = {},
         stored' \in {stored, 0}, UNCHANGED <<signer, wallet, entry, fetch>>
  PROVE  AccessInv'
<1>1. SigningIn' = SigningIn
  BY DEF SigningIn
<1>2. AccessTypeOK'
  BY GatewayAssumption DEF AccessInv, AccessTypeOK
<1>3. AloneInDialog'
  BY <1>1 DEF AccessInv, AloneInDialog
<1>4. OfOneAccount'
  BY <1>1 DEF AccessInv, OfOneAccount
<1>. QED
  BY <1>2, <1>3, <1>4 DEF AccessInv

\* A signature for the gateway is by the account the wallet has stored, which, unless a
\* dialog has been crossed, is the connected one.
LEMMA SignKeeps ==
  ASSUME AccessInv, NEW r \in Request, Sign(r) PROVE AccessInv'
<1>1. Minted + 1 \in 1 .. MaxTokens
  BY NextToken, GatewayAssumption DEF Sign
<1>2. /\ signer' = [signer EXCEPT ![Minted + 1] = entry] /\ stored' = Minted + 1
      /\ request' = [request EXCEPT ![r] = At("sent", Minted + 1, request[r].try)]
      /\ UNCHANGED <<wallet, entry, fetch, crossed>> /\ r \in Signing
  BY DEF Sign, Become, Signing
<1>3. At("sent", Minted + 1, request[r].try) \in [at : Stage \ {"sign"}, token : 0 .. MaxTokens, try : 0 .. 2]
  BY <1>1 DEF At, AccessInv, AccessTypeOK, Stage
<1>4. Signing' \subseteq Signing /\ request' \in [Request -> [at : Stage, token : 0 .. MaxTokens, try : 0 .. 2]]
  BY <1>2, <1>3, NotSigning
<1>5. signer'[stored'] = entry
  BY <1>1, <1>2 DEF AccessInv, AccessTypeOK
<1>6. SigningIn' = SigningIn
  BY <1>2 DEF SigningIn
<1>7. AccessTypeOK'
  BY <1>1, <1>2, <1>4 DEF AccessInv, AccessTypeOK
<1>8. AloneInDialog'
  BY <1>2, <1>4, <1>6 DEF AccessInv, AloneInDialog
<1>9. OfOneAccount'
  BY <1>2, <1>5, <1>6 DEF AccessInv, OfOneAccount, AloneInDialog
<1>. QED
  BY <1>7, <1>8, <1>9 DEF AccessInv

\* A throwaway sign-in puts back what it found.
LEMMA FetchKeeps ==
  ASSUME AccessInv, NEW f \in Fetch, SignInOnce(f) \/ StoresAccount(f) \/ SignedOnce(f) PROVE AccessInv'
<1> USE GatewayAssumption
<1>1. Signing' = Signing
  BY DEF SignInOnce, StoresAccount, SignedOnce, Signing
<1>2. AccessTypeOK'
  <2>1. entry' \in Person
    BY DEF SignInOnce, StoresAccount, SignedOnce, PutBack, AccessInv, AccessTypeOK, Person
  <2> DEFINE Standing == [at : {"idle", "dialog", "signing"}, before : Person]
  <2>0. /\ fetch \in [Fetch -> Standing] /\ fetch[f].before \in Person
        /\ [at |-> "dialog", before |-> entry] \in Standing
        /\ [at |-> "signing", before |-> fetch[f].before] \in Standing
        /\ [at |-> "idle", before |-> NoOne] \in Standing
    BY DEF AccessInv, AccessTypeOK, Person
  <2>2. fetch' \in [Fetch -> Standing]
    <3> HIDE DEF Standing
    <3>1. CASE SignInOnce(f)
      BY <2>0, <3>1 DEF SignInOnce
    <3>2. CASE StoresAccount(f)
      <4>1. [fetch[f] EXCEPT !.at = "signing"] = [at |-> "signing", before |-> fetch[f].before]
        BY <2>0 DEF Standing
      <4>. QED
        BY <2>0, <3>2, <4>1 DEF StoresAccount
    <3>3. CASE SignedOnce(f)
      BY <2>0, <3>3 DEF SignedOnce
    <3>. QED
      BY <3>1, <3>2, <3>3
  <2>3. UNCHANGED <<signer, stored, wallet, request>>
    BY DEF SignInOnce, StoresAccount, SignedOnce
  <2>. QED
    BY <2>1, <2>2, <2>3 DEF AccessInv, AccessTypeOK
<1>3. CASE SignInOnce(f)
  <2>1. SigningIn' = SigningIn \cup {f} /\ fetch'[f].before = entry
    BY <1>3 DEF SignInOnce, SigningIn, AccessInv, AccessTypeOK
  <2>2. ~crossed' => ~crossed /\ Signing = {} /\ SigningIn = {}
    BY <1>3 DEF SignInOnce
  <2>3. UNCHANGED <<signer, stored, wallet, entry>>
    BY <1>3 DEF SignInOnce
  <2>. QED
    BY <1>1, <1>2, <2>1, <2>2, <2>3 DEF AccessInv, AloneInDialog, OfOneAccount
<1>4. CASE StoresAccount(f)
  <2>1. SigningIn' = SigningIn /\ f \in SigningIn /\ \A g \in Fetch : fetch'[g].before = fetch[g].before
    BY <1>4 DEF StoresAccount, SigningIn, AccessInv, AccessTypeOK
  <2>2. UNCHANGED <<signer, stored, wallet, crossed>>
    BY <1>4 DEF StoresAccount
  <2>3. \A g \in SigningIn : g \in Fetch
    BY DEF SigningIn
  <2>. QED
    BY <1>1, <1>2, <2>1, <2>2, <2>3 DEF AccessInv, AloneInDialog, OfOneAccount
<1>5. CASE SignedOnce(f)
  <2>1. /\ SigningIn' = SigningIn \ {f} /\ f \in SigningIn
        /\ \A g \in SigningIn' : fetch'[g].before = fetch[g].before
    BY <1>5 DEF SignedOnce, SigningIn, AccessInv, AccessTypeOK
  <2>2. UNCHANGED <<signer, stored, wallet, crossed>> /\ entry' = fetch[f].before
    BY <1>5 DEF SignedOnce, PutBack
  <2>. QED
    BY <1>1, <1>2, <2>1, <2>2 DEF AccessInv, AloneInDialog, OfOneAccount
<1>. QED
  BY <1>3, <1>4, <1>5

\* Whoever signs in or out while a dialog is open crosses it.
LEMMA LoginKeeps ==
  ASSUME AccessInv, (\E a \in Account : Login(a)) \/ Logout \/ Disconnect \/ SessionLost PROVE AccessInv'
<1> USE GatewayAssumption
<1>1. Signing' = Signing /\ SigningIn' = SigningIn
  BY DEF Login, Logout, Disconnect, SessionLost, Signing, SigningIn
<1>0. ~crossed' => ~crossed /\ Signing = {} /\ SigningIn = {}
  BY DEF Login, Logout, Disconnect, SessionLost
<1>2. AccessTypeOK'
  <2>1. UNCHANGED <<signer, request, fetch>> /\ stored' \in {stored, 0} /\ crossed' \in BOOLEAN
    BY DEF Login, Logout, Disconnect, SessionLost, AccessInv, AccessTypeOK
  <2>2. wallet' \in Account \cup {NoOne} /\ entry' \in Person
    BY DEF Login, Logout, Disconnect, SessionLost, AccessInv, AccessTypeOK, Person
  <2>. QED
    BY <2>1, <2>2 DEF AccessInv, AccessTypeOK
<1>3. AloneInDialog'
  BY <1>0, <1>1 DEF AloneInDialog
<1>4. OfOneAccount'
  <2>1. ASSUME NEW a \in Account, Login(a) PROVE OfOneAccount'
    <3>1. /\ wallet' = a /\ entry' = a /\ UNCHANGED <<signer, stored>>
          /\ ~crossed' => ~(stored # 0 /\ signer[stored] # a)
      BY <2>1 DEF Login
    <3>. QED
      BY <3>1 DEF OfOneAccount
  <2>2. CASE Logout
    BY <1>0, <1>1, <2>2 DEF Logout, AccessInv, OfOneAccount
  <2>3. CASE Disconnect
    BY <2>3 DEF Disconnect, OfOneAccount
  <2>4. CASE SessionLost
    BY <2>4 DEF SessionLost, OfOneAccount
  <2>. QED
    BY <2>1, <2>2, <2>3, <2>4
<1>. QED
  BY <1>2, <1>3, <1>4 DEF AccessInv

\* Every step keeps the invariant.
LEMMA AccessSteps == AccessInv /\ [AccessNext]_accessVars => AccessInv'
<1> SUFFICES ASSUME AccessInv, [AccessNext]_accessVars PROVE AccessInv'
  OBVIOUS
<1> USE GatewayAssumption
<1>1. ASSUME NEW r \in Request, Begin(r) PROVE AccessInv'
  <2>1. CASE Fresh
    <3>1. SendWithToken(r, 1) /\ UNCHANGED <<signer, stored, wallet, entry, fetch>>
      BY <1>1, <2>1 DEF Begin
    <3>. QED
      BY <3>1, Asking, RequestKeeps
  <2>2. CASE ~Fresh
    <3>1. At("wallet", 0, 1) \in [at : Stage \ {"sign"}, token : 0 .. MaxTokens, try : 0 .. 2]
      BY DEF At, Stage
    <3>2. /\ request' = [request EXCEPT ![r] = At("wallet", 0, 1)]
          /\ UNCHANGED <<signer, stored, wallet, entry, fetch, crossed>>
      BY <1>1, <2>2 DEF Begin, Become
    <3>. QED
      BY <3>1, <3>2, NotSigning, RequestKeeps
  <2>. QED
    BY <2>1, <2>2
<1>2. ASSUME NEW r \in Request, WalletAnswers(r) PROVE AccessInv'
  <2>1. CASE wallet = NoOne /\ ~Fresh
    <3>1. request' = [request EXCEPT ![r] = Idle] /\ UNCHANGED <<signer, stored, wallet, entry, fetch, crossed>>
      BY <1>2, <2>1 DEF WalletAnswers, Settle, Become
    <3>. QED
      BY <3>1, IdleIsOne, NotSigning, RequestKeeps
  <2>2. CASE ~(wallet = NoOne /\ ~Fresh)
    <3>1. SendWithToken(r, 1) /\ UNCHANGED <<signer, stored, wallet, entry, fetch>>
      BY <1>2, <2>2 DEF WalletAnswers
    <3>. QED
      BY <3>1, Asking, RequestKeeps
  <2>. QED
    BY <2>1, <2>2
<1>3. ASSUME NEW r \in Request, Decline(r) \/ Answered(r) PROVE AccessInv'
  <2>1. request' = [request EXCEPT ![r] = Idle] /\ UNCHANGED <<signer, stored, wallet, entry, fetch, crossed>>
    BY <1>3 DEF Decline, Answered, Settle, Become
  <2>. QED
    BY <2>1, IdleIsOne, NotSigning, RequestKeeps
<1>4. ASSUME NEW r \in Request, Refused(r) PROVE AccessInv'
  <2>1. stored' \in {stored, 0} /\ UNCHANGED <<signer, wallet, entry, fetch>>
    BY <1>4 DEF Refused
  <2>2. CASE AskForSignature(r, 2)
    BY <2>1, <2>2, Asking, RequestKeeps
  <2>3. CASE Settle(r) /\ UNCHANGED crossed
    <3>1. request' = [request EXCEPT ![r] = Idle]
      BY <2>3 DEF Settle, Become
    <3>. QED
      BY <2>1, <2>3, <3>1, IdleIsOne, NotSigning, RequestKeeps
  <2>. QED
    BY <1>4, <2>2, <2>3 DEF Refused
<1>5. ASSUME Lapse \/ Retire \/ UNCHANGED accessVars PROVE AccessInv'
  <2>1. UNCHANGED <<signer, stored, wallet, entry, request, fetch, crossed>>
    BY <1>5 DEF Lapse, Retire, accessVars
  <2>. QED
    BY <2>1, RequestKeeps DEF AccessInv, AccessTypeOK, Signing
<1>. QED
  BY <1>1, <1>2, <1>3, <1>4, <1>5, SignKeeps, FetchKeeps, LoginKeeps DEF AccessNext, User

\* While nothing crosses a wallet dialog, the cached token is the connected account's, and so
\* is what the wallet has stored once throwaway sign-ins are over.
THEOREM TokensAreOfTheAccount == AccessSpec => []AccountsAgree
<1>1. AccessInv => AccountsAgree
  BY DEF AccessInv, OfOneAccount, AccountsAgree
<1>. QED
  BY <1>1, AccessStarts, AccessSteps, PTL DEF AccessSpec

---------------------------------------------------------------------------
(* The transactions page. *)

RenderAt == {"done", "records", "display", "viewing", "filtering"}
RenderState == [at : RenderAt, account : Shown \cup {NoAccount}, filter : Filter, next : Nat]

\* The first n chunks of a's transactions under filter f.
FirstChunks(a, f, n) == [i \in 1 .. n |-> <<a, f, i>>]

Finished(a, f) == IF a = NoAccount THEN 0 ELSE Chunks[a][f]

PageTyped ==
  /\ chosen \in Shown \cup {NoAccount} /\ loaded \in Shown \cup {NoAccount}
  /\ filter \in Filter
  /\ generation \in 0 .. MaxRenders
  /\ render \in [1 .. MaxRenders -> RenderState]
  /\ spinner \in BOOLEAN /\ interrupted \in BOOLEAN

\* Where the latest render stands: on its way to the table, filling it, or done.
Loading(g) ==
  /\ render[g].account = chosen /\ chosen # NoAccount
  /\ ~interrupted /\ spinner

Filling(g) ==
  LET r == render[g] IN
  /\ loaded # NoAccount /\ r.account = loaded /\ r.filter = filter
  /\ r.next \in 2 .. Chunks[loaded][filter]
  /\ table = FirstChunks(loaded, filter, r.next - 1)
  /\ r.at = "viewing" => loaded = chosen /\ ~interrupted /\ spinner
  /\ r.at = "filtering" => interrupted \/ (loaded = chosen /\ ~spinner)

Settled ==
  interrupted \/ (loaded = chosen /\ ~spinner /\ table = FirstChunks(loaded, filter, Finished(loaded, filter)))

LatestInOrder ==
  /\ generation = 0 => Settled
  /\ generation > 0 =>
       /\ render[generation].at \in {"records", "display"} => Loading(generation)
       /\ render[generation].at \in {"viewing", "filtering"} => Filling(generation)
       /\ render[generation].at = "done" => Settled

PageInOrder ==
  /\ PageTyped
  /\ \A g \in 1 .. MaxRenders : g > generation => render[g].at = "done"
  /\ \E n \in 0 .. Finished(loaded, filter) : table = FirstChunks(loaded, filter, n)
  /\ LatestInOrder

---------------------------------------------------------------------------
(* Chunks in a table. *)

\* The chunks of a listing are counted, and are the listing.
LEMMA FinishedType ==
  ASSUME NEW a \in Shown \cup {NoAccount}, NEW f \in Filter
  PROVE  /\ Finished(a, f) \in Nat
         /\ Listing(a, f) = FirstChunks(a, f, Finished(a, f))
<1>1. CASE a = NoAccount
  BY <1>1 DEF Finished, Listing, FirstChunks
<1>2. CASE a # NoAccount
  BY <1>2, PageAssumption DEF Finished, Listing, FirstChunks
<1>. QED  BY <1>1, <1>2

\* Chunks are appended one at a time, and the first of the first chunks are first chunks.
LEMMA FirstChunksFacts ==
  ASSUME NEW a, NEW f, NEW m \in Nat
  PROVE  /\ Len(FirstChunks(a, f, m)) = m
         /\ FirstChunks(a, f, 0) = <<>>
         /\ FirstChunks(a, f, 1) = <<<<a, f, 1>>>>
         /\ Append(FirstChunks(a, f, m), <<a, f, m + 1>>) = FirstChunks(a, f, m + 1)
         /\ \A n \in 0 .. m : SubSeq(FirstChunks(a, f, m), 1, n) = FirstChunks(a, f, n)
<1>. DEFINE S == {<<a, f, i>> : i \in Nat}
<1>1. \A k \in Nat : FirstChunks(a, f, k) \in Seq(S) /\ Len(FirstChunks(a, f, k)) = k
  BY DEF FirstChunks
<1>2. FirstChunks(a, f, 0) = <<>>
  BY <1>1, EmptySeq
<1>3. FirstChunks(a, f, 1) = <<<<a, f, 1>>>>
  BY <1>1 DEF FirstChunks
<1>4. Append(FirstChunks(a, f, m), <<a, f, m + 1>>) = FirstChunks(a, f, m + 1)
  BY <1>1 DEF FirstChunks
<1>5. \A n \in 0 .. m : SubSeq(FirstChunks(a, f, m), 1, n) = FirstChunks(a, f, n)
  BY <1>1 DEF FirstChunks
<1>. QED  BY <1>1, <1>2, <1>3, <1>4, <1>5

---------------------------------------------------------------------------
(* The steps. *)

\* A render that is over.
LEMMA DoneState == Done \in RenderState /\ Done.at = "done"
BY PageAssumption DEF Done, Render, RenderState, RenderAt

\* The first turn of a render: the table has the first chunk, if there is one, and the render
\* goes on when there are more.
LEMMA FirstTurn ==
  ASSUME PageTyped, NEW g \in 1 .. MaxRenders, NEW a \in Shown, NEW f \in Filter,
         NEW view \in BOOLEAN, RenderTable(g, a, f, view)
  PROVE  /\ render' \in [1 .. MaxRenders -> RenderState]
         /\ \A h \in 1 .. MaxRenders : h # g => render'[h] = render[h]
         /\ \E n \in 0 .. Finished(a, f) : table' = FirstChunks(a, f, n)
         /\ \/ /\ render'[g].at = "done"
               /\ table' = FirstChunks(a, f, Finished(a, f))
               /\ spinner' = (spinner /\ ~view)
            \/ /\ render'[g] = Render(IF view THEN "viewing" ELSE "filtering", a, f, 2)
               /\ 2 \in 2 .. Chunks[a][f]
               /\ table' = FirstChunks(a, f, 1)
               /\ spinner' = spinner
<1>. DEFINE n == Chunks[a][f]
            r == Render(IF view THEN "viewing" ELSE "filtering", a, f, 2)
<1>1. n \in Nat /\ Finished(a, f) = n
  BY PageAssumption DEF Finished
<1>2. table' = FirstChunks(a, f, IF n > 0 THEN 1 ELSE 0)
  BY FirstChunksFacts DEF RenderTable
<1>3. r \in RenderState
  BY DEF RenderState, Render, RenderAt
<1>. HIDE DEF r
<1>4. CASE n > 1
  <2>1. render' = [render EXCEPT ![g] = r] /\ spinner' = (spinner /\ ~(view /\ FALSE))
    BY <1>4 DEF RenderTable, r
  <2>2. render'[g] = r
    BY <2>1 DEF PageTyped
  <2>3. spinner' = spinner /\ table' = FirstChunks(a, f, 1) /\ 1 \in 0 .. n /\ 2 \in 2 .. n
    BY <1>1, <1>2, <1>4, <2>1 DEF PageTyped
  <2>. QED  BY <1>1, <1>3, <2>1, <2>2, <2>3 DEF PageTyped, r
<1>5. CASE ~(n > 1)
  <2>1. render' = [render EXCEPT ![g] = Done] /\ spinner' = (spinner /\ ~(view /\ TRUE))
    BY <1>5 DEF RenderTable
  <2>2. (IF n > 0 THEN 1 ELSE 0) = n
    BY <1>1, <1>5
  <2>3. render'[g] = Done
    BY <2>1 DEF PageTyped
  <2>. QED  BY <1>1, <1>2, <2>1, <2>2, <2>3, DoneState DEF PageTyped
<1>. QED  BY <1>4, <1>5

\* An empty page, before an account is chosen.
LEMMA PageInitInOrder == PageInit => PageInOrder
<1>. SUFFICES ASSUME PageInit PROVE PageInOrder
  OBVIOUS
<1>1. PageTyped
  <2>1. render \in [1 .. MaxRenders -> RenderState]
    BY DoneState DEF PageInit
  <2>2. 0 \in 0 .. MaxRenders
    BY PageAssumption
  <2>. QED  BY <2>1, <2>2, PageAssumption DEF PageInit, PageTyped
<1>2. \A g \in 1 .. MaxRenders : render[g].at = "done"
  BY DoneState DEF PageInit
<1>3. Finished(loaded, filter) = 0 /\ table = FirstChunks(loaded, filter, 0)
  BY FirstChunksFacts DEF PageInit, Finished
<1>4. LatestInOrder
  BY <1>3 DEF PageInit, LatestInOrder, Settled
<1>. QED  BY <1>1, <1>2, <1>3, <1>4 DEF PageInOrder

\* The choice of an account begins a render, and every earlier one is old.
LEMMA ChooseAccountStep ==
  ASSUME PageInOrder, NEW a \in Shown, ChooseAccount(a)
  PROVE  PageInOrder'
<1>0. PageTyped /\ generation + 1 \in 1 .. MaxRenders
  BY PageAssumption DEF PageInOrder, PageTyped, ChooseAccount
<1>1. Render("records", a, All, 0) \in RenderState
  BY PageAssumption DEF RenderState, Render, RenderAt
<1>2. /\ generation' = generation + 1
      /\ render'[generation + 1] = Render("records", a, All, 0)
      /\ \A h \in 1 .. MaxRenders : h # generation + 1 => render'[h] = render[h]
  BY <1>0 DEF ChooseAccount, PageTyped
<1>3. PageTyped'
  <2>1. render' \in [1 .. MaxRenders -> RenderState]
    BY <1>0, <1>1 DEF ChooseAccount, PageTyped
  <2>2. chosen' \in Shown /\ spinner' = TRUE /\ interrupted' = FALSE /\ generation' \in 0 .. MaxRenders
        /\ UNCHANGED <<filter, loaded, table>>
    BY <1>0 DEF ChooseAccount
  <2>. QED  BY <1>0, <2>1, <2>2 DEF PageTyped
<1>4. \A g \in 1 .. MaxRenders : g > generation' => render'[g].at = "done"
  BY <1>0, <1>2 DEF PageInOrder, PageTyped
<1>5. (\E n \in 0 .. Finished(loaded, filter) : table = FirstChunks(loaded, filter, n))'
  BY DEF PageInOrder, ChooseAccount, Finished
<1>6. LatestInOrder'
  BY <1>0, <1>2, PageAssumption DEF LatestInOrder, Loading, ChooseAccount, Render, PageTyped
<1>. QED  BY <1>3, <1>4, <1>5, <1>6 DEF PageInOrder

\* A render that is not the latest ends without a trace.
LEMMA OtherEnds ==
  ASSUME PageInOrder, NEW g \in 1 .. MaxRenders, g # generation,
         render' = [render EXCEPT ![g] = Done],
         UNCHANGED <<chosen, filter, loaded, table, generation, spinner, interrupted>>
  PROVE  PageInOrder'
<1>0. PageTyped
  BY DEF PageInOrder
<1>1. PageTyped'
  BY <1>0, DoneState DEF PageTyped
<1>2. \A h \in 1 .. MaxRenders : render'[h] = IF h = g THEN Done ELSE render[h]
  BY <1>0 DEF PageTyped
<1>3. \A h \in 1 .. MaxRenders : h > generation' => render'[h].at = "done"
  BY <1>2, DoneState DEF PageInOrder
<1>4. generation > 0 => render'[generation] = render[generation]
  BY <1>0, <1>2 DEF PageTyped
<1>5. LatestInOrder'
  BY <1>4 DEF PageInOrder, LatestInOrder, Loading, Filling, Settled, Finished
<1>6. (\E n \in 0 .. Finished(loaded, filter) : table = FirstChunks(loaded, filter, n))'
  BY DEF PageInOrder, Finished
<1>. QED  BY <1>1, <1>3, <1>5, <1>6 DEF PageInOrder

\* The latest render gets its records, and goes on to show them.
LEMMA RecordsReadStep ==
  ASSUME PageInOrder, NEW g \in 1 .. MaxRenders, RecordsRead(g)
  PROVE  PageInOrder'
<1>0. PageTyped /\ g = generation
  BY DEF PageInOrder, RecordsRead, IsCurrent
<1>1. /\ render'[g] = [render[g] EXCEPT !.at = "display"]
      /\ \A h \in 1 .. MaxRenders : h # g => render'[h] = render[h]
  BY <1>0 DEF RecordsRead, PageTyped
<1>2. /\ render'[g] \in RenderState
      /\ render'[g].at = "display" /\ render'[g].account = render[g].account
  BY <1>0, <1>1 DEF PageTyped, RenderState, RenderAt
<1>3. PageTyped'
  BY <1>0, <1>2 DEF RecordsRead, PageTyped
<1>4. \A h \in 1 .. MaxRenders : h > generation' => render'[h].at = "done"
  BY <1>0, <1>1 DEF PageInOrder, PageTyped, RecordsRead
<1>5. (\E n \in 0 .. Finished(loaded, filter) : table = FirstChunks(loaded, filter, n))'
  BY DEF PageInOrder, RecordsRead, Finished
<1>6. LatestInOrder'
  BY <1>0, <1>2 DEF PageInOrder, LatestInOrder, Loading, RecordsRead
<1>. QED  BY <1>3, <1>4, <1>5, <1>6 DEF PageInOrder

\* A load that fails leaves the table to the account it still shows.
LEMMA LoadFailsStep ==
  ASSUME PageInOrder, NEW g \in 1 .. MaxRenders, LoadFails(g)
  PROVE  PageInOrder'
<1>0. PageTyped
  BY DEF PageInOrder
<1>1. CASE g # generation
  BY <1>0, <1>1, OtherEnds DEF LoadFails, IsCurrent, PageTyped
<1>2. CASE g = generation
  <2>1. /\ interrupted' = TRUE /\ spinner' = FALSE
        /\ render' = [render EXCEPT ![g] = Done]
        /\ UNCHANGED <<chosen, filter, loaded, table, generation>>
    BY <1>0, <1>2 DEF LoadFails, IsCurrent, PageTyped
  <2>2. PageTyped'
    BY <1>0, <2>1, DoneState DEF PageTyped
  <2>3. \A h \in 1 .. MaxRenders : render'[h] = IF h = g THEN Done ELSE render[h]
    BY <1>0, <2>1 DEF PageTyped
  <2>4. \A h \in 1 .. MaxRenders : h > generation' => render'[h].at = "done"
    BY <2>1, <2>3, DoneState DEF PageInOrder
  <2>5. LatestInOrder'
    BY <1>2, <2>1, <2>3, DoneState DEF LatestInOrder, Settled
  <2>6. (\E n \in 0 .. Finished(loaded, filter) : table = FirstChunks(loaded, filter, n))'
    BY <2>1 DEF PageInOrder, Finished
  <2>. QED  BY <2>2, <2>4, <2>5, <2>6 DEF PageInOrder
<1>. QED  BY <1>1, <1>2

\* The account is loaded, and its first chunk rendered.
LEMMA LoadsStep ==
  ASSUME PageInOrder, NEW g \in 1 .. MaxRenders, Loads(g)
  PROVE  PageInOrder'
<1>. DEFINE a == render[g].account
<1>0. PageTyped /\ g = generation /\ g > 0
  BY DEF PageInOrder, Loads, IsCurrent, PageTyped
<1>1. Loading(g)
  BY <1>0 DEF PageInOrder, LatestInOrder, Loads
<1>2. a \in Shown /\ a # NoAccount /\ a = chosen /\ ~interrupted /\ spinner = TRUE
  BY <1>0, <1>1, PageAssumption DEF Loading, PageTyped
<1>3. /\ loaded' = a /\ filter' = All /\ RenderTable(g, a, All, TRUE)
      /\ UNCHANGED <<chosen, generation, interrupted>>
  BY DEF Loads
<1>. HIDE DEF a
<1>4. /\ render' \in [1 .. MaxRenders -> RenderState]
      /\ \A h \in 1 .. MaxRenders : h # g => render'[h] = render[h]
      /\ \E n \in 0 .. Finished(a, All) : table' = FirstChunks(a, All, n)
      /\ \/ /\ render'[g].at = "done"
            /\ table' = FirstChunks(a, All, Finished(a, All))
            /\ spinner' = FALSE
         \/ /\ render'[g] = Render("viewing", a, All, 2)
            /\ 2 \in 2 .. Chunks[a][All]
            /\ table' = FirstChunks(a, All, 1)
            /\ spinner' = TRUE
  BY <1>0, <1>2, <1>3, FirstTurn, PageAssumption
<1>5. PageTyped'
  BY <1>0, <1>2, <1>3, <1>4, PageAssumption DEF PageTyped
<1>6. \A h \in 1 .. MaxRenders : h > generation' => render'[h].at = "done"
  BY <1>0, <1>3, <1>4 DEF PageInOrder
<1>7. (\E n \in 0 .. Finished(loaded, filter) : table = FirstChunks(loaded, filter, n))'
  BY <1>3, <1>4 DEF Finished
<1>8. CASE render'[g].at = "done" /\ table' = FirstChunks(a, All, Finished(a, All))
             /\ spinner' = FALSE
  <2>1. Settled'
    BY <1>2, <1>3, <1>8 DEF Settled, Finished
  <2>. QED  BY <1>0, <1>3, <1>5, <1>6, <1>7, <1>8, <2>1 DEF PageInOrder, LatestInOrder
<1>9. CASE render'[g] = Render("viewing", a, All, 2) /\ 2 \in 2 .. Chunks[a][All]
             /\ table' = FirstChunks(a, All, 1) /\ spinner' = TRUE
  <2>1. /\ render'[g].at = "viewing" /\ render'[g].account = a /\ render'[g].filter = All
        /\ render'[g].next = 2
    BY <1>9 DEF Render
  <2>2. Filling(g)'
    BY <1>2, <1>3, <1>9, <2>1 DEF Filling
  <2>3. LatestInOrder'
    BY <1>0, <1>3, <2>1, <2>2 DEF LatestInOrder
  <2>. QED  BY <1>5, <1>6, <1>7, <2>3 DEF PageInOrder
<1>. QED  BY <1>4, <1>8, <1>9

\* The loaded account is rendered anew under another filter.
LEMMA ChooseFilterStep ==
  ASSUME PageInOrder, NEW f \in Filter, ChooseFilter(f)
  PROVE  PageInOrder'
<1>0. PageTyped
  BY DEF PageInOrder
<1>1. PICK g \in 1 .. MaxRenders :
        g = generation + 1 /\ loaded \in Shown /\ loaded # NoAccount
  BY <1>0, PageAssumption DEF PageTyped, ChooseFilter
<1>2. /\ generation' = g /\ filter' = f /\ UNCHANGED <<chosen, loaded>>
      /\ interrupted' = (interrupted \/ spinner)
      /\ RenderTable(g, loaded, f, FALSE)
  BY <1>1 DEF ChooseFilter
<1>3. /\ render' \in [1 .. MaxRenders -> RenderState]
      /\ \A h \in 1 .. MaxRenders : h # g => render'[h] = render[h]
      /\ \E n \in 0 .. Finished(loaded, f) : table' = FirstChunks(loaded, f, n)
      /\ \/ /\ render'[g].at = "done"
            /\ table' = FirstChunks(loaded, f, Finished(loaded, f))
            /\ spinner' = spinner
         \/ /\ render'[g] = Render("filtering", loaded, f, 2)
            /\ 2 \in 2 .. Chunks[loaded][f]
            /\ table' = FirstChunks(loaded, f, 1)
            /\ spinner' = spinner
  <2>1. spinner = (spinner /\ ~FALSE)
    BY <1>0 DEF PageTyped
  <2>. QED  BY <1>0, <1>1, <1>2, <2>1, FirstTurn
  \* When nothing was interrupted and no load is under way, the account is the chosen one.
<1>4. interrupted' \/ (loaded = chosen /\ ~spinner)
  BY <1>0, <1>2 DEF PageInOrder, LatestInOrder, Loading, Filling, Settled, PageTyped, RenderState,
                    RenderAt
<1>5. PageTyped'
  BY <1>0, <1>1, <1>2, <1>3 DEF PageTyped
<1>6. \A h \in 1 .. MaxRenders : h > generation' => render'[h].at = "done"
  <2>1. \A h \in 1 .. MaxRenders : h > g => h # g /\ h > generation
    BY <1>0, <1>1 DEF PageTyped
  <2>. QED  BY <1>2, <1>3, <2>1 DEF PageInOrder
<1>7. (\E n \in 0 .. Finished(loaded, filter) : table = FirstChunks(loaded, filter, n))'
  BY <1>2, <1>3 DEF Finished
<1>8. CASE render'[g].at = "done" /\ table' = FirstChunks(loaded, f, Finished(loaded, f))
             /\ spinner' = spinner
  <2>1. Settled'
    BY <1>2, <1>4, <1>8 DEF Settled, Finished
  <2>. QED  BY <1>1, <1>2, <1>5, <1>6, <1>7, <1>8, <2>1 DEF PageInOrder, LatestInOrder
<1>9. CASE render'[g] = Render("filtering", loaded, f, 2) /\ 2 \in 2 .. Chunks[loaded][f]
             /\ table' = FirstChunks(loaded, f, 1) /\ spinner' = spinner
  <2>1. /\ render'[g].at = "filtering" /\ render'[g].account = loaded /\ render'[g].filter = f
        /\ render'[g].next = 2
    BY <1>9 DEF Render
  <2>2. Filling(g)'
    <3>1. render'[g].next - 1 = 1 /\ render'[g].next \in 2 .. Chunks[loaded][f]
      BY <1>9, <2>1
    <3>2. table' = FirstChunks(loaded, f, render'[g].next - 1)
      BY <1>9, <3>1
    <3>. QED  BY <1>1, <1>2, <1>4, <1>9, <2>1, <3>1, <3>2 DEF Filling
  <2>3. LatestInOrder'
    <3>1. generation' > 0 /\ generation' = g
      BY <1>1, <1>2
    <3>. QED  BY <2>1, <2>2, <3>1 DEF LatestInOrder
  <2>. QED  BY <1>5, <1>6, <1>7, <2>3 DEF PageInOrder
<1>. QED  BY <1>3, <1>8, <1>9

\* The latest render appends its next chunk.
LEMMA NextChunkStep ==
  ASSUME PageInOrder, NEW g \in 1 .. MaxRenders, NextChunk(g)
  PROVE  PageInOrder'
<1>. DEFINE r == render[g]
            n == r.next
<1>0. PageTyped /\ g = generation /\ g > 0 /\ r \in RenderState
  BY DEF PageInOrder, NextChunk, IsCurrent, PageTyped
<1>1. r.at \in {"viewing", "filtering"} /\ Filling(g)
  BY <1>0 DEF PageInOrder, LatestInOrder, NextChunk
<1>2. /\ UNCHANGED <<chosen, filter, loaded, generation, interrupted>>
      /\ table' = Append(table, <<loaded, filter, n>>)
  BY <1>1 DEF NextChunk, Filling
<1>3. loaded \in Shown /\ Chunks[loaded][filter] \in Nat /\ n \in 2 .. Chunks[loaded][filter]
      /\ Finished(loaded, filter) = Chunks[loaded][filter]
  BY <1>0, <1>1, PageAssumption DEF Filling, PageTyped, Finished
<1>4. table' = FirstChunks(loaded, filter, n)
  <2>1. n - 1 \in Nat /\ (n - 1) + 1 = n /\ table = FirstChunks(loaded, filter, n - 1)
    BY <1>1, <1>3 DEF Filling
  <2>. QED  BY <1>2, <2>1, FirstChunksFacts
<1>5. (\E m \in 0 .. Finished(loaded, filter) : table = FirstChunks(loaded, filter, m))'
  BY <1>2, <1>3, <1>4 DEF Finished
<1>6. CASE n = Chunks[loaded][filter]
  <2>1. /\ render' = [render EXCEPT ![g] = Done]
        /\ spinner' = (spinner /\ ~(r.at = "viewing"))
    BY <1>1, <1>6 DEF NextChunk, Filling
  <2>2. \A h \in 1 .. MaxRenders : render'[h] = IF h = g THEN Done ELSE render[h]
    BY <1>0, <2>1 DEF PageTyped
  <2>3. PageTyped'
    BY <1>0, <1>2, <2>1, DoneState DEF PageTyped
  <2>4. Settled'
    BY <1>1, <1>2, <1>3, <1>4, <1>6, <2>1 DEF Settled, Filling, Finished
  <2>5. \A h \in 1 .. MaxRenders : h > generation' => render'[h].at = "done"
    BY <1>2, <2>2, DoneState DEF PageInOrder
  <2>. QED  BY <1>0, <1>2, <1>5, <2>2, <2>3, <2>4, <2>5, DoneState DEF PageInOrder, LatestInOrder
<1>7. CASE n # Chunks[loaded][filter]
  <2>1. /\ render' = [render EXCEPT ![g] = [r EXCEPT !.next = n + 1]]
        /\ spinner' = spinner
    <3>1. n # Chunks[render[g].account][render[g].filter]
      BY <1>1, <1>7 DEF Filling
    <3>2. render' = [render EXCEPT ![g] = [render[g] EXCEPT !.next = @ + 1]]
      BY <3>1 DEF NextChunk
    <3>3. spinner' = (spinner /\ ~(FALSE /\ r.at = "viewing"))
      BY <3>1 DEF NextChunk
    <3>4. g \in DOMAIN render
      BY <1>0 DEF PageTyped
    <3>. QED  BY <1>0, <3>2, <3>3, <3>4 DEF PageTyped
  <2>2. /\ render'[g] = [r EXCEPT !.next = n + 1]
        /\ \A h \in 1 .. MaxRenders : h # g => render'[h] = render[h]
    BY <1>0, <2>1 DEF PageTyped
  <2>3. /\ render'[g] \in RenderState /\ render'[g].next = n + 1
        /\ render'[g].at = r.at /\ render'[g].account = r.account /\ render'[g].filter = r.filter
    BY <1>0, <2>2 DEF RenderState
  <2>4. PageTyped'
    BY <1>0, <1>2, <2>1, <2>3 DEF PageTyped
  <2>5. n + 1 \in 2 .. Chunks[loaded][filter] /\ (n + 1) - 1 = n
    BY <1>3, <1>7
  <2>6. Filling(g)'
    BY <1>1, <1>2, <1>4, <2>1, <2>3, <2>5 DEF Filling
  <2>7. \A h \in 1 .. MaxRenders : h > generation' => render'[h].at = "done"
    BY <1>0, <1>2, <2>2 DEF PageInOrder
  <2>. QED  BY <1>0, <1>1, <1>2, <1>5, <2>3, <2>4, <2>6, <2>7 DEF PageInOrder, LatestInOrder
<1>. QED  BY <1>6, <1>7

\* Every step of the page keeps it in order.
LEMMA PageStep == PageInOrder /\ [PageNext]_pageVars => PageInOrder'
<1>. SUFFICES ASSUME PageInOrder, [PageNext]_pageVars PROVE PageInOrder'
  OBVIOUS
<1>1. CASE UNCHANGED pageVars
  BY <1>1 DEF pageVars, PageInOrder, PageTyped, LatestInOrder, Loading, Filling, Settled, Finished
<1>2. ASSUME NEW g \in 1 .. MaxRenders, Abort(g) PROVE PageInOrder'
  BY <1>2, OtherEnds DEF Abort, IsCurrent
<1>. QED
  BY <1>1, <1>2, ChooseAccountStep, ChooseFilterStep, RecordsReadStep, LoadFailsStep, LoadsStep,
     NextChunkStep DEF PageNext

\* However the two selects are used while renders are under way, the rows are the beginning
\* of one account's transactions under the filter shown, and all of the chosen account's
\* once nothing is under way, for any number of accounts, filters, chunks and renders.
THEOREM RowsAreOfTheChosen == PageSpec => []ShownIsChosen
<1>1. ASSUME PageInOrder PROVE ShownIsChosen
  <2>1. /\ loaded \in Shown \cup {NoAccount} /\ filter \in Filter
        /\ generation \in 0 .. MaxRenders /\ MaxRenders \in Nat
    BY <1>1, PageAssumption DEF PageInOrder, PageTyped
  <2>. DEFINE m == Finished(loaded, filter)
  <2>2. m \in Nat /\ Listing(loaded, filter) = FirstChunks(loaded, filter, m)
    BY <2>1, FinishedType
  <2>3. Len(Listing(loaded, filter)) = m
    BY <2>2, FirstChunksFacts
  <2>4. \E n \in 0 .. Len(Listing(loaded, filter)) : table = SubSeq(Listing(loaded, filter), 1, n)
    <3>1. PICK n \in 0 .. m : table = FirstChunks(loaded, filter, n)
      BY <1>1 DEF PageInOrder
    <3>2. SubSeq(Listing(loaded, filter), 1, n) = FirstChunks(loaded, filter, n)
      BY <2>2, FirstChunksFacts
    <3>. QED  BY <2>3, <3>1, <3>2
  <2>5. Under = {} => Settled
    <3>1. generation > 0 => generation \in 1 .. generation
      BY <2>1
    <3>. QED  BY <1>1, <2>1, <3>1 DEF Under, PageInOrder, LatestInOrder
  <2>. QED  BY <2>2, <2>4, <2>5 DEF Settled, ShownIsChosen
<1>. QED  BY <1>1, PageInitInOrder, PageStep, PTL DEF PageSpec

---------------------------------------------------------------------------
(* The year report page. *)

Entry == Token \cup UNION OldLists
List == [excluded : SUBSET Entry, kept : SUBSET Token]
Renders == {"computing", "collecting", "rows"}
Changes == {"read", "write", "reread"}
TableRender == [at : Renders, report : Report, left : SUBSET Token, next : Nat]
ListChange(change, ofs) ==
  [at : {"read"}, change : {change}, of : ofs]
    \cup [at : {"write"}, change : {change}, of : ofs, new : List]
ListTask ==
  ListChange("exclude", Token) \cup ListChange("include", Entry) \cup ListChange("auto", SUBSET NoMarket)
    \cup [at : {"reread"}]
Wishes == {"nothing", "in", "out", "back"}
AnyTask == {IdleTask} \cup TableRender \cup ListTask

ReportTyped ==
  /\ file \in List /\ exclusions \in List /\ asked \in Report
  /\ task \in [Task -> AnyTask]
  /\ rendersMet \in BOOLEAN /\ failed \in BOOLEAN /\ raced \in BOOLEAN
  /\ wish \in [Token -> Wishes]

\* What is left out, whether or not the tokens without a market are on the list already.
LeftWithNoMarket(list) == LeftOut(list) \cup NoMarket

\* A change that no other overlaps is one of the file it has read, and what the user asked for.
ChangeHolds(k) ==
  LET t == task[k] IN
  /\ t.at = "write" => t.new = Changed(file, t)
  /\ t.at # "reread" /\ t.change = "exclude" => wish[t.of] = "out" /\ ~IsExcluded(file, t.of)
  /\ t.at # "reread" /\ t.change = "include" /\ t.of \in Token => wish[t.of] = "in"
  /\ t.at # "reread" /\ t.change = "include" =>
       \A c \in Token \ NoMarket : t.of = SymbolOf[c] /\ wish[c] = "back" => c \notin file.excluded

\* The tokens a change is about to bring in line with what the user asked.
Concerns(t, c) == t.change # "auto" /\ (t.of = c \/ (t.of = SymbolOf[c] /\ wish[c] = "back"))

Pending(c) ==
  \E k \in Changing : task[k].at # "reread" /\ Concerns(task[k], c)

WishKept(c) ==
  /\ wish[c] = "in" => c \notin file.excluded /\ c \in file.kept
  /\ wish[c] = "out" => c \in file.excluded
  /\ wish[c] = "back" => c \in NoMarket \/ ~IsExcluded(file, c)

ListInOrder ==
  /\ \A j, k \in Changing : j = k
  /\ (\A k \in Changing : task[k].at # "reread") => exclusions = file
  /\ LeftWithNoMarket(exclusions) = LeftWithNoMarket(file)
  /\ \A k \in Changing : ChangeHolds(k)
  /\ \A c \in Token : Pending(c) \/ WishKept(c)

\* The first n rows of a report.
Rows(r, left, n) == [i \in 1 .. n |-> Row(r, left, i)]

LeftFits(left) ==
  asked \in Combined /\ ~raced => left \cup NoMarket = LeftWithNoMarket(exclusions)

ColumnsFit == columns = IF asked \in Combined THEN "all" ELSE "token"

\* How far a render has come that is the only one.
RenderHolds(k) ==
  LET t == task[k] IN
  /\ t.report = asked /\ LeftFits(t.left)
  /\ t.at \in {"computing", "collecting"} => t.next = 1
  /\ t.at = "computing" => asked \notin Combined /\ columns = "token"
  /\ t.at = "collecting" => asked \in Combined /\ reportTable = <<>>
  /\ t.at = "rows" => /\ t.next \in 1 .. Days /\ ColumnsFit
                      /\ reportTable = Rows(asked, t.left, t.next - 1)

ShowsAsked ==
  \/ reportTable = <<>>
  \/ reportTable = <<Message(asked)>>
  \/ /\ \E left \in SUBSET Token : reportTable = Rows(asked, left, Days) /\ LeftFits(left)
     /\ ColumnsFit /\ totals = <<asked, Days>>

TableInOrder ==
  /\ \A j, k \in Rendering : j = k
  /\ ~failed => /\ \A k \in Rendering : RenderHolds(k)
                /\ Rendering = {} => ShowsAsked

ReportInOrder ==
  /\ ReportTyped
  /\ ~raced => ListInOrder
  /\ ~rendersMet => TableInOrder

---------------------------------------------------------------------------
(* Tasks and lists. *)

\* What can be told of a task from where it stands.
LEMMA TaskFacts ==
  ASSUME NEW t \in AnyTask
  PROVE  /\ t \in TableRender <=> t.at \in Renders
         /\ t \in ListTask <=> t.at \in Changes
         /\ t.at = "idle" <=> t = IdleTask
         /\ t.at \in {"read", "write"} =>
              /\ t.change \in {"exclude", "include", "auto"}
              /\ t.change = "exclude" => t.of \in Token
              /\ t.change = "include" => t.of \in Entry
              /\ t.change = "auto" => t.of \in SUBSET NoMarket
         /\ t.at = "write" => t.new \in List
BY DEF AnyTask, IdleTask, TableRender, ListTask, ListChange, Renders, Changes

\* Rendering and Changing, by the places a task can stand at; no place is of both.
LEMMA TasksByPlace ==
  /\ Rendering = {k \in Task : task[k].at \in Renders}
  /\ Changing = {k \in Task : task[k].at \in Changes}
  /\ IdleTask \in AnyTask /\ IdleTask.at = "idle"
  /\ Renders \cap Changes = {} /\ "idle" \notin Renders \cup Changes
BY DEF Rendering, Changing, Renders, Changes, AnyTask, IdleTask

\* Of the other tasks a step changes nothing.
LEMMA TasksAfter ==
  ASSUME ReportTyped, NEW k \in Task, NEW x \in AnyTask, task' = [task EXCEPT ![k] = x]
  PROVE  /\ task' \in [Task -> AnyTask]
         /\ task'[k] = x
         /\ \A j \in Task : j # k => task'[j] = task[j]
         /\ k \in Rendering' <=> x.at \in Renders
         /\ k \in Changing' <=> x.at \in Changes
         /\ Rendering' \ {k} = Rendering \ {k}
         /\ Changing' \ {k} = Changing \ {k}
         /\ k \notin Rendering /\ x.at \notin Renders => Rendering' = Rendering
         /\ k \notin Changing /\ x.at \notin Changes => Changing' = Changing
<1>1. /\ task' \in [Task -> AnyTask] /\ task'[k] = x
      /\ \A j \in Task : j # k => task'[j] = task[j]
  BY DEF ReportTyped
<1>2. /\ k \in Rendering' <=> x.at \in Renders
      /\ k \in Changing' <=> x.at \in Changes
      /\ Rendering' \ {k} = Rendering \ {k}
      /\ Changing' \ {k} = Changing \ {k}
  BY <1>1 DEF Rendering, Changing, Renders, Changes
<1>3. \A A, B : A \ {k} = B \ {k} /\ k \notin A /\ k \notin B => A = B
  OBVIOUS
<1>. QED  BY <1>1, <1>2, <1>3

\* Each change of a list of tokens makes a list of tokens.
LEMMA ChangeTypes ==
  ASSUME NEW list \in List
  PROVE  /\ LeftOut(list) \in SUBSET Token
         /\ \A c \in Token : WithExcluded(list, c) \in List
         /\ \A e \in Entry : WithIncluded(list, e) \in List
         /\ \A cs \in SUBSET NoMarket :
              [list EXCEPT !.excluded = list.excluded \cup Addable(list, cs)] \in List
<1>1. LeftOut(list) \in SUBSET Token
  BY DEF LeftOut
<1>2. \A c \in Token : WithExcluded(list, c) \in List
  BY DEF WithExcluded, List, Entry
<1>3. \A e \in Entry : WithIncluded(list, e) \in List
  BY DEF WithIncluded, List, Entry
<1>4. ASSUME NEW cs \in SUBSET NoMarket
      PROVE  [list EXCEPT !.excluded = list.excluded \cup Addable(list, cs)] \in List
  <2>1. Addable(list, cs) \in SUBSET Entry
    BY ReportAssumption DEF Addable, Entry
  <2>. QED  BY <2>1 DEF List
<1>. QED  BY <1>1, <1>2, <1>3, <1>4

\* So does whichever a task makes.
LEMMA ChangedType ==
  ASSUME NEW list \in List, NEW t \in AnyTask, t.at \in {"read", "write"}
  PROVE  Changed(list, t) \in List
BY TaskFacts, ChangeTypes DEF Changed

\* Tokens without a market that get on the list leave out no other.
LEMMA NoMarketAdds ==
  ASSUME NEW list \in List, NEW cs \in SUBSET NoMarket,
         NEW new, new = [list EXCEPT !.excluded = list.excluded \cup Addable(list, cs)]
  PROVE  LeftWithNoMarket(new) = LeftWithNoMarket(list)
<1>1. new.excluded = list.excluded \cup Addable(list, cs)
  BY DEF List
<1>2. Addable(list, cs) \subseteq NoMarket /\ NoMarket \subseteq Token
  BY ReportAssumption DEF Addable
<1>3. \A c \in Token : SymbolOf[c] \notin Addable(list, cs)
  BY <1>2, ReportAssumption
<1>4. \A c \in Token \ NoMarket : IsExcluded(new, c) <=> IsExcluded(list, c)
  BY <1>1, <1>2, <1>3 DEF IsExcluded
<1>. QED  BY <1>4 DEF LeftWithNoMarket, LeftOut

\* Rows are appended one at a time.
LEMMA RowsFacts ==
  ASSUME NEW r, NEW left, NEW m \in Nat
  PROVE  /\ Rows(r, left, 0) = <<>>
         /\ Append(Rows(r, left, m), Row(r, left, m + 1)) = Rows(r, left, m + 1)
<1>. DEFINE S == {Row(r, left, i) : i \in Nat}
<1>1. \A n \in Nat : Rows(r, left, n) \in Seq(S) /\ Len(Rows(r, left, n)) = n
  BY DEF Rows
<1>2. Rows(r, left, 0) = <<>>
  BY <1>1, EmptySeq
<1>3. Append(Rows(r, left, m), Row(r, left, m + 1)) = Rows(r, left, m + 1)
  BY <1>1 DEF Rows
<1>. QED  BY <1>2, <1>3

---------------------------------------------------------------------------
(* The steps. *)

\* An empty page with the list as an older build may have left it.
LEMMA ReportInitInOrder == ReportInit => ReportInOrder
<1>. SUFFICES ASSUME ReportInit PROVE ReportInOrder
  OBVIOUS
<1>1. \A k \in Task : task[k] = IdleTask
  BY DEF ReportInit
<1>2. Rendering = {} /\ Changing = {}
  BY <1>1, TasksByPlace
<1>3. ReportTyped
  <2>1. file \in List
    BY DEF ReportInit, List, Entry
  <2>2. task \in [Task -> AnyTask]
    BY TasksByPlace DEF ReportInit
  <2>. QED  BY <2>1, <2>2 DEF ReportInit, ReportTyped, Wishes
<1>4. ListInOrder
  BY <1>2 DEF ReportInit, ListInOrder, WishKept
<1>5. TableInOrder
  BY <1>2 DEF ReportInit, TableInOrder, ShowsAsked
<1>. QED  BY <1>3, <1>4, <1>5 DEF ReportInOrder

\* A step that begins or ends no change, and none of whose writes is of the list.
LEMMA ListUntouched ==
  ASSUME ReportTyped, ListInOrder, NEW k \in Task, NEW x \in AnyTask,
         task' = [task EXCEPT ![k] = x], k \notin Changing, x.at \notin Changes,
         UNCHANGED <<file, exclusions, wish>>
  PROVE  ListInOrder'
<1>1. /\ \A j \in Task : j # k => task'[j] = task[j]
      /\ Changing' = Changing
  BY TasksAfter
<1>2. \A j \in Changing : j \in Task /\ j # k /\ task'[j] = task[j]
  BY <1>1 DEF Changing
<1>3. \A j \in Changing : ChangeHolds(j) => ChangeHolds(j)'
  BY <1>2 DEF ChangeHolds
<1>4. \A c \in Token : Pending(c) => Pending(c)'
  BY <1>1, <1>2 DEF Pending, Concerns
<1>5. \A c \in Token : WishKept(c) => WishKept(c)'
  BY DEF WishKept
<1>. QED  BY <1>1, <1>2, <1>3, <1>4, <1>5 DEF ListInOrder, LeftWithNoMarket, LeftOut, IsExcluded

\* A step of no render, that leaves the table alone.
LEMMA TableUntouched ==
  ASSUME ReportTyped, TableInOrder, NEW k \in Task, NEW x \in AnyTask,
         task' = [task EXCEPT ![k] = x], k \notin Rendering, x.at \notin Renders,
         UNCHANGED <<asked, reportTable, columns, totals, failed>>,
         \A left : LeftFits(left) => LeftFits(left)'
  PROVE  TableInOrder'
<1>1. /\ \A j \in Task : j # k => task'[j] = task[j]
      /\ Rendering' = Rendering
  BY TasksAfter
<1>2. \A j \in Rendering : j \in Task /\ j # k /\ task'[j] = task[j]
  BY <1>1 DEF Rendering
<1>3. ColumnsFit => ColumnsFit'
  BY DEF ColumnsFit
<1>4. ASSUME NEW j \in Rendering, RenderHolds(j) PROVE RenderHolds(j)'
  BY <1>2, <1>3, <1>4 DEF RenderHolds
<1>5. ShowsAsked => ShowsAsked'
  BY <1>3 DEF ShowsAsked
<1>. QED  BY <1>1, <1>4, <1>5 DEF TableInOrder

\* A render begins.
LEMMA RenderBegins ==
  ASSUME ReportTyped, ~rendersMet => TableInOrder, NEW k \in Task, k \notin Rendering,
         NEW r \in Report, StartsRender(k, r), asked' = r, exclusions' \in List
  PROVE  /\ \E x \in AnyTask : x.at \notin Changes /\ task' = [task EXCEPT ![k] = x]
         /\ rendersMet' \in BOOLEAN /\ failed' \in BOOLEAN
         /\ ~rendersMet' => TableInOrder'
<1>0. PICK out \in SUBSET Token : out = LeftOut(exclusions')
  BY ChangeTypes
<1>. DEFINE Begun(at) == [at |-> at, report |-> r, left |-> out, next |-> 1]
<1>1. \A at \in Renders : Begun(at) \in TableRender /\ Begun(at) \in AnyTask /\ Begun(at).at = at
  BY DEF TableRender, AnyTask
<1>2. Renders \cap Changes = {} /\ "computing" \in Renders /\ "collecting" \in Renders
  BY DEF Renders, Changes
<1>3. rendersMet' = (Rendering \ {k} # {}) /\ failed' = (failed /\ Rendering \ {k} # {})
  BY DEF StartsRender
<1>4. \/ task' = [task EXCEPT ![k] = IdleTask] /\ reportTable' = <<Message(r)>>
      \/ /\ task' = [task EXCEPT ![k] = Begun("collecting")] /\ r \in Combined
         /\ reportTable' = <<>>
      \/ /\ task' = [task EXCEPT ![k] = Begun("computing")] /\ r \notin Combined
         /\ columns' = "token"
  BY <1>0 DEF StartsRender, RenderTask
<1>5. \E x \in AnyTask : x.at \notin Changes /\ task' = [task EXCEPT ![k] = x]
  BY <1>1, <1>2, <1>4, TasksByPlace
<1>6. ASSUME ~rendersMet' PROVE TableInOrder'
  <2>1. Rendering = {}
    BY <1>3, <1>6
  <2>2. Rendering' \subseteq {k}
    BY <1>5, <2>1, TasksAfter
  <2>3. LeftFits(out)'
    BY <1>0 DEF LeftFits, LeftWithNoMarket, LeftOut, IsExcluded
  <2>4. CASE task' = [task EXCEPT ![k] = IdleTask] /\ reportTable' = <<Message(r)>>
    <3>1. IdleTask \in AnyTask /\ IdleTask.at \notin Renders
      BY TasksByPlace
    <3>2. k \notin Rendering'
      BY <2>4, <3>1, TasksAfter
    <3>3. Rendering' = {}
      BY <2>2, <3>2
    <3>. QED  BY <2>4, <3>3 DEF TableInOrder, ShowsAsked
  <2>5. ASSUME NEW at \in {"collecting", "computing"}, task' = [task EXCEPT ![k] = Begun(at)],
               at = "collecting" => r \in Combined /\ reportTable' = <<>>,
               at = "computing" => r \notin Combined /\ columns' = "token"
        PROVE  TableInOrder'
    <3>0. PICK x \in AnyTask : x = Begun(at) /\ x.at \in Renders
      BY <1>1, <1>2
    <3>1. task'[k] = Begun(at) /\ k \in Rendering'
      BY <2>5, <3>0, TasksAfter
    <3>2. RenderHolds(k)'
      BY <2>3, <2>5, <3>1 DEF RenderHolds
    <3>. QED  BY <2>2, <3>1, <3>2 DEF TableInOrder
  <2>. QED  BY <1>4, <2>4, <2>5
<1>. QED  BY <1>3, <1>5, <1>6

\* A new choice begins a render, and may meet one that is under way.
LEMMA ChooseStep ==
  ASSUME ReportInOrder, NEW k \in Task, NEW r \in Report, Choose(k, r)
  PROVE  ReportInOrder'
<1>1. /\ StartsRender(k, r) /\ asked' = r /\ task[k].at = "idle"
      /\ UNCHANGED <<file, exclusions, wish, raced>>
  BY DEF Choose, Begins
<1>2. k \notin Rendering /\ k \notin Changing
  BY <1>1, TasksByPlace
<1>3. ReportTyped /\ (~rendersMet => TableInOrder) /\ (~raced => ListInOrder)
  BY DEF ReportInOrder
<1>4. exclusions' \in List
  BY <1>1, <1>3 DEF ReportTyped
<1>5. /\ \E x \in AnyTask : x.at \notin Changes /\ task' = [task EXCEPT ![k] = x]
      /\ rendersMet' \in BOOLEAN /\ failed' \in BOOLEAN
      /\ ~rendersMet' => TableInOrder'
  BY <1>1, <1>2, <1>3, <1>4, RenderBegins
<1>6. PICK x \in AnyTask : x.at \notin Changes /\ task' = [task EXCEPT ![k] = x]
  BY <1>5
<1>7. ~raced => ListInOrder'
  BY <1>1, <1>2, <1>3, <1>6, ListUntouched
<1>8. ReportTyped'
  BY <1>1, <1>3, <1>5, <1>6, TasksAfter DEF ReportTyped
<1>. QED  BY <1>1, <1>5, <1>7, <1>8 DEF ReportInOrder

\* A step of a render that is under way: when it is the only one, what it draws decides.
LEMMA RenderGoesOn ==
  ASSUME ReportInOrder, NEW k \in Rendering, NEW x \in AnyTask,
         task' = [task EXCEPT ![k] = x], x.at \notin Changes,
         UNCHANGED <<file, exclusions, asked, rendersMet, wish, raced>>,
         failed' \in BOOLEAN, ~failed' => ~failed,
         ~rendersMet /\ ~failed' /\ RenderHolds(k) =>
           IF x.at \in Renders THEN RenderHolds(k)' ELSE ShowsAsked'
  PROVE  ReportInOrder'
<1>1. k \in Task /\ k \notin Changing
  BY TasksByPlace
<1>2. ReportTyped
  BY DEF ReportInOrder
<1>3. ReportTyped'
  BY <1>1, <1>2, TasksAfter DEF ReportTyped
<1>4. ~raced => ListInOrder'
  BY <1>1, <1>2, ListUntouched DEF ReportInOrder
<1>5. ASSUME ~rendersMet PROVE TableInOrder'
  <2>1. Rendering = {k} /\ (~failed => RenderHolds(k))
    BY <1>5 DEF ReportInOrder, TableInOrder
  <2>2. Rendering' \subseteq {k} /\ (k \in Rendering' <=> x.at \in Renders)
    BY <1>1, <1>2, <2>1, TasksAfter
  <2>. QED  BY <1>5, <2>1, <2>2 DEF TableInOrder
<1>. QED  BY <1>3, <1>4, <1>5 DEF ReportInOrder

\* The report of one token clears the table once it is computed.
LEMMA ComputedStep ==
  ASSUME ReportInOrder, NEW k \in Task, Computed(k)
  PROVE  ReportInOrder'
<1>0. PICK x : x = [task[k] EXCEPT !.at = "rows"]
  OBVIOUS
<1>1. /\ task[k].at = "computing" /\ task' = [task EXCEPT ![k] = x] /\ reportTable' = <<>>
      /\ UNCHANGED <<file, exclusions, asked, columns, totals, rendersMet, failed, wish, raced>>
  BY <1>0 DEF Computed, Cleared
<1>2. k \in Rendering /\ task[k] \in TableRender /\ ReportTyped
  BY <1>1, TaskFacts DEF Rendering, ReportInOrder, ReportTyped, Renders
<1>3. /\ x \in TableRender /\ x.at = "rows"
      /\ x.report = task[k].report /\ x.left = task[k].left /\ x.next = task[k].next
  BY <1>0, <1>2 DEF TableRender, Renders
<1>4. x \in AnyTask /\ x.at \notin Changes /\ x.at \in Renders
  BY <1>3 DEF AnyTask, Renders, Changes
<1>5. task'[k] = x
  BY <1>1, <1>2, <1>4, TasksAfter
<1>6. ASSUME RenderHolds(k) PROVE RenderHolds(k)'
  <2>1. /\ task[k].report = asked /\ LeftFits(task[k].left) /\ task[k].next = 1
        /\ asked \notin Combined /\ columns = "token"
    BY <1>1, <1>6 DEF RenderHolds
  <2>2. LeftFits(x.left)' /\ ColumnsFit' /\ 1 \in 1 .. Days
    BY <1>1, <2>1, ReportAssumption DEF LeftFits, ColumnsFit
  <2>3. reportTable' = Rows(asked, x.left, 1 - 1)
    BY <1>1, RowsFacts
  <2>. QED  BY <1>1, <1>3, <1>5, <2>1, <2>2, <2>3 DEF RenderHolds
<1>7. failed' \in BOOLEAN
  BY <1>1, <1>2 DEF ReportTyped
<1>. QED  BY <1>1, <1>2, <1>4, <1>6, <1>7, RenderGoesOn

\* A combined report sets its titles over the table it had cleared.
LEMMA CollectedStep ==
  ASSUME ReportInOrder, NEW k \in Task, Collected(k)
  PROVE  ReportInOrder'
<1>0. PICK x : x = [task[k] EXCEPT !.at = "rows"]
  OBVIOUS
<1>1. /\ task[k].at = "collecting" /\ task' = [task EXCEPT ![k] = x] /\ columns' = "all"
      /\ UNCHANGED <<file, exclusions, asked, reportTable, totals, rendersMet, failed, wish, raced>>
  BY <1>0 DEF Collected
<1>2. k \in Rendering /\ task[k] \in TableRender /\ ReportTyped
  BY <1>1, TaskFacts DEF Rendering, ReportInOrder, ReportTyped, Renders
<1>3. /\ x \in TableRender /\ x.at = "rows"
      /\ x.report = task[k].report /\ x.left = task[k].left /\ x.next = task[k].next
  BY <1>0, <1>2 DEF TableRender, Renders
<1>4. x \in AnyTask /\ x.at \notin Changes /\ x.at \in Renders
  BY <1>3 DEF AnyTask, Renders, Changes
<1>5. task'[k] = x
  BY <1>1, <1>2, <1>4, TasksAfter
<1>6. ASSUME RenderHolds(k) PROVE RenderHolds(k)'
  <2>1. /\ task[k].report = asked /\ LeftFits(task[k].left) /\ task[k].next = 1
        /\ asked \in Combined /\ reportTable = <<>>
    BY <1>1, <1>6 DEF RenderHolds
  <2>2. LeftFits(x.left)' /\ ColumnsFit' /\ 1 \in 1 .. Days
    BY <1>1, <1>3, <2>1, ReportAssumption DEF LeftFits, ColumnsFit
  <2>3. reportTable' = Rows(asked, x.left, 1 - 1)
    BY <1>1, <2>1, RowsFacts
  <2>. QED  BY <1>1, <1>3, <1>5, <2>1, <2>2, <2>3 DEF RenderHolds
<1>7. failed' \in BOOLEAN
  BY <1>1, <1>2 DEF ReportTyped
<1>. QED  BY <1>1, <1>2, <1>4, <1>6, <1>7, RenderGoesOn

\* A render that fails says so, whatever it leaves in the table.
LEMMA RenderFailsStep ==
  ASSUME ReportInOrder, NEW k \in Task, RenderFails(k)
  PROVE  ReportInOrder'
<1>1. /\ k \in Rendering /\ task' = [task EXCEPT ![k] = IdleTask] /\ failed' = TRUE
      /\ UNCHANGED <<file, exclusions, asked, reportTable, columns, totals, rendersMet, wish, raced>>
  BY DEF RenderFails
<1>. QED  BY <1>1, TasksByPlace, RenderGoesOn

\* A change of the list begins: nothing is known of it when another is under way.
LEMMA ChangeBegins ==
  ASSUME ReportTyped, ~raced => ListInOrder, NEW k \in Task, k \notin Changing, NEW x \in AnyTask,
         task' = [task EXCEPT ![k] = x], x.at = "read", raced' = MeetsChange(k),
         UNCHANGED <<file, exclusions>>,
         ListInOrder /\ exclusions = file =>
           /\ x.change = "exclude" => wish'[x.of] = "out" /\ ~IsExcluded(file, x.of)
           /\ x.change = "include" /\ x.of \in Token => wish'[x.of] = "in"
           /\ \A c \in Token : wish'[c] = "back" => wish[c] = "back" \/ c \notin file.excluded,
         \A c \in Token : wish'[c] = wish[c] \/ Concerns(x, c)'
  PROVE  ~raced' => ListInOrder' /\ ~raced
<1>. SUFFICES ASSUME ~raced' PROVE ListInOrder' /\ ~raced
  OBVIOUS
<1>1. ~raced /\ Changing \ {k} = {} /\ ListInOrder
  BY DEF MeetsChange
<1>2. Changing = {}
  BY <1>1
<1>3. Changing' \subseteq {k} /\ task'[k] = x /\ k \in Changing'
  BY <1>1, TasksAfter DEF Changes
<1>4. exclusions = file
  BY <1>1, <1>2 DEF ListInOrder
<1>6. \A c \in Token : WishKept(c)
  BY <1>1, <1>2 DEF ListInOrder, Pending
<1>5. ChangeHolds(k)'
  <2>1. \A c \in Token \ NoMarket : wish'[c] = "back" => c \notin file.excluded
    BY <1>1, <1>4, <1>6 DEF WishKept, IsExcluded
  <2>. QED  BY <1>1, <1>3, <1>4, <2>1 DEF ChangeHolds, IsExcluded
<1>7. ASSUME NEW c \in Token PROVE Pending(c)' \/ WishKept(c)'
  <2>1. CASE Concerns(x, c)'
    <3>1. Concerns(task[k], c)'
      BY <1>3, <2>1 DEF Concerns
    <3>. QED  BY <1>3, <3>1 DEF Pending
  <2>2. CASE wish'[c] = wish[c]
    BY <1>6, <2>2 DEF WishKept, IsExcluded
  <2>. QED  BY <2>1, <2>2
<1>. QED  BY <1>1, <1>3, <1>4, <1>5, <1>7 DEF ListInOrder, LeftWithNoMarket, LeftOut, IsExcluded

\* A row is appended; after the last the render ends, or goes on to change the list.
LEMMA NextRowStep ==
  ASSUME ReportInOrder, NEW k \in Task, NextRow(k)
  PROVE  ReportInOrder'
<1>0. PICK t : t = task[k]
  OBVIOUS
<1>1. /\ t.at = "rows"
      /\ reportTable' = Append(reportTable, Row(t.report, t.left, t.next))
      /\ UNCHANGED <<file, exclusions, asked, columns, rendersMet, failed, wish>>
  BY <1>0 DEF NextRow
<1>2. ReportTyped /\ t \in TableRender /\ k \in Rendering
  BY <1>0, <1>1, TaskFacts DEF Rendering, ReportInOrder, ReportTyped, Renders
<1>3. /\ t.report \in Report /\ t.left \in SUBSET Token /\ t.next \in Nat
  BY <1>2 DEF TableRender
<1>4. RenderHolds(k) =>
        /\ t.report = asked /\ LeftFits(t.left) /\ t.next \in 1 .. Days /\ ColumnsFit
        /\ reportTable' = Rows(asked, t.left, t.next)
  <2>. SUFFICES ASSUME RenderHolds(k)
                PROVE  /\ t.report = asked /\ LeftFits(t.left) /\ t.next \in 1 .. Days /\ ColumnsFit
                       /\ reportTable' = Rows(asked, t.left, t.next)
    OBVIOUS
  <2>1. /\ t.report = asked /\ LeftFits(t.left) /\ t.next \in 1 .. Days /\ ColumnsFit
        /\ reportTable = Rows(asked, t.left, t.next - 1)
    BY <1>0, <1>1 DEF RenderHolds
  <2>2. t.next - 1 \in Nat /\ (t.next - 1) + 1 = t.next
    BY <1>3, <2>1, ReportAssumption
  <2>. QED  BY <1>1, <2>1, <2>2, RowsFacts
<1>5. CASE t.next # Days
  <2>0. PICK x : x = [t EXCEPT !.next = t.next + 1]
    OBVIOUS
  <2>1. /\ task' = [task EXCEPT ![k] = x] /\ raced' = raced
    BY <1>0, <1>5, <2>0 DEF NextRow
  <2>2. /\ x \in TableRender /\ x.at = "rows" /\ x.report = t.report /\ x.left = t.left
        /\ x.next = t.next + 1
    BY <1>1, <1>2, <1>3, <2>0 DEF TableRender
  <2>3. x \in AnyTask /\ x.at \notin Changes /\ x.at \in Renders
    BY <2>2 DEF AnyTask, Renders, Changes
  <2>4. task'[k] = x
    BY <1>2, <2>1, <2>3, TasksAfter DEF Rendering
  <2>5. ASSUME RenderHolds(k) PROVE RenderHolds(k)'
    <3>1. LeftFits(t.left)' /\ ColumnsFit'
      BY <1>1, <1>4, <2>1, <2>5 DEF LeftFits, ColumnsFit
    <3>2. t.next + 1 \in 1 .. Days /\ (t.next + 1) - 1 = t.next
      BY <1>3, <1>4, <1>5, <2>5, ReportAssumption
    <3>. QED  BY <1>1, <1>4, <2>2, <2>4, <2>5, <3>1, <3>2 DEF RenderHolds
  <2>6. failed' \in BOOLEAN
    BY <1>1, <1>2 DEF ReportTyped
  <2>. QED  BY <1>1, <1>2, <2>1, <2>3, <2>5, <2>6, RenderGoesOn
<1>6. CASE t.next = Days
  <2>1. /\ task' = [task EXCEPT ![k] = AfterRows(k)] /\ totals' = <<t.report, Days>>
        /\ raced' = IF AfterRows(k) # IdleTask THEN MeetsChange(k) ELSE raced
    BY <1>0, <1>6 DEF NextRow
  <2>2. ShowsAsked' \/ ~RenderHolds(k)
    <3>. SUFFICES ASSUME RenderHolds(k) PROVE ShowsAsked'
      OBVIOUS
    <3>1. raced \in BOOLEAN /\ (raced => raced')
      BY <1>2, <2>1 DEF ReportTyped, MeetsChange
    <3>2. LeftFits(t.left)' /\ ColumnsFit'
      BY <1>1, <1>4, <3>1 DEF LeftFits, ColumnsFit
    <3>3. reportTable' = Rows(asked', t.left, Days) /\ totals' = <<asked', Days>>
      BY <1>1, <1>4, <1>6, <2>1
    <3>. QED  BY <1>3, <3>2, <3>3 DEF ShowsAsked
  <2>3. CASE AfterRows(k) = IdleTask
    <3>1. failed' \in BOOLEAN /\ raced' = raced
      BY <1>1, <1>2, <2>1, <2>3 DEF ReportTyped
    <3>. QED  BY <1>1, <1>2, <2>1, <2>2, <2>3, <3>1, TasksByPlace, RenderGoesOn
  <2>4. CASE AfterRows(k) # IdleTask
    <3>0. PICK x : x = [at |-> "read", change |-> "auto", of |-> NoMarket \ t.left]
      OBVIOUS
    <3>1. task' = [task EXCEPT ![k] = x] /\ raced' = MeetsChange(k)
      BY <1>0, <2>1, <2>4, <3>0 DEF AfterRows
    <3>2. x \in AnyTask /\ x.at = "read" /\ x.change = "auto"
      BY <3>0 DEF AnyTask, ListTask, ListChange
    <3>3. k \in Task /\ k \notin Changing /\ x.at \notin Renders
      BY <1>2, <3>2, TasksByPlace DEF Renders
    <3>4. ~raced' => ListInOrder'
      BY <1>1, <1>2, <3>1, <3>2, <3>3, ChangeBegins DEF ReportInOrder
    <3>5. ~rendersMet => TableInOrder'
      <4>. SUFFICES ASSUME ~rendersMet PROVE TableInOrder'
        OBVIOUS
      <4>1. Rendering = {k} /\ (~failed => RenderHolds(k))
        BY <1>2 DEF ReportInOrder, TableInOrder
      <4>2. Rendering' = {}
        <5>1. Rendering' \ {k} = {} /\ k \notin Rendering'
          BY <1>2, <3>1, <3>2, <3>3, <4>1, TasksAfter
        <5>. QED  BY <5>1
      <4>. QED  BY <1>1, <2>2, <4>1, <4>2 DEF TableInOrder
    <3>6. ReportTyped'
      <4>1. raced' \in BOOLEAN
        BY <1>2, <3>1 DEF MeetsChange, ReportTyped
      <4>. QED  BY <1>1, <1>2, <3>1, <3>2, <3>3, <4>1, TasksAfter DEF ReportTyped
    <3>. QED  BY <1>1, <3>4, <3>5, <3>6 DEF ReportInOrder
  <2>. QED  BY <2>3, <2>4
<1>. QED  BY <1>5, <1>6

\* A click on one of the buttons of the list.
LEMMA ClickStep ==
  ASSUME ReportInOrder, NEW k \in Task,
         ClickExclude(k) \/ \E shut \in exclusions.excluded : ClickInclude(k, shut)
  PROVE  ReportInOrder'
<1>0. ReportTyped /\ exclusions \in List /\ asked \in Report
  BY DEF ReportInOrder, ReportTyped
<1>1. /\ task[k].at = "idle" /\ raced' = MeetsChange(k)
      /\ UNCHANGED <<file, exclusions, asked, reportTable, columns, totals, rendersMet, failed>>
  BY DEF ClickExclude, ClickInclude, Begins
<1>. DEFINE Clicked(x) ==
        /\ task' = [task EXCEPT ![k] = x] /\ x.at = "read"
        /\ exclusions = file =>
             /\ x.change = "exclude" => wish'[x.of] = "out" /\ ~IsExcluded(file, x.of)
             /\ x.change = "include" /\ x.of \in Token => wish'[x.of] = "in"
             /\ \A c \in Token : wish'[c] = "back" => wish[c] = "back" \/ c \notin file.excluded
        /\ \A c \in Token : wish'[c] = wish[c] \/ Concerns(x, c)'
        /\ wish' \in [Token -> Wishes]
<1>2. \E x \in AnyTask : Clicked(x)
  <2>1. CASE ClickExclude(k)
    <3>0. PICK x : x = [at |-> "read", change |-> "exclude", of |-> TokenOf[asked]]
      OBVIOUS
    <3>1. TokenOf[asked] \in Token
      BY <1>0, <2>1, ReportAssumption DEF ClickExclude
    <3>2. x \in AnyTask /\ x.at = "read" /\ x.change = "exclude" /\ x.of = TokenOf[asked]
      BY <3>0, <3>1 DEF AnyTask, ListTask, ListChange
    <3>3. /\ task' = [task EXCEPT ![k] = x] /\ wish' = [wish EXCEPT ![x.of] = "out"]
          /\ ~IsExcluded(exclusions, x.of)
      BY <2>1, <3>0, <3>2 DEF ClickExclude
    <3>4. \A c \in Token : wish'[c] = wish[c] \/ c = x.of
      BY <1>0, <3>3 DEF ReportTyped
    <3>5. wish'[x.of] = "out" /\ wish' \in [Token -> Wishes]
      BY <1>0, <3>1, <3>2, <3>3 DEF ReportTyped, Wishes
    <3>. QED  BY <3>2, <3>3, <3>4, <3>5 DEF Concerns
  <2>2. ASSUME NEW shut \in exclusions.excluded, ClickInclude(k, shut)
        PROVE  \E x \in AnyTask : Clicked(x)
    <3>0. PICK x : x = [at |-> "read", change |-> "include", of |-> shut]
      OBVIOUS
    <3>1. shut \in Entry
      BY <1>0 DEF List
    <3>2. x \in AnyTask /\ x.at = "read" /\ x.change = "include" /\ x.of = shut
      BY <3>0, <3>1 DEF AnyTask, ListTask, ListChange
    <3>3. /\ task' = [task EXCEPT ![k] = x]
          /\ wish' = [c \in Token |-> Asked(shut, c)]
      BY <2>2, <3>0 DEF ClickInclude
    <3>4. ASSUME NEW c \in Token
          PROVE  /\ wish'[c] \in Wishes
                 /\ c = shut => wish'[c] = "in"
                 /\ wish'[c] = "back" => wish[c] = "back" \/ c \notin exclusions.excluded
                 /\ wish'[c] = wish[c] \/ c = shut \/ (shut = SymbolOf[c] /\ wish'[c] = "back")
      BY <1>0, <3>3 DEF Asked, ReportTyped, Wishes
    <3>5. wish' \in [Token -> Wishes]
      BY <3>3, <3>4
    <3>. QED  BY <3>2, <3>3, <3>4, <3>5 DEF Concerns
  <2>. QED  BY <2>1, <2>2
<1>3. PICK x \in AnyTask : Clicked(x)
  BY <1>2
<1>4. k \notin Rendering /\ k \notin Changing /\ x.at \notin Renders
  BY <1>1, <1>3, TasksByPlace DEF Renders
<1>5. ~raced' => ListInOrder' /\ ~raced
  BY <1>0, <1>1, <1>3, <1>4, ChangeBegins DEF ReportInOrder
<1>6. \A left : LeftFits(left) => LeftFits(left)'
  BY <1>1 DEF LeftFits, MeetsChange
<1>7. ~rendersMet => TableInOrder'
  BY <1>0, <1>1, <1>3, <1>4, <1>6, TableUntouched DEF ReportInOrder
<1>8. raced' \in BOOLEAN
  BY <1>0, <1>1 DEF MeetsChange, ReportTyped
<1>9. ReportTyped'
  BY <1>0, <1>1, <1>3, <1>8, TasksAfter DEF ReportTyped
<1>. QED  BY <1>1, <1>5, <1>7, <1>9 DEF ReportInOrder

\* A change under way goes on, or ends: nothing of the table changes.
LEMMA ChangeGoesOn ==
  ASSUME ReportInOrder, NEW k \in Changing, NEW x \in AnyTask, task' = [task EXCEPT ![k] = x],
         x.at \notin Renders, file' \in List, exclusions' \in List,
         UNCHANGED <<asked, reportTable, columns, totals, rendersMet, failed, wish, raced>>,
         \A left : LeftFits(left) => LeftFits(left)',
         ~raced /\ ListInOrder =>
           /\ exclusions' = file' \/ x.at = "reread"
           /\ LeftWithNoMarket(exclusions') = LeftWithNoMarket(file')
           /\ x.at \in Changes => ChangeHolds(k)'
           /\ \A c \in Token : WishKept(c)' \/ Pending(c)'
  PROVE  ReportInOrder'
<1>0. ReportTyped /\ k \in Task /\ k \notin Rendering
  BY TasksByPlace DEF ReportInOrder
<1>1. ReportTyped'
  BY <1>0, TasksAfter DEF ReportTyped
<1>2. ~rendersMet => TableInOrder'
  BY <1>0, TableUntouched DEF ReportInOrder
<1>3. ASSUME ~raced PROVE ListInOrder'
  <2>1. ListInOrder /\ Changing = {k}
    BY <1>3 DEF ReportInOrder, ListInOrder
  <2>2. Changing' \subseteq {k} /\ (k \in Changing' <=> x.at \in Changes) /\ task'[k] = x
    BY <1>0, <2>1, TasksAfter
  <2>3. x.at = "reread" => k \in Changing'
    BY <2>2 DEF Changes
  <2>4. \A j \in Changing' : j = k
    BY <2>2
  <2>5. (\A j \in Changing' : task'[j].at # "reread") => exclusions' = file'
    BY <1>3, <2>1, <2>2, <2>3
  <2>6. \A j \in Changing' : ChangeHolds(j)'
    <3>. SUFFICES ASSUME NEW j \in Changing' PROVE ChangeHolds(j)'
      OBVIOUS
    <3>1. j = k
      BY <2>4
    <3>. QED  BY <1>3, <2>1, <2>2, <3>1
  <2>. QED  BY <1>3, <2>1, <2>4, <2>5, <2>6 DEF ListInOrder, LeftWithNoMarket, LeftOut, IsExcluded
<1>. QED  BY <1>1, <1>2, <1>3 DEF ReportInOrder

\* A change reads the list it will write.
LEMMA ReadStep ==
  ASSUME ReportInOrder, NEW k \in Task, ReadExclusions(k)
  PROVE  ReportInOrder'
<1>0. PICK t : t = task[k]
  OBVIOUS
<1>1. /\ t.at = "read"
      /\ UNCHANGED <<file, exclusions, asked, reportTable, columns, totals, rendersMet, failed, wish, raced>>
  BY <1>0 DEF ReadExclusions
<1>2. ReportTyped /\ t \in AnyTask /\ k \in Changing /\ file \in List
  BY <1>0, <1>1 DEF ReportInOrder, ReportTyped, Changing
<1>3. /\ t.change \in {"exclude", "include", "auto"}
      /\ t.change = "exclude" => t.of \in Token
      /\ t.change = "include" => t.of \in Entry
      /\ t.change = "auto" => t.of \in SUBSET NoMarket
  BY <1>1, <1>2, TaskFacts
<1>4. \A left : LeftFits(left) => LeftFits(left)'
  BY <1>1 DEF LeftFits, LeftWithNoMarket, LeftOut, IsExcluded
<1>5. ~raced /\ ListInOrder =>
        /\ exclusions' = file' /\ LeftWithNoMarket(exclusions') = LeftWithNoMarket(file')
        /\ ChangeHolds(k)
        /\ \A c \in Token : WishKept(c)' \/ Concerns(t, c)
  <2>. SUFFICES ASSUME ~raced, ListInOrder
                PROVE  /\ exclusions' = file' /\ ChangeHolds(k)
                       /\ \A c \in Token : WishKept(c)' \/ Concerns(t, c)
    OBVIOUS
  <2>1. \A j \in Changing : j = k
    BY <1>2 DEF ListInOrder
  <2>2. exclusions' = file'
    BY <1>0, <1>1, <2>1 DEF ListInOrder
  <2>3. \A c \in Token : WishKept(c) \/ Concerns(t, c)
    BY <1>0, <2>1 DEF ListInOrder, Pending
  <2>. QED  BY <1>1, <1>2, <2>2, <2>3 DEF ListInOrder, WishKept
<1>6. CASE t.change = "auto" /\ Addable(file, t.of) = {}
  <2>1. task' = [task EXCEPT ![k] = IdleTask]
    BY <1>0, <1>6 DEF ReadExclusions
  <2>. QED  BY <1>1, <1>2, <1>4, <1>5, <1>6, <2>1, TasksByPlace, ChangeGoesOn DEF ReportTyped, Concerns
<1>7. CASE ~(t.change = "auto" /\ Addable(file, t.of) = {})
  <2>0. PICK new : new = Changed(file, t)
    OBVIOUS
  <2>1. PICK x : x = [at |-> "write", change |-> t.change, of |-> t.of, new |-> new]
    OBVIOUS
  <2>2. task' = [task EXCEPT ![k] = x]
    BY <1>0, <1>7, <2>0, <2>1 DEF ReadExclusions
  <2>3. new \in List
    BY <1>1, <1>2, <2>0, ChangedType
  <2>4. x \in AnyTask /\ x.at = "write" /\ x.change = t.change /\ x.of = t.of /\ x.new = new
    BY <1>3, <2>1, <2>3 DEF AnyTask, ListTask, ListChange
  <2>5. task'[k] = x /\ k \in Changing'
    BY <1>2, <2>2, <2>4, TasksAfter DEF Changing, Changes
  <2>6. x.new = Changed(file, x)
    BY <2>0, <2>4 DEF Changed
  <2>7. ChangeHolds(k) => ChangeHolds(k)'
    <3>1. Changed(file, x)' = Changed(file, x)
      BY <1>1
    <3>. QED  BY <1>0, <1>1, <2>4, <2>5, <2>6, <3>1 DEF ChangeHolds, IsExcluded
  <2>8. \A c \in Token : Concerns(t, c) => Pending(c)'
    <3>1. \A c \in Token : Concerns(t, c) => Concerns(task[k], c)'
      BY <1>1, <2>4, <2>5 DEF Concerns
    <3>. QED  BY <2>4, <2>5, <3>1 DEF Pending
  <2>9. x.at \notin Renders
    BY <2>4 DEF Renders
  <2>. QED  BY <1>1, <1>2, <1>4, <1>5, <2>2, <2>4, <2>7, <2>8, <2>9, ChangeGoesOn DEF ReportTyped
<1>. QED  BY <1>6, <1>7

\* What is written, when no other change meets it, keeps the wishes.
LEMMA WrittenKeepsWishes ==
  ASSUME ReportTyped, ListInOrder, NEW k \in Changing, task[k].at = "write",
         file' = task[k].new, UNCHANGED wish
  PROVE  /\ file' = Changed(file, task[k])
         /\ \A c \in Token : WishKept(c)'
<1>0. PICK t : t = task[k]
  OBVIOUS
<1>1. /\ file' = Changed(file, t)
      /\ t.change = "exclude" => wish[t.of] = "out" /\ ~IsExcluded(file, t.of)
      /\ t.change = "include" /\ t.of \in Token => wish[t.of] = "in"
      /\ t.change = "include" =>
           \A c \in Token \ NoMarket : t.of = SymbolOf[c] /\ wish[c] = "back" => c \notin file.excluded
  BY <1>0 DEF ListInOrder, ChangeHolds
<1>2. t \in AnyTask /\ file \in List
  BY <1>0, TasksByPlace DEF ReportTyped
<1>3. /\ t.change \in {"exclude", "include", "auto"}
      /\ t.change = "exclude" => t.of \in Token
      /\ t.change = "auto" => t.of \in SUBSET NoMarket
  BY <1>0, <1>2, TaskFacts
<1>4. \A c \in Token : WishKept(c) \/ Concerns(t, c)
  BY <1>0 DEF ListInOrder, Pending
<1>8. NoMarket \subseteq Token /\ \A c \in Token : SymbolOf[c] \notin Token
  BY ReportAssumption
<1>5. CASE t.change = "exclude"
  <2>1. file' = [excluded |-> file.excluded \cup {t.of}, kept |-> file.kept \ {t.of}]
    BY <1>1, <1>5 DEF Changed, WithExcluded
  <2>2. file'.excluded = file.excluded \cup {t.of} /\ file'.kept = file.kept \ {t.of}
    BY <2>1
  <2>3. ASSUME NEW c \in Token PROVE WishKept(c)'
    <3>1. c = t.of \/ WishKept(c)
      BY <1>3, <1>4, <1>5, <1>8 DEF Concerns
    <3>. QED  BY <1>1, <1>3, <1>5, <1>8, <2>2, <3>1 DEF WishKept, IsExcluded
  <2>. QED  BY <1>0, <1>1, <2>3
<1>6. CASE t.change = "include"
  <2>1. CASE t.of \in Token
    <3>1. file'.excluded = file.excluded \ {t.of} /\ file'.kept = file.kept \cup {t.of}
      BY <1>1, <1>6, <2>1 DEF Changed, WithIncluded
    <3>2. ASSUME NEW c \in Token PROVE WishKept(c)'
      <4>1. c = t.of \/ WishKept(c)
        BY <1>4, <1>8, <2>1 DEF Concerns
      <4>. QED  BY <1>1, <1>6, <1>8, <2>1, <3>1, <4>1 DEF WishKept, IsExcluded
    <3>. QED  BY <1>0, <1>1, <3>2
  <2>2. CASE t.of \notin Token
    <3>1. file'.excluded = file.excluded \cap Token /\ file'.kept = file.kept
      BY <1>1, <1>6, <2>2 DEF Changed, WithIncluded
    <3>2. ASSUME NEW c \in Token PROVE WishKept(c)'
      <4>1. WishKept(c) \/ (t.of = SymbolOf[c] /\ wish[c] = "back")
        BY <1>4, <2>2 DEF Concerns
      <4>. QED  BY <1>1, <1>6, <1>8, <3>1, <4>1 DEF WishKept, IsExcluded
    <3>. QED  BY <1>0, <1>1, <3>2
  <2>. QED  BY <2>1, <2>2
<1>7. CASE t.change = "auto"
  <2>1. file' = [file EXCEPT !.excluded = file.excluded \cup Addable(file, t.of)]
    BY <1>1, <1>7 DEF Changed
  <2>2. file'.excluded = file.excluded \cup Addable(file, t.of) /\ file'.kept = file.kept
    BY <1>2, <2>1 DEF List
  <2>3. \A c \in file.kept : c \notin Addable(file, t.of)
    BY DEF Addable
  <2>4. Addable(file, t.of) \subseteq NoMarket
    BY <1>3, <1>7 DEF Addable
  <2>5. ASSUME NEW c \in Token PROVE WishKept(c)'
    <3>1. WishKept(c)
      BY <1>4, <1>7 DEF Concerns
    <3>. QED  BY <1>8, <2>2, <2>3, <2>4, <3>1 DEF WishKept, IsExcluded
  <2>. QED  BY <1>0, <1>1, <2>5
<1>. QED  BY <1>0, <1>1, <1>3, <1>5, <1>6, <1>7

\* What the user asked for is written, and a combined report rendered anew.
LEMMA WriteStep ==
  ASSUME ReportInOrder, NEW k \in Task, WriteExclusions(k)
  PROVE  ReportInOrder'
<1>0. PICK t : t = task[k]
  OBVIOUS
<1>1. /\ t.at = "write" /\ t.change # "auto" /\ file' = t.new /\ exclusions' = t.new
      /\ UNCHANGED <<asked, totals, wish, raced>>
  BY <1>0 DEF WriteExclusions
<1>2. ReportTyped /\ t \in AnyTask /\ k \in Changing /\ t.new \in List
  BY <1>0, <1>1, TaskFacts DEF ReportInOrder, ReportTyped, Changing
<1>3. ~raced /\ ListInOrder => \A c \in Token : WishKept(c)'
  BY <1>0, <1>1, <1>2, WrittenKeepsWishes
<1>4. LeftWithNoMarket(exclusions') = LeftWithNoMarket(file')
  BY <1>1
<1>5. CASE asked \notin Combined
  <2>1. /\ task' = [task EXCEPT ![k] = IdleTask]
        /\ UNCHANGED <<reportTable, columns, rendersMet, failed>>
    BY <1>5 DEF WriteExclusions
  <2>2. \A left : LeftFits(left)'
    BY <1>1, <1>5 DEF LeftFits
  <2>. QED  BY <1>1, <1>2, <1>3, <1>4, <2>1, <2>2, TasksByPlace, ChangeGoesOn
<1>6. CASE asked \in Combined
  <2>1. StartsRender(k, asked) /\ asked' = asked
    BY <1>1, <1>6 DEF WriteExclusions
  <2>2. k \notin Rendering /\ asked \in Report /\ exclusions' \in List /\ file' \in List
    BY <1>1, <1>2, TasksByPlace DEF ReportTyped
  <2>3. /\ \E x \in AnyTask : x.at \notin Changes /\ task' = [task EXCEPT ![k] = x]
        /\ rendersMet' \in BOOLEAN /\ failed' \in BOOLEAN
        /\ ~rendersMet' => TableInOrder'
    BY <1>2, <2>1, <2>2, RenderBegins DEF ReportInOrder
  <2>4. PICK x \in AnyTask : x.at \notin Changes /\ task' = [task EXCEPT ![k] = x]
    BY <2>3
  <2>5. ReportTyped'
    BY <1>1, <1>2, <2>2, <2>3, <2>4, TasksAfter DEF ReportTyped
  <2>6. ASSUME ~raced PROVE ListInOrder'
    <3>1. ListInOrder /\ \A j \in Changing : j = k
      BY <1>2, <2>6 DEF ReportInOrder, ListInOrder
    <3>2. Changing' = {}
      <4>1. Changing' \ {k} = {} /\ k \notin Changing'
        BY <1>2, <2>4, <3>1, TasksAfter
      <4>. QED  BY <4>1
    <3>. QED  BY <1>1, <1>3, <2>6, <3>1, <3>2 DEF ListInOrder
  <2>. QED  BY <1>1, <2>3, <2>5, <2>6 DEF ReportInOrder
<1>. QED  BY <1>5, <1>6

\* Tokens without a market are added in the file before they are on the page.
LEMMA WriteNoPriceStep ==
  ASSUME ReportInOrder, NEW k \in Task, WriteNoPrice(k)
  PROVE  ReportInOrder'
<1>0. PICK t : t = task[k]
  OBVIOUS
<1>1. PICK x : x = [at |-> "reread"]
  OBVIOUS
<1>2. /\ t.at = "write" /\ t.change = "auto" /\ file' = t.new /\ task' = [task EXCEPT ![k] = x]
      /\ UNCHANGED <<exclusions, asked, reportTable, columns, totals, rendersMet, failed, wish, raced>>
  BY <1>0, <1>1 DEF WriteNoPrice
<1>3. /\ ReportTyped /\ t \in AnyTask /\ k \in Changing /\ t.new \in List
      /\ file \in List /\ t.of \in SUBSET NoMarket
  BY <1>0, <1>2, TaskFacts DEF ReportInOrder, ReportTyped, Changing
<1>4. x \in AnyTask /\ x.at = "reread" /\ x.at \notin Renders
  BY <1>1 DEF AnyTask, ListTask, Renders
<1>5. task'[k] = x
  BY <1>2, <1>3, <1>4, TasksAfter DEF Changing
<1>6. \A left : LeftFits(left) => LeftFits(left)'
  BY <1>2 DEF LeftFits, LeftWithNoMarket, LeftOut, IsExcluded
<1>7. ~raced /\ ListInOrder =>
        /\ LeftWithNoMarket(exclusions') = LeftWithNoMarket(file')
        /\ \A c \in Token : WishKept(c)'
  <2>. SUFFICES ASSUME ~raced, ListInOrder
                PROVE  /\ LeftWithNoMarket(exclusions') = LeftWithNoMarket(file')
                       /\ \A c \in Token : WishKept(c)'
    OBVIOUS
  <2>1. file' = Changed(file, t) /\ \A c \in Token : WishKept(c)'
    BY <1>0, <1>2, <1>3, WrittenKeepsWishes
  <2>2. file' = [file EXCEPT !.excluded = file.excluded \cup Addable(file, t.of)]
    BY <1>2, <2>1 DEF Changed
  <2>3. PICK new : new = file'
    OBVIOUS
  <2>4. LeftWithNoMarket(new) = LeftWithNoMarket(file)
    BY <1>3, <2>2, <2>3, NoMarketAdds
  <2>5. LeftWithNoMarket(exclusions) = LeftWithNoMarket(file)
    BY DEF ListInOrder
  <2>. QED  BY <1>2, <2>1, <2>3, <2>4, <2>5
<1>8. ChangeHolds(k)'
  BY <1>4, <1>5 DEF ChangeHolds
<1>9. exclusions' \in List
  BY <1>2, <1>3 DEF ReportTyped
<1>. QED  BY <1>2, <1>3, <1>4, <1>6, <1>7, <1>8, <1>9, ChangeGoesOn

\* The page reads them again, and leaves out no other token for it.
LEMMA ReadAgainStep ==
  ASSUME ReportInOrder, NEW k \in Task, ReadAgain(k)
  PROVE  ReportInOrder'
<1>1. /\ task[k].at = "reread" /\ exclusions' = file /\ task' = [task EXCEPT ![k] = IdleTask]
      /\ UNCHANGED <<file, asked, reportTable, columns, totals, rendersMet, failed, wish, raced>>
  BY DEF ReadAgain
<1>2. ReportTyped /\ k \in Changing /\ file \in List
  BY <1>1 DEF ReportInOrder, ReportTyped, Changing
<1>3. \A left : LeftFits(left) => LeftFits(left)'
  <2>1. ~raced => LeftWithNoMarket(exclusions) = LeftWithNoMarket(file)
    BY DEF ReportInOrder, ListInOrder
  <2>2. LeftWithNoMarket(exclusions)' = LeftWithNoMarket(file)
    BY <1>1 DEF LeftWithNoMarket, LeftOut, IsExcluded
  <2>. QED  BY <1>1, <2>1, <2>2 DEF LeftFits
<1>4. ~raced /\ ListInOrder => \A c \in Token : WishKept(c)'
  <2>. SUFFICES ASSUME ~raced, ListInOrder PROVE \A c \in Token : WishKept(c)'
    OBVIOUS
  <2>1. \A j \in Changing : j = k
    BY <1>2 DEF ListInOrder
  <2>2. \A c \in Token : WishKept(c)
    BY <1>1, <2>1 DEF ListInOrder, Pending
  <2>. QED  BY <1>1, <2>2 DEF WishKept
<1>5. LeftWithNoMarket(exclusions') = LeftWithNoMarket(file')
  BY <1>1
<1>. QED  BY <1>1, <1>2, <1>3, <1>4, <1>5, TasksByPlace, ChangeGoesOn

\* Every step of the page keeps it in order.
LEMMA ReportStep == ReportInOrder /\ [ReportNext]_reportVars => ReportInOrder'
<1>. SUFFICES ASSUME ReportInOrder, [ReportNext]_reportVars PROVE ReportInOrder'
  OBVIOUS
<1>1. CASE UNCHANGED reportVars
  BY <1>1 DEF reportVars, ReportInOrder, ReportTyped, ListInOrder, TableInOrder, Rendering, Changing,
              ChangeHolds, Pending, Concerns, WishKept, LeftWithNoMarket, LeftOut, IsExcluded, RenderHolds,
              ShowsAsked, LeftFits, ColumnsFit
<1>2. CASE ReportNext
  <2>1. PICK k \in Task :
          \/ \E r \in Report : Choose(k, r)
          \/ ClickExclude(k)
          \/ \E shut \in exclusions.excluded : ClickInclude(k, shut)
          \/ Computed(k) \/ Collected(k) \/ NextRow(k) \/ RenderFails(k)
          \/ ReadExclusions(k) \/ WriteExclusions(k) \/ WriteNoPrice(k) \/ ReadAgain(k)
    BY <1>2 DEF ReportNext
  <2>. QED
    BY <2>1, ChooseStep, ClickStep, ComputedStep, CollectedStep, NextRowStep, RenderFailsStep,
       ReadStep, WriteStep, WriteNoPriceStep, ReadAgainStep
<1>. QED  BY <1>1, <1>2

\* Whatever the order of the choices of a report, of the rows of the renders they begin, and
\* of the changes of the list of tokens left out: once nothing is under way, and the last
\* render met no other and did not fail, the table has each day of the chosen report once, under
\* its titles and totals, and without the tokens that the list leaves out.
THEOREM RowsAreOfTheReport == ReportSpec => []ReportIsChosen
<1>1. ReportInOrder => ReportIsChosen
  <2>. SUFFICES ASSUME ReportInOrder, Quiet, ~rendersMet, ~failed,
                       reportTable # <<>>, reportTable # <<Message(asked)>>
                PROVE  /\ \E left \in SUBSET Token :
                            /\ reportTable = [n \in 1 .. Days |-> Row(asked, left, n)]
                            /\ asked \in Combined /\ ~raced =>
                                 left \cup NoMarket = LeftOut(exclusions) \cup NoMarket
                       /\ columns = IF asked \in Combined THEN "all" ELSE "token"
                       /\ totals = <<asked, Days>>
    BY DEF ReportIsChosen
  <2>1. Rendering = {}
    BY TasksByPlace DEF Quiet
  <2>2. ShowsAsked
    BY <2>1 DEF ReportInOrder, TableInOrder
  <2>. QED  BY <2>2 DEF ShowsAsked, Rows, LeftFits, LeftWithNoMarket, ColumnsFit
<1>. QED  BY <1>1, ReportInitInOrder, ReportStep, PTL DEF ReportSpec

\* What the user has put back is not left out again, and what the user has left out stays
\* out, by any number of reads and writes of the list, for want of a market or by other
\* choices, of which no two meet.  What was put back from an entry without a contract stays
\* in if it has a market.
THEOREM WishesAreKept == ReportSpec => []ExclusionsKept
<1>1. ReportInOrder => ExclusionsKept
  BY DEF ReportInOrder, ListInOrder, ExclusionsKept, Pending, WishKept, IsExcluded
<1>. QED  BY <1>1, ReportInitInOrder, ReportStep, PTL DEF ReportSpec

---------------------------------------------------------------------------
(* The portfolio page. *)

Period == [currency : Currency, from : From]
Selects == [currency : Currency, from : From, grain : Granularity]
Part == {"summary", "chart", "granularity", "flows", "explain"}
WorkState == [part : Part, of : Period, grain : Granularity, force : BOOLEAN, fresh : BOOLEAN,
              since : Nat, moves : Nat]
Opening(d) == [from : {d}, base : Nat]
Openings == {Nothing} \cup UNION {Opening(d) : d \in From}

PeriodOf(s) == [currency |-> s.currency, from |-> s.from]

PortfolioTyped ==
  /\ world \in Nat \ {0}
  /\ baseCache \in [Currency -> Nat]
  /\ ibCache \in [Currency -> [From -> Openings]]
  /\ \A c \in Currency, d \in From : ibCache[c][d] # Nothing => ibCache[c][d] \in Opening(d)
  /\ select \in Selects
  /\ current = Nothing \/ current = PeriodOf(select)
  /\ run \in [Run -> {IdleRun} \cup WorkState]
  /\ overlapped \in BOOLEAN /\ moved \in BOOLEAN
  /\ \A r \in AtWork : /\ current # Nothing
                       /\ run[r].force => run[r].fresh
                       /\ run[r].fresh => run[r].since \in 1 .. world

AtPart(ps) == \E r \in Run : run[r].part \in ps

\* The only run is for what the selects say, and with the base of the summary.
RunHolds(r) ==
  /\ run[r].of = current /\ run[r].grain = select.grain
  /\ run[r].fresh => run[r].since = world
  /\ ~run[r].fresh => baseCache[current.currency] # 0
  /\ run[r].part # "summary" /\ summary # Nothing =>
       /\ run[r].fresh => world = summary.base
       /\ run[r].part = "explain" => run[r].moves = summary.base

SummaryHolds ==
  /\ current # Nothing /\ summary.of = current
  /\ summary.base # 0 /\ baseCache[current.currency] = summary.base
  /\ summary.opening \in Opening(current.from)
  /\ ibCache[current.currency][current.from] = summary.opening

ChartHolds == Meets(chart) /\ (chart # Nothing => chart.grain = select.grain)

FlowsHold ==
  Meets(flows) /\ (flows # Nothing => flows.moves = flows.base /\ flows.opening = summary.opening)

\* What an undisturbed refresh has drawn so far.
Drawn ==
  /\ \A r \in AtWork : RunHolds(r)
  /\ summary # Nothing /\ ~AtPart({"summary"}) => SummaryHolds /\ ChartHolds
  /\ summary # Nothing /\ ~AtPart({"summary", "chart", "flows", "explain"}) => FlowsHold

PortfolioInOrder ==
  /\ PortfolioTyped
  /\ ~overlapped => \A r, s \in AtWork : r = s
  /\ ~overlapped /\ ~moved => Drawn

---------------------------------------------------------------------------

\* A period, an opening and a run at work are told from there being none.
LEMMA SomethingFacts ==
  /\ \A x \in Period : x # Nothing
  /\ \A d : \A x \in Opening(d) : x # Nothing /\ x.from = d
  /\ IdleRun.part = "idle" /\ \A x \in WorkState : x.part # "idle"
BY DEF Period, Nothing, Opening, IdleRun, WorkState, Part

\* The period the selects say.
LEMMA PeriodFacts ==
  ASSUME NEW s \in Selects
  PROVE  /\ PeriodOf(s) \in Period
         /\ PeriodOf(s).currency = s.currency /\ PeriodOf(s).from = s.from
BY DEF PeriodOf, Selects, Period

\* A run that begins a part computes anew if it is forced to, or nothing is cached.
LEMMA ComputingType ==
  ASSUME PortfolioTyped, NEW part \in Part, NEW of \in Period, NEW grain \in Granularity,
         NEW force \in BOOLEAN, NEW cached \in [Currency -> Nat]
  PROVE  LET c == Computing(part, of, grain, force, cached) IN
         /\ c \in WorkState
         /\ c.part = part /\ c.of = of /\ c.grain = grain /\ c.force = force
         /\ c.fresh = (force \/ cached[of.currency] = 0)
         /\ c.fresh => c.since = world
<1>. DEFINE fresh == force \/ cached[of.currency] = 0
            since == IF fresh THEN world ELSE 0
<1>1. fresh \in BOOLEAN /\ since \in Nat
  BY DEF PortfolioTyped
<1>. HIDE DEF fresh, since
<1>2. Computing(part, of, grain, force, cached) =
        [part |-> part, of |-> of, grain |-> grain, force |-> force, fresh |-> fresh,
         since |-> since, moves |-> 0]
  BY DEF Computing, fresh, since
<1>3. fresh => since = world
  BY DEF since
<1>. QED  BY <1>1, <1>2, <1>3 DEF WorkState, fresh

\* What is known of a run that is not idle.
LEMMA WorkFacts ==
  ASSUME PortfolioTyped, NEW r \in Run, run[r].part # "idle"
  PROVE  /\ r \in AtWork /\ run[r] \in WorkState
         /\ current = PeriodOf(select) /\ current \in Period
         /\ run[r].of \in Period /\ run[r].of.currency \in Currency /\ run[r].of.from \in From
         /\ run[r].grain \in Granularity /\ run[r].force \in BOOLEAN /\ run[r].fresh \in BOOLEAN
<1>1. r \in AtWork
  BY DEF AtWork
<1>2. run[r] \in WorkState
  BY SomethingFacts DEF PortfolioTyped
<1>3. current = PeriodOf(select) /\ select \in Selects
  BY <1>1 DEF PortfolioTyped
<1>4. run[r].of \in Period
  BY <1>2 DEF WorkState
<1>. QED  BY <1>1, <1>2, <1>3, <1>4, PeriodFacts DEF WorkState, Period

\* A base that is computed, or cached, is a version.
LEMMA BasesFacts ==
  ASSUME PortfolioTyped, NEW r \in AtWork, NEW v \in Bases(r)
  PROVE  /\ v \in Nat
         /\ run[r].fresh => v \in 1 .. world
         /\ ~run[r].fresh => v = baseCache[run[r].of.currency]
         /\ run[r].fresh /\ run[r].since = world => v = world
<1>1. r \in Run /\ run[r].part # "idle"
  BY DEF AtWork
<1>2. run[r].of.currency \in Currency
  BY <1>1, WorkFacts
<1>3. CASE run[r].fresh
  BY <1>3 DEF Bases, PortfolioTyped
<1>4. CASE ~run[r].fresh
  BY <1>2, <1>4 DEF Bases, PortfolioTyped
<1>. QED  BY <1>3, <1>4

\* The opening of a period is computed once.
LEMMA SnapshotFacts ==
  ASSUME PortfolioTyped, NEW of \in Period, NEW v \in Nat
  PROVE  /\ IbSnapshot(of, v) \in Opening(of.from)
         /\ ibCache[of.currency][of.from] # Nothing =>
              IbSnapshot(of, v) = ibCache[of.currency][of.from]
<1>. DEFINE ib == ibCache[of.currency][of.from]
<1>0. of.currency \in Currency /\ of.from \in From
  BY DEF Period
<1>1. CASE ib = Nothing
  <2>1. CachedIb(of) = {}
    BY <1>1 DEF CachedIb
  <2>. QED  BY <1>1, <2>1 DEF IbSnapshot, Opening
<1>2. CASE ib # Nothing
  <2>1. CachedIb(of) = {ib} /\ CachedIb(of) # {}
    BY <1>2 DEF CachedIb
  <2>2. \A x : (CHOOSE y \in {x} : TRUE) = x
    OBVIOUS
  <2>3. IbSnapshot(of, v) = ib
    BY <2>1, <2>2 DEF IbSnapshot
  <2>4. ib \in Opening(of.from)
    BY <1>0, <1>2 DEF PortfolioTyped
  <2>. QED  BY <2>3, <2>4
<1>. QED  BY <1>1, <1>2

\* Both caches stay caches, and have what was computed last.
LEMMA CacheFacts ==
  ASSUME PortfolioTyped, NEW r \in AtWork, NEW v \in Bases(r)
  PROVE  /\ CacheBase(r, v) => baseCache' \in [Currency -> Nat]
                               /\ baseCache'[run[r].of.currency] = v
         /\ CacheIb(r, v) =>
              /\ ibCache' \in [Currency -> [From -> Openings]]
              /\ \A c \in Currency, d \in From : ibCache'[c][d] # Nothing => ibCache'[c][d] \in Opening(d)
              /\ ibCache'[run[r].of.currency][run[r].of.from] = IbSnapshot(run[r].of, v)
<1>. DEFINE of == run[r].of
            c == of.currency
            d == of.from
            ib == IbSnapshot(of, v)
<1>1. r \in Run /\ run[r].part # "idle"
  BY DEF AtWork
<1>2. of \in Period /\ c \in Currency /\ d \in From /\ v \in Nat
  BY <1>1, WorkFacts, BasesFacts
<1>3. ib \in Opening(d)
  BY <1>2, SnapshotFacts
<1>4. CacheBase(r, v) => baseCache' \in [Currency -> Nat] /\ baseCache'[c] = v
  BY <1>2 DEF CacheBase, PortfolioTyped
<1>5. ASSUME CacheIb(r, v)
      PROVE  /\ ibCache' \in [Currency -> [From -> Openings]]
             /\ \A x \in Currency, y \in From : ibCache'[x][y] # Nothing => ibCache'[x][y] \in Opening(y)
             /\ ibCache'[c][d] = ib
  <2>. HIDE DEF c, d, ib
  <2>1. ibCache' = [ibCache EXCEPT ![c][d] = ib]
    BY <1>5 DEF CacheIb, c, d, ib
  <2>2. ib \in Openings
    BY <1>2, <1>3 DEF Openings
  <2>3. \A x \in Currency, y \in From :
          ibCache'[x][y] = IF x = c /\ y = d THEN ib ELSE ibCache[x][y]
    BY <1>2, <2>1 DEF PortfolioTyped
  <2>. QED  BY <1>2, <1>3, <2>1, <2>2, <2>3 DEF PortfolioTyped
<1>. QED  BY <1>4, <1>5

---------------------------------------------------------------------------

\* Of the other runs a step changes nothing.
LEMMA RunsAfter ==
  ASSUME PortfolioTyped, NEW r \in Run, NEW x \in {IdleRun} \cup WorkState,
         run' = [run EXCEPT ![r] = x]
  PROVE  /\ run' \in [Run -> {IdleRun} \cup WorkState]
         /\ run'[r] = x
         /\ \A s \in Run : s # r => run'[s] = run[s]
         /\ r \in AtWork' <=> x.part # "idle"
         /\ \A s \in AtWork' : s = r \/ (s \in AtWork /\ run'[s] = run[s])
BY DEF PortfolioTyped, AtWork

\* When there are no others, the run stands where it was put.
LEMMA OnlyRun ==
  ASSUME PortfolioTyped, NEW r \in Run, NEW x \in {IdleRun} \cup WorkState,
         run' = [run EXCEPT ![r] = x], \A s \in AtWork : s = r
  PROVE  /\ \A s \in AtWork' : s = r
         /\ \A ps \in SUBSET Part : AtPart(ps)' <=> x.part \in ps
<1>1. \A s \in AtWork' : s = r
  BY RunsAfter
<1>2. \A s \in Run : s # r => run'[s].part \notin Part
  BY RunsAfter DEF AtWork, Part
<1>3. run'[r] = x
  BY RunsAfter
<1>. QED  BY <1>1, <1>2, <1>3 DEF AtPart

\* A run that ends leaves nothing at work, when there are no others.
LEMMA NoRun ==
  ASSUME PortfolioTyped, NEW r \in Run, run' = [run EXCEPT ![r] = IdleRun],
         \A s \in AtWork : s = r
  PROVE  AtWork' = {}
<1>1. \A s \in AtWork' : s = r \/ s \in AtWork
  BY RunsAfter
<1>2. r \notin AtWork'
  BY RunsAfter, SomethingFacts
<1>. QED  BY <1>1, <1>2

\* Nothing is drawn and nothing cached at first.
LEMMA PortfolioInitInOrder == PortfolioInit => PortfolioInOrder
<1>. SUFFICES ASSUME PortfolioInit PROVE PortfolioInOrder
  OBVIOUS
<1>1. AtWork = {}
  BY SomethingFacts DEF PortfolioInit, AtWork
<1>2. PortfolioTyped
  <2>1. ibCache \in [Currency -> [From -> Openings]]
    <3>1. Nothing \in Openings
      BY DEF Openings
    <3>. QED  BY <3>1 DEF PortfolioInit
  <2>2. \A c \in Currency, d \in From : ibCache[c][d] = Nothing
    BY DEF PortfolioInit
  <2>3. world \in Nat \ {0} /\ baseCache \in [Currency -> Nat] /\ select \in Selects
        /\ run \in [Run -> {IdleRun} \cup WorkState]
    BY WorldAssumption DEF PortfolioInit, Selects
  <2>. QED  BY <1>1, <2>1, <2>2, <2>3 DEF PortfolioInit, PortfolioTyped
<1>3. Drawn
  BY <1>1 DEF Drawn, PortfolioInit
<1>. QED  BY <1>1, <1>2, <1>3 DEF PortfolioInOrder

\* A refresh begins, for what the selects say.
LEMMA RefreshStep ==
  ASSUME PortfolioInOrder, NEW r \in Run, NEW to \in Selects, NEW force \in BOOLEAN,
         Refresh(r, to, force)
  PROVE  PortfolioInOrder'
<1>. DEFINE x == Computing("summary", PeriodOf(to), to.grain, force, baseCache)
<1>0. PortfolioTyped
  BY DEF PortfolioInOrder
<1>1. /\ select' = to /\ current' = PeriodOf(to)
      /\ run[r].part = "idle" /\ run' = [run EXCEPT ![r] = x]
      /\ moved' = (moved /\ AtWork # {}) /\ overlapped' = (AtWork # {})
      /\ UNCHANGED <<world, baseCache, ibCache, summary, chart, flows>>
  BY DEF Refresh, Starts, PeriodOf
<1>2. PeriodOf(to) \in Period /\ to.grain \in Granularity /\ baseCache \in [Currency -> Nat]
  BY <1>0, PeriodFacts DEF Selects, PortfolioTyped
<1>3. "summary" \in Part
  BY DEF Part
<1>4. /\ x \in WorkState /\ x.part = "summary" /\ x.of = PeriodOf(to) /\ x.grain = to.grain
      /\ x.force = force /\ x.fresh = (force \/ baseCache[PeriodOf(to).currency] = 0)
      /\ x.fresh => x.since = world
  BY <1>0, <1>2, <1>3, ComputingType
<1>. HIDE DEF x
<1>5. PeriodOf(to) # Nothing
  BY <1>2, SomethingFacts
<1>6. /\ run' \in [Run -> {IdleRun} \cup WorkState] /\ run'[r] = x
      /\ \A s \in AtWork' : s = r \/ (s \in AtWork /\ run'[s] = run[s])
  BY <1>0, <1>1, <1>4, RunsAfter
<1>7. PortfolioTyped'
  <2>1. \A s \in AtWork' : /\ current' # Nothing
                           /\ run'[s].force => run'[s].fresh
                           /\ run'[s].fresh => run'[s].since \in 1 .. world'
    BY <1>0, <1>1, <1>4, <1>5, <1>6 DEF PortfolioTyped
  <2>2. overlapped' \in BOOLEAN /\ moved' \in BOOLEAN
    BY <1>1
  <2>. QED  BY <1>0, <1>1, <1>6, <2>1, <2>2 DEF PortfolioTyped
<1>8. CASE AtWork # {}
  BY <1>1, <1>7, <1>8 DEF PortfolioInOrder
<1>9. CASE AtWork = {}
  <2>1. /\ \A s \in AtWork' : s = r
        /\ \A ps \in SUBSET Part : AtPart(ps)' <=> x.part \in ps
    BY <1>0, <1>1, <1>4, <1>9, OnlyRun
  <2>2. AtPart({"summary"})' /\ AtPart({"summary", "chart", "flows", "explain"})'
    BY <1>4, <2>1 DEF Part
  <2>3. RunHolds(r)'
    BY <1>1, <1>4, <1>6 DEF RunHolds
  <2>4. Drawn'
    BY <2>1, <2>2, <2>3 DEF Drawn
  <2>. QED  BY <1>7, <2>1, <2>4 DEF PortfolioInOrder
<1>. QED  BY <1>8, <1>9

\* Another granularity hides the chart and begins a run for it alone.
LEMMA GranularityStep ==
  ASSUME PortfolioInOrder, NEW r \in Run, NEW n \in Granularity, ChooseGranularity(r, n)
  PROVE  PortfolioInOrder'
<1>. PICK force \in BOOLEAN : force = FALSE
  OBVIOUS
<1>. DEFINE x == Computing("granularity", current, n, force, baseCache)
<1>0. PortfolioTyped /\ select \in Selects /\ current = PeriodOf(select)
      /\ baseCache \in [Currency -> Nat]
  BY DEF PortfolioInOrder, PortfolioTyped, ChooseGranularity
<1>1. /\ select' = [select EXCEPT !.grain = n]
      /\ run[r].part = "idle" /\ run' = [run EXCEPT ![r] = x]
      /\ overlapped' = (overlapped \/ AtWork # {}) /\ moved' = moved
      /\ chart' = Nothing /\ current # Nothing
      /\ UNCHANGED <<world, baseCache, ibCache, current, summary, flows>>
  BY DEF ChooseGranularity, Starts
<1>2. /\ select' \in Selects /\ PeriodOf(select') = PeriodOf(select) /\ select'.grain = n
  BY <1>0, <1>1 DEF Selects, PeriodOf
<1>3. "granularity" \in Part /\ current \in Period
  BY <1>0, PeriodFacts DEF Part
<1>4. /\ x \in WorkState /\ x.part = "granularity" /\ x.of = current /\ x.grain = n
      /\ x.force = force /\ x.fresh = (force \/ baseCache[current.currency] = 0)
      /\ x.fresh => x.since = world
  BY <1>0, <1>3, ComputingType
<1>. HIDE DEF x
<1>5. /\ run' \in [Run -> {IdleRun} \cup WorkState] /\ run'[r] = x
      /\ \A s \in AtWork' : s = r \/ (s \in AtWork /\ run'[s] = run[s])
  BY <1>0, <1>1, <1>4, RunsAfter
<1>6. PortfolioTyped'
  BY <1>0, <1>1, <1>2, <1>4, <1>5 DEF PortfolioTyped
<1>7. CASE overlapped \/ AtWork # {}
  BY <1>1, <1>6, <1>7 DEF PortfolioInOrder
<1>8. CASE ~overlapped /\ AtWork = {}
  <2>1. /\ \A s \in AtWork' : s = r
        /\ \A ps \in SUBSET Part : AtPart(ps)' <=> x.part \in ps
    BY <1>0, <1>1, <1>4, <1>8, OnlyRun
  <2>2. ASSUME ~moved PROVE Drawn'
    <3>1. Drawn /\ \A ps \in SUBSET Part : ~AtPart(ps)
      BY <1>8, <2>2 DEF PortfolioInOrder, AtPart, AtWork, Part
    <3>2. ~AtPart({"summary"}) /\ ~AtPart({"summary", "chart", "flows", "explain"})
      BY <3>1 DEF Part
    <3>3. summary # Nothing => SummaryHolds /\ FlowsHold
      BY <3>1, <3>2 DEF Drawn
    <3>4. summary # Nothing => SummaryHolds' /\ FlowsHold' /\ ChartHolds'
      BY <1>1, <3>3 DEF SummaryHolds, FlowsHold, ChartHolds, Meets
    <3>5. RunHolds(r)'
      BY <1>1, <1>2, <1>4, <1>5, <3>3 DEF RunHolds, SummaryHolds
    <3>. QED  BY <1>1, <2>1, <3>4, <3>5 DEF Drawn
  <2>. QED  BY <1>1, <1>6, <2>1, <2>2 DEF PortfolioInOrder
<1>. QED  BY <1>7, <1>8

\* What a step of run r begins with, when nothing disturbed it.
LEMMA Undisturbed ==
  ASSUME PortfolioInOrder, NEW r \in AtWork, ~overlapped
  PROVE  /\ \A s \in AtWork : s = r
         /\ ~moved => Drawn /\ RunHolds(r)
         /\ \A ps \in SUBSET Part : AtPart(ps) <=> run[r].part \in ps
<1>1. \A s \in AtWork : s = r
  BY DEF PortfolioInOrder
<1>2. ~moved => Drawn /\ RunHolds(r)
  BY DEF PortfolioInOrder, Drawn
<1>3. \A s \in Run : s # r => run[s].part \notin Part
  BY <1>1 DEF AtWork, Part
<1>4. r \in Run
  BY DEF AtWork
<1>. QED  BY <1>1, <1>2, <1>3, <1>4 DEF AtPart

\* The summary is drawn, and what it was drawn from cached.
LEMMA SummaryReadyStep ==
  ASSUME PortfolioInOrder, NEW r \in Run, SummaryReady(r)
  PROVE  PortfolioInOrder'
<1>. DEFINE of == run[r].of
            x == Computing("chart", current, select.grain, run[r].force, baseCache')
<1>0. PortfolioTyped /\ run[r].part = "summary"
  BY DEF PortfolioInOrder, SummaryReady
<1>1. /\ r \in AtWork /\ run[r] \in WorkState /\ current = PeriodOf(select) /\ current \in Period
      /\ of \in Period /\ run[r].force \in BOOLEAN /\ run[r].fresh \in BOOLEAN
      /\ select.grain \in Granularity
  BY <1>0, WorkFacts DEF PortfolioTyped, Selects
<1>2. PICK v \in Bases(r) :
        /\ CacheBase(r, v) /\ CacheIb(r, v)
        /\ summary' = [of |-> of, base |-> v, opening |-> IbSnapshot(of, v)]
  BY DEF SummaryReady
<1>3. /\ run' = [run EXCEPT ![r] = x] /\ chart' = Nothing
      /\ UNCHANGED <<world, select, current, flows, overlapped, moved>>
  BY DEF SummaryReady
<1>4. /\ baseCache' \in [Currency -> Nat] /\ baseCache'[of.currency] = v
      /\ ibCache' \in [Currency -> [From -> Openings]]
      /\ \A c \in Currency, d \in From : ibCache'[c][d] # Nothing => ibCache'[c][d] \in Opening(d)
      /\ ibCache'[of.currency][of.from] = IbSnapshot(of, v)
  BY <1>0, <1>1, <1>2, CacheFacts
<1>5. v \in Nat /\ (run[r].fresh => v \in 1 .. world)
      /\ (~run[r].fresh => v = baseCache[of.currency])
      /\ (run[r].fresh /\ run[r].since = world => v = world)
  BY <1>0, <1>1, BasesFacts
<1>6. /\ x \in WorkState /\ x.part = "chart" /\ x.of = current /\ x.grain = select.grain
      /\ x.force = run[r].force
      /\ x.fresh = (run[r].force \/ baseCache'[current.currency] = 0)
      /\ x.fresh => x.since = world
  BY <1>0, <1>1, <1>4, ComputingType DEF Part
<1>7. IbSnapshot(of, v) \in Opening(of.from)
  BY <1>0, <1>1, <1>5, SnapshotFacts
<1>. HIDE DEF x
<1>8. /\ run' \in [Run -> {IdleRun} \cup WorkState] /\ run'[r] = x
      /\ \A s \in AtWork' : s = r \/ (s \in AtWork /\ run'[s] = run[s])
  BY <1>0, <1>3, <1>6, RunsAfter
<1>9. PortfolioTyped'
  <2>1. \A s \in AtWork' : /\ current' # Nothing
                           /\ run'[s].force => run'[s].fresh
                           /\ run'[s].fresh => run'[s].since \in 1 .. world'
    BY <1>0, <1>1, <1>3, <1>6, <1>8, SomethingFacts DEF PortfolioTyped
  <2>. QED  BY <1>0, <1>3, <1>4, <1>8, <2>1 DEF PortfolioTyped
<1>10. CASE overlapped
  BY <1>3, <1>9, <1>10 DEF PortfolioInOrder
<1>11. CASE ~overlapped
  <2>1. /\ \A s \in AtWork : s = r
        /\ ~moved => Drawn /\ RunHolds(r)
    BY <1>1, <1>11, Undisturbed
  <2>2. /\ \A s \in AtWork' : s = r
        /\ \A ps \in SUBSET Part : AtPart(ps)' <=> x.part \in ps
    BY <1>0, <1>3, <1>6, <2>1, OnlyRun
  <2>3. AtPart({"summary", "chart", "flows", "explain"})'
    BY <1>6, <2>2 DEF Part
  <2>4. ASSUME ~moved PROVE Drawn'
    <3>1. RunHolds(r) /\ of = current
      BY <2>1, <2>4 DEF RunHolds
    <3>2. v # 0 /\ (run[r].fresh => v = world)
      BY <1>5, <3>1 DEF RunHolds
    <3>3. summary'.of = current /\ summary'.base = v /\ summary'.opening = IbSnapshot(of, v)
      BY <1>2, <3>1
    <3>4. SummaryHolds'
      BY <1>1, <1>3, <1>4, <1>7, <3>1, <3>2, <3>3, SomethingFacts DEF SummaryHolds
    <3>5. ChartHolds'
      BY <1>3 DEF ChartHolds, Meets
    <3>6. RunHolds(r)'
      <4>1. x.fresh => run[r].fresh
        BY <1>0, <1>1, <1>4, <1>6, <3>1, <3>2 DEF PortfolioTyped
      <4>. QED  BY <1>3, <1>4, <1>6, <1>8, <3>1, <3>2, <3>3, <4>1 DEF RunHolds
    <3>. QED  BY <2>2, <2>3, <3>4, <3>5, <3>6 DEF Drawn
  <2>. QED  BY <1>3, <1>9, <2>2, <2>4 DEF PortfolioInOrder
<1>. QED  BY <1>10, <1>11

\* What fails leaves caches behind it; those of an undisturbed refresh whose summary is drawn
\* are as they were.
LEMMA MayCacheFacts ==
  ASSUME PortfolioInOrder, NEW r \in AtWork, MayCache(r)
  PROVE  /\ baseCache' \in [Currency -> Nat] /\ ibCache' \in [Currency -> [From -> Openings]]
         /\ \A c \in Currency, d \in From : ibCache'[c][d] # Nothing => ibCache'[c][d] \in Opening(d)
         /\ RunHolds(r) /\ SummaryHolds /\ summary # Nothing /\ run[r].part # "summary" =>
              /\ baseCache' = baseCache
              /\ ibCache'[current.currency][current.from] = ibCache[current.currency][current.from]
<1>0. PortfolioTyped /\ r \in Run /\ run[r].part # "idle"
  BY DEF PortfolioInOrder, AtWork
<1>1. current \in Period /\ run[r].of \in Period
  BY <1>0, WorkFacts
<1>2. CASE UNCHANGED <<baseCache, ibCache>>
  BY <1>0, <1>2 DEF PortfolioTyped
<1>3. ASSUME NEW v \in Bases(r), CacheBase(r, v), UNCHANGED ibCache \/ CacheIb(r, v)
      PROVE  /\ baseCache' \in [Currency -> Nat] /\ ibCache' \in [Currency -> [From -> Openings]]
             /\ \A c \in Currency, d \in From : ibCache'[c][d] # Nothing => ibCache'[c][d] \in Opening(d)
             /\ RunHolds(r) /\ SummaryHolds /\ summary # Nothing /\ run[r].part # "summary" =>
                  /\ baseCache' = baseCache
                  /\ ibCache'[current.currency][current.from] = ibCache[current.currency][current.from]
  <2>1. /\ baseCache' \in [Currency -> Nat]
        /\ CacheIb(r, v) =>
             /\ ibCache' \in [Currency -> [From -> Openings]]
             /\ \A c \in Currency, d \in From : ibCache'[c][d] # Nothing => ibCache'[c][d] \in Opening(d)
             /\ ibCache'[run[r].of.currency][run[r].of.from] = IbSnapshot(run[r].of, v)
    BY <1>0, <1>3, CacheFacts
  <2>2. /\ ibCache' \in [Currency -> [From -> Openings]]
        /\ \A c \in Currency, d \in From : ibCache'[c][d] # Nothing => ibCache'[c][d] \in Opening(d)
    BY <1>0, <1>3, <2>1 DEF PortfolioTyped
  <2>3. ASSUME RunHolds(r), SummaryHolds, summary # Nothing, run[r].part # "summary"
        PROVE  /\ baseCache' = baseCache
               /\ ibCache'[current.currency][current.from] = ibCache[current.currency][current.from]
    <3>1. run[r].of = current /\ v = summary.base /\ v \in Nat
      BY <1>0, <2>3, BasesFacts DEF RunHolds, SummaryHolds
    <3>2. baseCache' = [baseCache EXCEPT ![current.currency] = summary.base]
      BY <1>3, <3>1 DEF CacheBase
    <3>3. baseCache' = baseCache
      BY <1>0, <2>3, <3>2 DEF SummaryHolds, PortfolioTyped
    <3>4. ibCache[current.currency][current.from] # Nothing
      BY <2>3, SomethingFacts DEF SummaryHolds
    <3>5. IbSnapshot(current, v) = ibCache[current.currency][current.from]
      BY <1>0, <1>1, <3>1, <3>4, SnapshotFacts
    <3>. QED  BY <1>3, <2>1, <3>1, <3>3, <3>5
  <2>. QED  BY <2>1, <2>2, <2>3
<1>4. \/ UNCHANGED <<baseCache, ibCache>>
      \/ \E v \in Bases(r) : CacheBase(r, v) /\ (UNCHANGED ibCache \/ CacheIb(r, v))
  BY DEF MayCache, MayCacheBase
<1>. QED  BY <1>2, <1>3, <1>4

\* A step of a run, once what an undisturbed one has drawn is known.
LEMMA RunGoesOn ==
  ASSUME PortfolioInOrder, NEW r \in AtWork, NEW x \in {IdleRun} \cup WorkState,
         run' = [run EXCEPT ![r] = x],
         UNCHANGED <<world, select, current, overlapped, moved>>,
         baseCache' \in [Currency -> Nat], ibCache' \in [Currency -> [From -> Openings]],
         \A c \in Currency, d \in From : ibCache'[c][d] # Nothing => ibCache'[c][d] \in Opening(d),
         x.part # "idle" => (x.force => x.fresh) /\ (x.fresh => x.since \in 1 .. world),
         ~overlapped /\ ~moved => Drawn'
  PROVE  PortfolioInOrder'
<1>0. PortfolioTyped /\ r \in Run /\ current # Nothing
  BY DEF PortfolioInOrder, PortfolioTyped, AtWork
<1>1. /\ run' \in [Run -> {IdleRun} \cup WorkState] /\ run'[r] = x
      /\ \A s \in AtWork' : s = r \/ (s \in AtWork /\ run'[s] = run[s])
      /\ r \in AtWork' <=> x.part # "idle"
  BY <1>0, RunsAfter
<1>2. PortfolioTyped'
  <2>1. \A s \in AtWork' : /\ current' # Nothing
                           /\ run'[s].force => run'[s].fresh
                           /\ run'[s].fresh => run'[s].since \in 1 .. world'
    BY <1>0, <1>1 DEF PortfolioTyped
  <2>. QED  BY <1>0, <1>1, <2>1 DEF PortfolioTyped
<1>3. ~overlapped' => \A s, t \in AtWork' : s = t
  BY <1>1 DEF PortfolioInOrder
<1>. QED  BY <1>2, <1>3 DEF PortfolioInOrder

\* Without a summary nothing else is drawn.
LEMMA SummaryFailsStep ==
  ASSUME PortfolioInOrder, NEW r \in Run, SummaryFails(r)
  PROVE  PortfolioInOrder'
<1>0. PortfolioTyped /\ r \in AtWork
  BY DEF PortfolioInOrder, SummaryFails, AtWork
<1>1. /\ run' = [run EXCEPT ![r] = IdleRun] /\ summary' = Nothing /\ MayCache(r)
      /\ UNCHANGED <<world, select, current, overlapped, moved>>
  BY DEF SummaryFails
<1>2. ~overlapped => Drawn'
  <2>. SUFFICES ASSUME ~overlapped PROVE Drawn'
    OBVIOUS
  <2>1. \A s \in AtWork : s = r
    BY <1>0, Undisturbed
  <2>2. AtWork' = {}
    BY <1>0, <1>1, <2>1, NoRun DEF AtWork
  <2>. QED  BY <1>1, <2>2 DEF Drawn
<1>3. /\ baseCache' \in [Currency -> Nat] /\ ibCache' \in [Currency -> [From -> Openings]]
      /\ \A c \in Currency, d \in From : ibCache'[c][d] # Nothing => ibCache'[c][d] \in Opening(d)
  BY <1>0, <1>1, MayCacheFacts
<1>. QED  BY <1>0, <1>1, <1>2, <1>3, SomethingFacts, RunGoesOn

\* The part a chart is followed by.
LEMMA AfterChartFacts ==
  ASSUME PortfolioTyped, NEW r \in AtWork, run[r].part \in {"chart", "granularity"},
         NEW cached \in [Currency -> Nat]
  PROVE  LET x == AfterChart(r, cached) IN
         /\ x \in {IdleRun} \cup WorkState
         /\ run[r].part = "granularity" => x = IdleRun
         /\ run[r].part = "chart" =>
              /\ x \in WorkState
              /\ x.part = "flows" /\ x.of = current /\ x.grain = select.grain
              /\ x.force = run[r].force
              /\ x.fresh = (run[r].force \/ cached[current.currency] = 0)
              /\ x.fresh => x.since = world
<1>1. r \in Run /\ run[r].part # "idle" /\ "flows" \in Part
  BY DEF AtWork, Part
<1>2. current \in Period /\ run[r].force \in BOOLEAN /\ select.grain \in Granularity
  BY <1>1, WorkFacts DEF PortfolioTyped, Selects
<1>3. CASE run[r].part = "granularity"
  BY <1>3 DEF AfterChart
<1>4. CASE run[r].part = "chart"
  BY <1>1, <1>2, <1>4, ComputingType DEF AfterChart
<1>. QED  BY <1>3, <1>4

\* A chart is drawn, or hidden, and a refresh goes on to the flows.
LEMMA ChartStep ==
  ASSUME PortfolioInOrder, NEW r \in Run, ChartReady(r) \/ ChartFails(r)
  PROVE  PortfolioInOrder'
<1>. DEFINE of == run[r].of
            x == AfterChart(r, baseCache')
<1>0. PortfolioTyped /\ r \in AtWork /\ run[r].part \in {"chart", "granularity"}
  BY DEF PortfolioInOrder, ChartReady, ChartFails, AtWork
<1>1. /\ run[r] \in WorkState /\ current = PeriodOf(select) /\ current \in Period
      /\ of \in Period /\ run[r].force \in BOOLEAN
  BY <1>0, WorkFacts
<1>2. /\ run' = [run EXCEPT ![r] = x]
      /\ UNCHANGED <<world, ibCache, select, current, summary, flows, overlapped, moved>>
      /\ \/ baseCache' = baseCache /\ chart' = Nothing
         \/ \E v \in Bases(r) : /\ CacheBase(r, v)
                                /\ \/ chart' = Nothing
                                   \/ chart' = [of |-> of, base |-> v, grain |-> run[r].grain]
  <2>1. CASE ChartReady(r)
    BY <2>1 DEF ChartReady
  <2>2. CASE ChartFails(r)
    BY <2>2 DEF ChartFails, MayCacheBase
  <2>. QED  BY <2>1, <2>2
<1>3. baseCache' \in [Currency -> Nat]
  BY <1>0, <1>2, CacheFacts DEF PortfolioTyped
<1>4. /\ x \in {IdleRun} \cup WorkState
      /\ run[r].part = "granularity" => x = IdleRun
      /\ run[r].part = "chart" =>
           /\ x.part = "flows" /\ x.of = current /\ x.grain = select.grain
           /\ x.force = run[r].force
           /\ x.fresh = (run[r].force \/ baseCache'[current.currency] = 0)
           /\ x.fresh => x.since = world
  BY <1>0, <1>3, AfterChartFacts
<1>. HIDE DEF x
<1>5. run'[r] = x
  BY <1>0, <1>2, <1>4, RunsAfter
<1>6. x.part # "idle" => (x.force => x.fresh) /\ (x.fresh => x.since \in 1 .. world)
  BY <1>0, <1>1, <1>4, SomethingFacts DEF PortfolioTyped
<1>7. ASSUME ~overlapped, ~moved PROVE Drawn'
  <2>1. /\ \A s \in AtWork : s = r
        /\ Drawn /\ RunHolds(r)
        /\ \A ps \in SUBSET Part : AtPart(ps) <=> run[r].part \in ps
    BY <1>0, <1>7, Undisturbed
  <2>2. /\ \A s \in AtWork' : s = r
        /\ \A ps \in SUBSET Part : AtPart(ps)' <=> x.part \in ps
    BY <1>0, <1>2, <1>4, <2>1, OnlyRun
  <2>3. {"summary"} \in SUBSET Part /\ {"summary", "chart", "flows", "explain"} \in SUBSET Part
    BY DEF Part
  <2>4. of = current /\ run[r].grain = select.grain
    BY <2>1 DEF RunHolds
  <2>5. ASSUME summary # Nothing
        PROVE  /\ SummaryHolds /\ baseCache' = baseCache
               /\ chart' = Nothing \/ (/\ chart'.of = current /\ chart'.base = summary.base
                                       /\ chart'.grain = select.grain)
    <3>1. SummaryHolds
      BY <1>0, <2>1, <2>3, <2>5 DEF Drawn
    <3>2. CASE baseCache' = baseCache /\ chart' = Nothing
      BY <3>1, <3>2
    <3>3. ASSUME NEW v \in Bases(r), CacheBase(r, v),
                 \/ chart' = Nothing
                 \/ chart' = [of |-> of, base |-> v, grain |-> run[r].grain]
          PROVE  /\ baseCache' = baseCache
                 /\ \/ chart' = Nothing
                    \/ /\ chart'.of = current /\ chart'.base = summary.base
                       /\ chart'.grain = select.grain
      <4>1. v = summary.base
        BY <1>0, <2>1, <2>4, <2>5, <3>1, BasesFacts DEF RunHolds, SummaryHolds
      <4>2. baseCache' = [baseCache EXCEPT ![current.currency] = summary.base]
        BY <2>4, <3>3, <4>1 DEF CacheBase
      <4>3. baseCache' = baseCache
        BY <1>0, <3>1, <4>2 DEF SummaryHolds, PortfolioTyped
      <4>. QED  BY <2>4, <3>3, <4>1, <4>3
    <3>. QED  BY <1>2, <3>1, <3>2, <3>3
  <2>6. summary # Nothing => SummaryHolds' /\ ChartHolds'
    BY <1>2, <2>5 DEF SummaryHolds, ChartHolds, Meets
  <2>7. CASE run[r].part = "granularity"
    <3>1. AtWork' = {}
      BY <1>0, <1>2, <1>4, <2>1, <2>7, NoRun DEF AtWork
    <3>2. ~AtPart({"summary", "chart", "flows", "explain"})
      BY <2>1, <2>3, <2>7
    <3>3. summary # Nothing => FlowsHold'
      BY <1>2, <2>1, <3>2 DEF Drawn, FlowsHold, Meets
    <3>. QED  BY <1>2, <2>6, <3>1, <3>3 DEF Drawn
  <2>8. CASE run[r].part = "chart"
    <3>1. AtPart({"summary", "chart", "flows", "explain"})'
      BY <1>4, <2>2, <2>3, <2>8
    <3>2. RunHolds(r)'
      <4>1. /\ run'[r].of = current' /\ run'[r].grain = select'.grain
            /\ run'[r].fresh => run'[r].since = world'
            /\ ~run'[r].fresh => baseCache'[current.currency] # 0
            /\ run'[r].part = "flows"
        BY <1>2, <1>4, <1>5, <2>8
      <4>2. ASSUME summary # Nothing, x.fresh PROVE world = summary.base
        <5>1. run[r].fresh
          BY <1>0, <1>1, <1>4, <2>5, <2>8, <4>2 DEF PortfolioTyped, SummaryHolds
        <5>. QED  BY <2>1, <2>8, <4>2, <5>1 DEF RunHolds
      <4>. QED  BY <1>2, <1>5, <4>1, <4>2 DEF RunHolds
    <3>. QED  BY <1>2, <2>2, <2>6, <3>1, <3>2 DEF Drawn
  <2>. QED  BY <1>0, <2>7, <2>8
<1>8. /\ ibCache' \in [Currency -> [From -> Openings]]
      /\ \A c \in Currency, d \in From : ibCache'[c][d] # Nothing => ibCache'[c][d] \in Opening(d)
  BY <1>0, <1>2 DEF PortfolioTyped
<1>. QED  BY <1>0, <1>2, <1>3, <1>4, <1>6, <1>7, <1>8, RunGoesOn

\* The movements are read, for the flows to be explained by.
LEMMA MovementsStep ==
  ASSUME PortfolioInOrder, NEW r \in Run, MovementsReady(r)
  PROVE  PortfolioInOrder'
<1>. DEFINE of == run[r].of
            c == Computing("explain", of, run[r].grain, run[r].force, baseCache')
<1>0. PortfolioTyped /\ r \in AtWork /\ run[r].part = "flows"
  BY DEF PortfolioInOrder, MovementsReady, AtWork
<1>1. /\ run[r] \in WorkState /\ current \in Period /\ run[r].grain \in Granularity
      /\ of \in Period /\ run[r].force \in BOOLEAN /\ "explain" \in Part
  BY <1>0, WorkFacts DEF Part
<1>2. PICK v \in Bases(r) : CacheBase(r, v) /\ run' = [run EXCEPT ![r] = [c EXCEPT !.moves = v]]
  BY DEF MovementsReady
<1>3. UNCHANGED <<world, ibCache, select, current, summary, chart, flows, overlapped, moved>>
  BY DEF MovementsReady
<1>4. baseCache' \in [Currency -> Nat] /\ v \in Nat
  BY <1>0, <1>2, CacheFacts, BasesFacts
<1>5. /\ c \in WorkState
      /\ c.part = "explain" /\ c.of = of /\ c.grain = run[r].grain /\ c.force = run[r].force
      /\ c.fresh = (run[r].force \/ baseCache'[of.currency] = 0)
      /\ c.fresh => c.since = world
  BY <1>0, <1>1, <1>4, ComputingType
<1>. HIDE DEF c
<1>. DEFINE x == [c EXCEPT !.moves = v]
<1>6. /\ x \in WorkState /\ x.moves = v
      /\ x.part = "explain" /\ x.of = of /\ x.grain = run[r].grain /\ x.force = run[r].force
      /\ x.fresh = (run[r].force \/ baseCache'[of.currency] = 0)
      /\ x.fresh => x.since = world
  BY <1>4, <1>5 DEF WorkState
<1>. HIDE DEF x
<1>7. run' = [run EXCEPT ![r] = x]
  BY <1>2 DEF x
<1>8. run'[r] = x
  BY <1>0, <1>6, <1>7, RunsAfter
<1>9. (x.force => x.fresh) /\ (x.fresh => x.since \in 1 .. world)
  BY <1>0, <1>1, <1>6 DEF PortfolioTyped
<1>10. ASSUME ~overlapped, ~moved PROVE Drawn'
  <2>1. /\ \A s \in AtWork : s = r
        /\ Drawn /\ RunHolds(r)
        /\ \A ps \in SUBSET Part : AtPart(ps) <=> run[r].part \in ps
    BY <1>0, <1>10, Undisturbed
  <2>2. /\ \A s \in AtWork' : s = r
        /\ \A ps \in SUBSET Part : AtPart(ps)' <=> x.part \in ps
    BY <1>0, <1>6, <1>7, <2>1, OnlyRun
  <2>3. {"summary"} \in SUBSET Part /\ {"summary", "chart", "flows", "explain"} \in SUBSET Part
    BY DEF Part
  <2>4. of = current /\ run[r].grain = select.grain
    BY <2>1 DEF RunHolds
  <2>5. ASSUME summary # Nothing
        PROVE  SummaryHolds /\ ChartHolds /\ baseCache' = baseCache /\ v = summary.base
    <3>1. SummaryHolds /\ ChartHolds
      BY <1>0, <2>1, <2>3, <2>5 DEF Drawn
    <3>2. v = summary.base
      BY <1>0, <2>1, <2>4, <2>5, <3>1, BasesFacts DEF RunHolds, SummaryHolds
    <3>3. baseCache' = [baseCache EXCEPT ![current.currency] = summary.base]
      BY <1>2, <2>4, <3>2 DEF CacheBase
    <3>4. baseCache' = baseCache
      BY <1>0, <3>1, <3>3 DEF SummaryHolds, PortfolioTyped
    <3>. QED  BY <3>1, <3>2, <3>4
  <2>6. summary # Nothing => SummaryHolds' /\ ChartHolds'
    BY <1>3, <2>5 DEF SummaryHolds, ChartHolds, Meets
  <2>7. AtPart({"summary", "chart", "flows", "explain"})'
    BY <1>6, <2>2, <2>3
  <2>8. RunHolds(r)'
    <3>1. /\ run'[r].of = current' /\ run'[r].grain = select'.grain
          /\ run'[r].fresh => run'[r].since = world'
          /\ ~run'[r].fresh => baseCache'[current.currency] # 0
      BY <1>3, <1>6, <1>8, <2>4
    <3>2. ASSUME summary # Nothing, x.fresh PROVE world = summary.base
      <4>1. run[r].fresh
        BY <1>0, <1>1, <1>6, <2>4, <2>5, <3>2 DEF PortfolioTyped, SummaryHolds
      <4>. QED  BY <1>0, <2>1, <3>2, <4>1 DEF RunHolds
    <3>. QED  BY <1>3, <1>6, <1>8, <2>5, <3>1, <3>2 DEF RunHolds
  <2>. QED  BY <1>3, <2>2, <2>6, <2>7, <2>8 DEF Drawn
<1>11. /\ ibCache' \in [Currency -> [From -> Openings]]
       /\ \A k \in Currency, d \in From : ibCache'[k][d] # Nothing => ibCache'[k][d] \in Opening(d)
  BY <1>0, <1>3 DEF PortfolioTyped
<1>. QED  BY <1>0, <1>3, <1>4, <1>6, <1>7, <1>9, <1>10, <1>11, RunGoesOn

\* The flows are drawn, with the base the movements had, and the run ends.
LEMMA FlowsReadyStep ==
  ASSUME PortfolioInOrder, NEW r \in Run, FlowsReady(r)
  PROVE  PortfolioInOrder'
<1>. DEFINE of == run[r].of
<1>0. PortfolioTyped /\ r \in AtWork /\ run[r].part = "explain"
  BY DEF PortfolioInOrder, FlowsReady, AtWork
<1>1. run[r] \in WorkState /\ current \in Period /\ of \in Period
  BY <1>0, WorkFacts
<1>2. PICK v \in Bases(r) :
        /\ CacheBase(r, v) /\ CacheIb(r, v)
        /\ flows' = [of |-> of, moves |-> run[r].moves, base |-> v, opening |-> IbSnapshot(of, v)]
  BY DEF FlowsReady
<1>3. /\ run' = [run EXCEPT ![r] = IdleRun]
      /\ UNCHANGED <<world, select, current, summary, chart, overlapped, moved>>
  BY DEF FlowsReady
<1>4. /\ baseCache' \in [Currency -> Nat] /\ v \in Nat
      /\ ibCache' \in [Currency -> [From -> Openings]]
      /\ \A c \in Currency, d \in From : ibCache'[c][d] # Nothing => ibCache'[c][d] \in Opening(d)
      /\ ibCache'[of.currency][of.from] = IbSnapshot(of, v)
  BY <1>0, <1>2, CacheFacts, BasesFacts
<1>5. ASSUME ~overlapped, ~moved PROVE Drawn'
  <2>1. /\ \A s \in AtWork : s = r
        /\ Drawn /\ RunHolds(r)
        /\ \A ps \in SUBSET Part : AtPart(ps) <=> run[r].part \in ps
    BY <1>0, <1>5, Undisturbed
  <2>2. AtWork' = {}
    BY <1>0, <1>3, <2>1, NoRun DEF AtWork
  <2>3. of = current
    BY <2>1 DEF RunHolds
  <2>4. ASSUME summary # Nothing PROVE SummaryHolds' /\ ChartHolds' /\ FlowsHold'
    <3>1. SummaryHolds /\ ChartHolds
      BY <1>0, <2>1, <2>4 DEF Drawn, Part
    <3>2. v = summary.base /\ run[r].moves = summary.base
      BY <1>0, <2>1, <2>3, <2>4, <3>1, BasesFacts DEF RunHolds, SummaryHolds
    <3>3. baseCache' = [baseCache EXCEPT ![current.currency] = summary.base]
      BY <1>2, <2>3, <3>2 DEF CacheBase
    <3>4. baseCache' = baseCache
      BY <1>0, <3>1, <3>3 DEF SummaryHolds, PortfolioTyped
    <3>5. IbSnapshot(of, v) = summary.opening
      BY <1>0, <1>1, <1>4, <2>3, <3>1, SnapshotFacts, SomethingFacts DEF SummaryHolds
    <3>6. SummaryHolds' /\ ChartHolds'
      BY <1>3, <1>4, <2>3, <3>1, <3>4, <3>5 DEF SummaryHolds, ChartHolds, Meets
    <3>7. FlowsHold'
      BY <1>2, <1>3, <2>3, <3>1, <3>2, <3>5 DEF FlowsHold, Meets, SummaryHolds
    <3>. QED  BY <3>6, <3>7
  <2>. QED  BY <1>3, <2>2, <2>4 DEF Drawn
<1>6. IdleRun.part = "idle" /\ IdleRun \in {IdleRun} \cup WorkState
  BY SomethingFacts
<1>. QED  BY <1>0, <1>3, <1>4, <1>5, <1>6, RunGoesOn

\* Flows that fail are hidden.
LEMMA FlowsFailStep ==
  ASSUME PortfolioInOrder, NEW r \in Run, FlowsFail(r)
  PROVE  PortfolioInOrder'
<1>0. PortfolioTyped /\ r \in AtWork /\ run[r].part \in {"flows", "explain"}
  BY DEF PortfolioInOrder, FlowsFail, AtWork
<1>1. /\ run' = [run EXCEPT ![r] = IdleRun] /\ flows' = Nothing /\ MayCache(r)
      /\ UNCHANGED <<world, select, current, summary, chart, overlapped, moved>>
  BY DEF FlowsFail, MayCache
<1>2. ASSUME ~overlapped, ~moved PROVE Drawn'
  <2>1. /\ \A s \in AtWork : s = r
        /\ Drawn /\ RunHolds(r)
        /\ \A ps \in SUBSET Part : AtPart(ps) <=> run[r].part \in ps
    BY <1>0, <1>2, Undisturbed
  <2>2. AtWork' = {}
    BY <1>0, <1>1, <2>1, NoRun DEF AtWork
  <2>3. summary # Nothing => SummaryHolds /\ ChartHolds
    BY <1>0, <2>1 DEF Drawn, Part
  <2>5. summary # Nothing =>
          /\ baseCache' = baseCache
          /\ ibCache'[current.currency][current.from] = ibCache[current.currency][current.from]
    BY <1>0, <1>1, <2>1, <2>3, MayCacheFacts
  <2>4. summary # Nothing => SummaryHolds' /\ ChartHolds' /\ FlowsHold'
    BY <1>1, <2>3, <2>5 DEF SummaryHolds, ChartHolds, FlowsHold, Meets
  <2>. QED  BY <1>1, <2>2, <2>4 DEF Drawn
<1>3. /\ baseCache' \in [Currency -> Nat] /\ ibCache' \in [Currency -> [From -> Openings]]
      /\ \A c \in Currency, d \in From : ibCache'[c][d] # Nothing => ibCache'[c][d] \in Opening(d)
  BY <1>0, <1>1, MayCacheFacts
<1>. QED  BY <1>0, <1>1, <1>2, <1>3, SomethingFacts, RunGoesOn

\* The world moves under no run that computes anew, or that is noted.
LEMMA WorldMovesStep ==
  ASSUME PortfolioInOrder, WorldMoves
  PROVE  PortfolioInOrder'
<1>0. PortfolioTyped
  BY DEF PortfolioInOrder
<1>1. /\ world' = world + 1
      /\ moved' = (moved \/ \E r \in AtWork : run[r].fresh)
      /\ UNCHANGED <<baseCache, ibCache, select, current, run, summary, chart, flows, overlapped>>
  BY DEF WorldMoves
<1>2. AtWork' = AtWork
  BY <1>1 DEF AtWork
<1>3. PortfolioTyped'
  <2>1. \A r \in AtWork' : /\ current' # Nothing
                           /\ run'[r].force => run'[r].fresh
                           /\ run'[r].fresh => run'[r].since \in 1 .. world'
    BY <1>0, <1>1, <1>2 DEF PortfolioTyped
  <2>2. moved' \in BOOLEAN /\ world' \in Nat \ {0}
    BY <1>0, <1>1 DEF PortfolioTyped
  <2>. QED  BY <1>0, <1>1, <2>1, <2>2 DEF PortfolioTyped
<1>4. ~overlapped' => \A r, s \in AtWork' : r = s
  BY <1>1, <1>2 DEF PortfolioInOrder
<1>5. ASSUME ~overlapped, ~moved' PROVE Drawn'
  <2>1. Drawn /\ ~moved /\ \A r \in AtWork : ~run[r].fresh
    BY <1>1, <1>5 DEF PortfolioInOrder
  <2>2. \A r \in AtWork' : RunHolds(r)'
    BY <1>1, <1>2, <2>1 DEF Drawn, RunHolds
  <2>3. \A ps : AtPart(ps)' <=> AtPart(ps)
    BY <1>1 DEF AtPart
  <2>4. /\ SummaryHolds /\ ChartHolds => SummaryHolds' /\ ChartHolds'
        /\ FlowsHold => FlowsHold'
    BY <1>1 DEF SummaryHolds, ChartHolds, FlowsHold, Meets
  <2>. QED  BY <1>1, <2>1, <2>2, <2>3, <2>4 DEF Drawn
<1>. QED  BY <1>1, <1>3, <1>4, <1>5 DEF PortfolioInOrder

\* Every step of the page keeps it in order.
LEMMA PortfolioStep == PortfolioInOrder /\ [PortfolioNext]_portfolioVars => PortfolioInOrder'
<1>. SUFFICES ASSUME PortfolioInOrder, [PortfolioNext]_portfolioVars PROVE PortfolioInOrder'
  OBVIOUS
<1>1. CASE UNCHANGED portfolioVars
  BY <1>1 DEF portfolioVars, PortfolioInOrder, PortfolioTyped, Drawn, RunHolds, SummaryHolds,
     ChartHolds, FlowsHold, Meets, AtPart, AtWork
<1>2. ASSUME NEW r \in Run,
             Opens(r) \/ ClickRefresh(r) \/ (\E c \in Currency : ChooseCurrency(r, c))
               \/ (\E d \in From : ChooseFrom(r, d))
      PROVE  PortfolioInOrder'
  <2>1. select \in Selects
    BY DEF PortfolioInOrder, PortfolioTyped
  <2>2. /\ \A c \in Currency : [select EXCEPT !.currency = c] \in Selects
        /\ \A d \in From : [select EXCEPT !.from = d] \in Selects
    BY <2>1 DEF Selects
  <2>3. \E to \in Selects, force \in BOOLEAN : Refresh(r, to, force)
    BY <1>2, <2>1, <2>2 DEF Opens, ClickRefresh, ChooseCurrency, ChooseFrom
  <2>. QED  BY <2>3, RefreshStep
<1>. QED
  BY <1>1, <1>2, GranularityStep, SummaryReadyStep, SummaryFailsStep, ChartStep, MovementsStep,
     FlowsReadyStep, FlowsFailStep, WorldMovesStep DEF PortfolioNext

\* Whatever currencies, periods and granularities there are, and however many runs and
\* versions of the world: once a refresh that no other run overlapped is over, and nothing
\* changed while it computed anew, chart and flows are for what the selects say and of the
\* summary's base, opening included.
THEOREM PartsMeet == PortfolioSpec => []ChartMeetsSummary
<1>1. ASSUME PortfolioInOrder PROVE ChartMeetsSummary
  <2>. SUFFICES ASSUME AtWork = {}, ~overlapped, ~moved, summary # Nothing
                PROVE  /\ summary.of = [currency |-> select.currency, from |-> select.from]
                       /\ summary.opening.from = select.from
                       /\ ChartHolds /\ FlowsHold
    BY DEF ChartMeetsSummary, ChartHolds, FlowsHold
  <2>1. Drawn /\ PortfolioTyped
    BY <1>1 DEF PortfolioInOrder
  <2>2. ~AtPart({"summary"}) /\ ~AtPart({"summary", "chart", "flows", "explain"})
    BY DEF AtPart, AtWork
  <2>3. SummaryHolds /\ ChartHolds /\ FlowsHold
    BY <2>1, <2>2 DEF Drawn
  <2>4. current = PeriodOf(select) /\ select \in Selects
    BY <2>1, <2>3 DEF PortfolioTyped, SummaryHolds
  <2>5. summary.opening.from = select.from
    BY <2>3, <2>4, PeriodFacts, SomethingFacts DEF SummaryHolds
  <2>. QED  BY <2>3, <2>4, <2>5 DEF SummaryHolds, PeriodOf
<1>. QED  BY <1>1, PortfolioInitInOrder, PortfolioStep, PTL DEF PortfolioSpec
=============================================================================

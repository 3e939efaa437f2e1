------------------------------ MODULE Promotion ------------------------------
(***************************************************************************)
(* Promoting a quarter from one environment to the next                    *)
(* (packages/database/src/seed/promote-reference-data.ts and its pipeline).*)
(* Export reads the source's dataset in use, its load log and its row      *)
(* counts one after the other and then downloads each group's file by      *)
(* name, while people go on using the source; import uploads the files to  *)
(* the target, loads them one by one and checks what came of it. A job may *)
(* stop at any step, and import may be run again on what export wrote.     *)
(*                                                                         *)
(* A load is two steps at the target, which is what ConsulteeDatasets is   *)
(* shown to make of it (KeepsPromise): the group's rows go, then the       *)
(* file's are there and the quarter may come into use. One that stops      *)
(* part-way leaves none of the group's rows, or some.                      *)
(***************************************************************************)
EXTENDS Integers, Sequences

CONSTANTS
  Groups, GroupOrder,  \* the groups, and the order the config lists them in
  Quarter,             \* the quarter promoted
  Befores,             \* the quarters the target may be using
  Names,               \* names of the group files of the quarter
  Versions,            \* what those files may hold: [group, name, size]
  SourceCount,         \* the rows each loads with the source's release ...
  TargetCount,         \* ... and with the target's: the config decides which load
  SourceFirst,         \* the version loaded of each group at the source, or None
  TargetGroups,        \* sets of groups that may have rows in the target's
  TargetBlobFirst,     \* what its blob storage holds under each name
  MaxChanges,          \* loads and uploads at the source while export runs
  MayFail,             \* may a job stop at any step?
  MaxImports,          \* how often import is run
  None, Old, Some      \* no rows; rows of no file of the quarter's; a failed load's

Version == [group : Groups, name : Names, size : Nat]
LogRow == [version : Versions, rowsLoaded : Nat]

\* How many rows a group has. What a failed load leaves is no file's number of
\* rows (PromotableIsWhole of ConsulteeDatasets).
CountOf(count, held) ==
  IF held = None THEN 0 ELSE IF held \in {Old, Some} THEN 1 ELSE count[held]

ASSUME PromotionAssumption ==
  /\ GroupOrder \in Seq(Groups) /\ Len(GroupOrder) > 0
  /\ Quarter \in Nat /\ Befores \subseteq Nat
  /\ Versions \subseteq Version /\ Versions \cap {None, Old, Some} = {}
  /\ \A v, w \in Versions : v.name = w.name => v.group = w.group  \* parseGroupBlobName
  /\ SourceCount \in [Versions -> Nat] /\ TargetCount \in [Versions -> Nat]
  /\ \A v \in Versions : SourceCount[v] > 1
  /\ SourceFirst \in [Groups -> Versions \cup {None}]
  /\ \A g \in Groups : SourceFirst[g] # None => SourceFirst[g].group = g
  /\ TargetGroups \subseteq SUBSET Groups
  /\ TargetBlobFirst \in [Names -> Versions \cup {None}]
  /\ MayFail \in BOOLEAN /\ MaxChanges \in Nat /\ MaxImports \in Nat \ {0}

VARIABLES
  sourceRows,  \* whose rows the source's dataset holds of each group
  sourceLog,   \* each group's newest load there
  sourceBlob,  \* what each name holds in the source's blob storage
  changes,     \* how often the source has changed since export began
  pc,          \* the step the pipeline is at
  at,          \* the group, or the manifest's file, that step is for
  loads,       \* the log rows export read
  manifest,    \* the files it wrote: [group, name, rowsLoaded]
  dir,         \* the version downloaded of each file
  usedBefore,  \* the dataset in use that import found at the target
  mismatched,  \* groups that loaded another number of rows
  imports,     \* how often import has been run
  targetUse,   \* the dataset in use at the target
  usedGroups,  \* the groups with rows in the one it used first
  targetRows,  \* whose rows the target's dataset of the quarter holds
  targetBlob,  \* what each name holds in the target's blob storage
  checked,     \* history: the source's rows when export counted each group
  seenBefore   \* history: what screening found when import was last begun

source == <<sourceRows, sourceLog, sourceBlob, changes>>
exported == <<loads, manifest, dir, checked>>
target == <<targetUse, usedGroups, targetRows, targetBlob>>
importing == <<usedBefore, mismatched, imports, seenBefore>>
vars == <<sourceRows, sourceLog, sourceBlob, changes, pc, at, loads, manifest, dir,
          usedBefore, mismatched, imports, targetUse, usedGroups, targetRows, targetBlob, checked, seenBefore>>

ExportSteps == {"exportInUse", "exportLoads", "exportCounts", "download"}
ImportSteps == {"import", "upload", "load", "loading", "compare", "goBack", "confirm"}
ImportFailures == {"importFailed", "mismatch", "waiting"}

\* What screening at the target finds of each group.
Seen == IF targetUse = Quarter THEN targetRows
        ELSE [g \in Groups |-> IF g \in usedGroups THEN Old ELSE None]

Init ==
  /\ sourceRows = SourceFirst
  /\ sourceLog = [g \in Groups |-> IF SourceFirst[g] = None THEN None
       ELSE [version |-> SourceFirst[g], rowsLoaded |-> SourceCount[SourceFirst[g]]]]
  /\ sourceBlob = [n \in Names |->
       IF \E g \in Groups : SourceFirst[g] # None /\ SourceFirst[g].name = n
       THEN CHOOSE v \in Versions : v.name = n /\ v = SourceFirst[v.group] ELSE None]
  /\ changes = 0
  /\ pc = "exportInUse" /\ at = 1
  /\ loads = [g \in Groups |-> None] /\ manifest = <<>> /\ dir = [n \in Names |-> None]
  /\ checked = [g \in Groups |-> None]
  /\ targetUse \in Befores /\ usedGroups \in TargetGroups
  /\ targetRows = [g \in Groups |-> IF targetUse = Quarter /\ g \in usedGroups THEN Old ELSE None]
  /\ targetBlob = TargetBlobFirst
  /\ usedBefore = targetUse /\ mismatched = {} /\ imports = 0
  /\ seenBefore = Seen

\* The pipeline goes from one step to the next.
Moves(here, next) == pc = here /\ pc' = next

\* Mutant: the cursor is left past the end.
MovesThroughMutant(here, last, next) ==
  /\ Moves(here, IF at = last THEN next ELSE here)
  /\ at' = at + 1

\* ... taking the groups or files in turn, `next` after the last.
MovesThrough(here, last, next) ==
  /\ Moves(here, IF at = last THEN next ELSE here)
  /\ at' = IF at = last THEN 1 ELSE at + 1

------------------------------------------------------------------------------
(* The source, where people may load, upload and clear while export runs *)

\* A file is uploaded, over one of the same name if there is one.
SourceUpload(v) ==
  /\ sourceBlob' = [sourceBlob EXCEPT ![v.name] = v]
  /\ UNCHANGED <<sourceRows, sourceLog>>

\* A group's file is loaded: to its end, or leaving some or no rows and a log
\* row that counts none, or none at all.
SourceLoad(v) ==
  /\ sourceBlob[v.name] = v
  /\ \/ /\ sourceRows' = [sourceRows EXCEPT ![v.group] = v]
        /\ sourceLog' = [sourceLog EXCEPT
             ![v.group] = [version |-> v, rowsLoaded |-> SourceCount[v]]]
     \/ \E left \in {None, Some} :
          /\ sourceRows' = [sourceRows EXCEPT ![v.group] = left]
          /\ sourceLog' \in {sourceLog, [sourceLog EXCEPT
               ![v.group] = [version |-> v, rowsLoaded |-> 0]]}
  /\ UNCHANGED sourceBlob

\* A full import puts in rows of no group's file, and empties the log.
SourceReplace ==
  /\ sourceRows' = [g \in Groups |-> Old]
  /\ sourceLog' = [g \in Groups |-> None]
  /\ UNCHANGED sourceBlob

SourceChange ==
  /\ pc \in ExportSteps /\ changes < MaxChanges
  /\ changes' = changes + 1
  /\ (\E v \in Versions : SourceUpload(v) \/ SourceLoad(v)) \/ SourceReplace
  /\ UNCHANGED <<pc, at, exported, target, importing>>

------------------------------------------------------------------------------
(* Export *)

\* Only the dataset in use is promoted; the source may be using another.
ExportInUse ==
  /\ Moves("exportInUse", "exportLoads") \/ Moves("exportInUse", "exportRefused")
  /\ UNCHANGED <<source, at, exported, target, importing>>

ExportLoads ==
  /\ Moves("exportLoads", "exportCounts")
  /\ loads' = sourceLog
  /\ UNCHANGED <<source, at, manifest, dir, checked, target, importing>>

\* A group's rows are counted, and are what its last load put in or export stops.
ExportCount ==
  LET g == GroupOrder[at]
      rows == CountOf(SourceCount, sourceRows[g])
      refuse == IF loads[g] = None THEN rows > 0 ELSE loads[g].rowsLoaded # rows
      files == IF loads[g] = None THEN manifest
               ELSE Append(manifest, [group |-> g, name |-> loads[g].version.name,
                                      rowsLoaded |-> loads[g].rowsLoaded]) IN
  /\ pc = "exportCounts"
  /\ IF refuse THEN Moves("exportCounts", "exportRefused") /\ UNCHANGED <<at, manifest>>
     ELSE /\ MovesThrough("exportCounts", Len(GroupOrder),
               IF files = <<>> THEN "exportRefused" ELSE "download")
          /\ manifest' = files
  /\ checked' = [checked EXCEPT ![g] = sourceRows[g]]
  /\ UNCHANGED <<source, loads, dir, target, importing>>

\* One file, as its name holds it by now.
Download ==
  /\ MovesThrough("download", Len(manifest), "import")
  /\ dir' = [dir EXCEPT ![manifest[at].name] = sourceBlob[manifest[at].name]]
  /\ UNCHANGED <<source, loads, manifest, checked, target, importing>>

------------------------------------------------------------------------------
(* Import *)

\* parseManifest, and reading what the target uses now.
BeginImport ==
  /\ Moves("import", IF \E i \in 1..Len(manifest) : manifest[i].rowsLoaded < 1
                     THEN "importFailed" ELSE "upload")
  /\ usedBefore' = targetUse
  /\ mismatched' = {}
  /\ imports' = imports + 1
  /\ seenBefore' = Seen
  /\ at' = 1
  /\ UNCHANGED <<source, exported, target>>

\* A file already there under the name is left if it is as large, else refused.
Upload ==
  LET v == dir[manifest[at].name]  there == targetBlob[v.name] IN
  /\ pc = "upload"
  /\ IF there # None /\ there.size # v.size
     THEN Moves("upload", "importFailed") /\ UNCHANGED <<at, targetBlob>>
     ELSE /\ MovesThrough("upload", Len(manifest), "load")
          /\ targetBlob' = IF there = None THEN [targetBlob EXCEPT ![v.name] = v] ELSE targetBlob
  /\ UNCHANGED <<source, exported, importing, targetUse, usedGroups, targetRows>>

\* A load refuses a file with no rows it would load, or from an earlier quarter
\* than the one in use; else the group's rows go.
BeginLoad ==
  LET v == dir[manifest[at].name] IN
  /\ pc = "load"
  /\ IF TargetCount[v] = 0 \/ Quarter < targetUse
     THEN Moves("load", "importFailed") /\ UNCHANGED targetRows
     ELSE /\ Moves("load", "loading")
          /\ targetRows' = [targetRows EXCEPT ![v.group] = None]
  /\ UNCHANGED <<source, at, exported, importing, targetUse, usedGroups, targetBlob>>

\* Mutants: only a file that loads fewer rows differs; the quarter is ready if
\* every group was there before this load.
EndLoadFewer ==
  LET v == dir[manifest[at].name]
      held == [targetRows EXCEPT ![v.group] = v]
      ready == Quarter > targetUse /\ \A g \in Groups : Seen[g] # None => held[g] # None IN
  /\ Moves("loading", IF at = Len(manifest) THEN "compare" ELSE "load")
  /\ at' = IF at = Len(manifest) THEN 1 ELSE at + 1
  /\ targetRows' = held
  /\ targetUse' = IF ready THEN Quarter ELSE targetUse
  /\ mismatched' = IF TargetCount[v] >= manifest[at].rowsLoaded THEN mismatched
                   ELSE mismatched \cup {v.group}
  /\ UNCHANGED <<source, exported, usedGroups, targetBlob, usedBefore, imports, seenBefore>>
EndLoadStale ==
  LET v == dir[manifest[at].name]
      held == [targetRows EXCEPT ![v.group] = v]
      ready == Quarter > targetUse /\ \A g \in Groups : Seen[g] # None => targetRows[g] # None IN
  /\ Moves("loading", IF at = Len(manifest) THEN "compare" ELSE "load")
  /\ at' = IF at = Len(manifest) THEN 1 ELSE at + 1
  /\ targetRows' = held
  /\ targetUse' = IF ready THEN Quarter ELSE targetUse
  /\ mismatched' = IF TargetCount[v] = manifest[at].rowsLoaded THEN mismatched
                   ELSE mismatched \cup {v.group}
  /\ UNCHANGED <<source, exported, usedGroups, targetBlob, usedBefore, imports, seenBefore>>

\* The quarter comes into use with the load that leaves it waiting for no group.
EndLoad ==
  LET v == dir[manifest[at].name]
      held == [targetRows EXCEPT ![v.group] = v]
      ready == Quarter > targetUse /\ \A g \in Groups : Seen[g] # None => held[g] # None IN
  /\ Moves("loading", IF at = Len(manifest) THEN "compare" ELSE "load")
  /\ at' = IF at = Len(manifest) THEN 1 ELSE at + 1
  /\ targetRows' = held
  /\ targetUse' = IF ready THEN Quarter ELSE targetUse
  /\ mismatched' = IF TargetCount[v] = manifest[at].rowsLoaded THEN mismatched
                   ELSE mismatched \cup {v.group}
  /\ UNCHANGED <<source, exported, usedGroups, targetBlob, usedBefore, imports, seenBefore>>

\* Mutant: the dataset in use is left as the loads made it.
CompareMutant ==
  /\ Moves("compare", IF mismatched = {} THEN "confirm" ELSE "mismatch")
  /\ UNCHANGED <<source, at, exported, importing, target>>

\* switchedBack: only from the quarter, and only if it was not used before.
Compare ==
  /\ Moves("compare", IF mismatched = {} THEN "confirm"
                      ELSE IF usedBefore # Quarter /\ targetUse = Quarter THEN "goBack"
                      ELSE "mismatch")
  /\ UNCHANGED <<source, at, exported, importing, target>>

GoBack ==
  /\ Moves("goBack", "mismatch")
  /\ targetUse' = usedBefore
  /\ UNCHANGED <<source, at, exported, importing, usedGroups, targetRows, targetBlob>>

Confirm ==
  /\ Moves("confirm", IF targetUse = Quarter THEN "promoted" ELSE "waiting")
  /\ UNCHANGED <<source, at, exported, importing, target>>

\* A job stops at a step: a request fails, or the agent is lost. A load that was
\* going leaves some of its rows or none.
Fail ==
  /\ MayFail
  /\ \/ pc \in ExportSteps /\ pc' = "exportFailed"
     \/ pc \in ImportSteps /\ imports > 0 /\ pc' = "importFailed"
  /\ IF pc = "loading"
     THEN targetRows' \in {[targetRows EXCEPT ![dir[manifest[at].name].group] = left] :
                             left \in {None, Some}}
     ELSE UNCHANGED targetRows
  /\ UNCHANGED <<source, at, exported, importing, targetUse, usedGroups, targetBlob>>

\* The pipeline's import job is run again on the files export wrote.
ImportAgain ==
  /\ pc \in ImportFailures /\ imports < MaxImports
  /\ pc' = "import"
  /\ UNCHANGED <<source, at, exported, importing, target>>

Pipeline ==
  \/ ExportInUse \/ ExportLoads \/ ExportCount \/ Download
  \/ BeginImport \/ Upload \/ BeginLoad \/ EndLoad \/ Compare \/ GoBack \/ Confirm

Next == Pipeline \/ SourceChange \/ Fail \/ ImportAgain

Spec == Init /\ [][Next]_vars

------------------------------------------------------------------------------
(* Properties *)

\* Every variable has a value of its kind.
TypeOK ==
  /\ sourceRows \in [Groups -> Versions \cup {None, Old, Some}]
  /\ sourceLog \in [Groups -> LogRow \cup {None}] /\ loads \in [Groups -> LogRow \cup {None}]
  /\ sourceBlob \in [Names -> Versions \cup {None}] /\ targetBlob \in [Names -> Versions \cup {None}]
  /\ pc \in ExportSteps \cup ImportSteps \cup ImportFailures
           \cup {"exportRefused", "exportFailed", "promoted"}
  /\ at \in 1..Len(GroupOrder) /\ changes \in 0..MaxChanges
  /\ manifest \in Seq([group : Groups, name : Names, rowsLoaded : Nat])
  /\ dir \in [Names -> Versions \cup {None}]
  /\ usedGroups \in SUBSET Groups
  /\ usedBefore \in Befores \cup {Quarter} /\ targetUse \in Befores \cup {Quarter}
  /\ mismatched \subseteq Groups /\ imports \in 0..MaxImports
  /\ targetRows \in [Groups -> Versions \cup {None, Old, Some}]
  /\ checked \in [Groups -> Versions \cup {None, Old, Some}]
  /\ seenBefore \in [Groups -> Versions \cup {None, Old, Some}]

\* Nobody screens against data that differs from what was checked: a promotion
\* that says it succeeded leaves the target on the quarter, with each group's
\* rows from the very version the source held when export counted that group,
\* whatever was uploaded or loaded at the source meanwhile. Nothing but numbers
\* of rows ties the steps together, so this asks that they tell versions apart.
PromotedIsChecked ==
  pc = "promoted" =>
    /\ targetUse = Quarter
    /\ \A g \in Groups : checked[g] # None => targetRows[g] = checked[g]

\* A promotion that a different number of rows ends, on a target that was using
\* another quarter, leaves what screening finds there as it was.
MismatchGoesBack ==
  pc = "mismatch" /\ usedBefore # Quarter => Seen = seenBefore

\* A promotion that ends with the quarter not in use can say what it waits for:
\* a group with rows in use that has none in the quarter. A newer dataset than
\* the quarter would have refused the loads.
WaitingHasReason ==
  pc = "waiting" => \E g \in Groups : Seen[g] # None /\ targetRows[g] = None

\* "A failed promotion changes nothing anyone sees."
FailedIsUnseen == pc \in ImportFailures => Seen = seenBefore

=============================================================================

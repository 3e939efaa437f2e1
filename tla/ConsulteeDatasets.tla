-------------------------- MODULE ConsulteeDatasets --------------------------
(***************************************************************************)
(* The reference data: a table of consultee areas per quarter, the synonym *)
(* consultee_area that points at the dataset in use, and the log of group  *)
(* loads (packages/database/src/seed/consultee-area-groups.ts, its loader, *)
(* and the two stored procedures of migration 20261022090000).             *)
(*                                                                         *)
(* A request is one call of importConsulteeAreaGroup, clearConsulteeAreas, *)
(* importConsulteeAreas or the use procedure. Nothing but a single SQL     *)
(* statement is atomic: no transaction and no lock spans two of them, so   *)
(* there is one action per statement and requests interleave between them. *)
(* Any statement may be the last one a request runs (Fail).                *)
(*                                                                         *)
(* Abstractions. A row is an area's id and the file it was last merged     *)
(* from. A group's ids are its own. Rows a delete takes and rows a MERGE   *)
(* carries are any of those left. reference_data_load is read and updated  *)
(* only at a group's newest row in a quarter, so that row is all log       *)
(* keeps.                                                                  *)
(***************************************************************************)
EXTENDS Integers, Sequences, FiniteSets

CONSTANTS
  Groups,           \* the groups of config/reference-data.yaml
  GroupOrder,       \* the order the config lists them in
  Areas,            \* ids of consultee areas
  Quarters,         \* the quarters that have data, as numbers
  FirstQuarter,     \* the quarter the migration renames today's table to
  Files,            \* the group files a load may be given
  ReferenceExport,  \* the full import's file, as the source of a row
  ExportAreas,      \* what the full import's file holds of each group
  Requests,         \* the calls a behaviour may make
  Operations,       \* which kinds of call are made
  Overlap,          \* which calls may run at once: "none"; "apart": not two
                    \* loads of one group of a quarter, and no full import
                    \* beside anything; or "any", which is what the code allows
  MayFail,          \* may a running call stop at any statement?
  GroupBatch,       \* GROUP_ROWS_PER_STATEMENT
  ClearBatch,       \* CLEAR_BATCH_SIZE
  None              \* no file, no log row

Row == Areas \X (Files \cup {ReferenceExport})
FileRecord == [group : Groups, date : Nat, areas : SUBSET Areas,
               duplicates : Nat, foreign : BOOLEAN]
LogRow == [file : Files, rowsLoaded : Nat]

\* The quarter a date is in. A date is a month, counted from a January.
QuarterOf(date) == date \div 3
FileQuarter(f) == QuarterOf(f.date)

\* What a file holds as rows, and how many features the load counts: a file
\* may hold a feature twice, which a MERGE takes as one row.
FileRows(f) == f.areas \X {f}
FeatureCount(f) == Cardinality(f.areas) + f.duplicates

ASSUME DatasetsAssumption ==
  /\ IsFiniteSet(Groups) /\ IsFiniteSet(Areas) /\ IsFiniteSet(Files)
  /\ GroupOrder \in Seq(Groups) /\ Len(GroupOrder) > 0
  /\ \A g \in Groups : \E i \in 1..Len(GroupOrder) : GroupOrder[i] = g
  /\ Quarters \subseteq Nat /\ FirstQuarter \in Quarters
  /\ Files \subseteq FileRecord
  /\ \A f \in Files : FileQuarter(f) \in Quarters
  /\ ReferenceExport \notin Files /\ None \notin Files /\ None \notin LogRow
  /\ ExportAreas \in [Groups -> SUBSET Areas]
  /\ Operations \subseteq {"load", "clear", "replace", "use"}
  /\ Overlap \in {"none", "apart", "any"} /\ MayFail \in BOOLEAN
  /\ GroupBatch \in Nat \ {0} /\ ClearBatch \in Nat \ {0}

VARIABLES
  tables,   \* the quarters that have a table
  inUse,    \* the quarter the synonym points at
  rows,     \* rows[q][g]: the group's rows in the quarter's table
  log,      \* log[q][g]: the group's newest load row for the quarter
  pc,       \* the statement each request runs next
  file,     \* the file each load was given
  target,   \* the quarter each request works on
  todo,     \* areas of its file each load has still to merge, by group
  at,       \* the group each readiness check counts next
  needed,   \* groups it has seen rows of in the dataset in use
  waiting   \* needed groups it has seen no rows of in the quarter

shared == <<tables, inUse, rows, log>>
check == <<at, needed, waiting>>
vars == <<tables, inUse, rows, log, pc, file, target, todo, at, needed, waiting>>

LoadSteps == {"check", "create", "delete", "log", "chunks", "logRows",
              "readInUse", "countInUse", "countLoaded", "use"}
ReplaceSteps == {"replaceClear", "replaceRead", "replaceLog", "replaceChunks"}
Running == LoadSteps \cup ReplaceSteps \cup {"clear", "useByHand"}
Ended == {"done", "refused", "failed"}

NoLoads == [g \in Groups |-> None]
ExportTodo == {ga \in Groups \X Areas : ga[2] \in ExportAreas[ga[1]]}

Init ==
  /\ tables = {FirstQuarter}
  /\ inUse = FirstQuarter
  /\ rows = [q \in Quarters |-> [g \in Groups |->
        IF q = FirstQuarter THEN ExportAreas[g] \X {ReferenceExport} ELSE {}]]
  /\ log = [q \in Quarters |-> NoLoads]
  /\ pc = [s \in Requests |-> "idle"]
  /\ file = [s \in Requests |-> None]
  /\ target = [s \in Requests |-> FirstQuarter]
  /\ todo = [s \in Requests |-> {}]
  /\ at = [s \in Requests |-> 1]
  /\ needed = [s \in Requests |-> {}]
  /\ waiting = [s \in Requests |-> {}]

------------------------------------------------------------------------------
(* Helpers *)

Smaller(m, n) == IF m < n THEN m ELSE n

\* Request s has control at `here`, and goes on to `next`.
Moves(s, here, next) == pc[s] = here /\ pc' = [pc EXCEPT ![s] = next]

\* Whoever submits request s keeps to the overlap assumed of the callers: the
\* code itself has no check of what else is running.
Idle(s) ==
  /\ pc[s] = "idle"
  /\ Overlap = "none" => \A r \in Requests : pc[r] \notin Running
  /\ Overlap = "apart" => \A r \in Requests : pc[r] \notin ReplaceSteps

\* A table's rows, each with the group it is of.
TableRows(q) == {gr \in Groups \X Row : gr[2] \in rows[q][gr[1]]}

\* A group's rows with a set of <<group, area>> merged by id from a source, and
\* the table they are in.
MergedGroup(q, g, chunk, source) ==
  {r \in rows[q][g] : <<g, r[1]>> \notin chunk}
    \cup {<<a, source>> : a \in {b \in Areas : <<g, b>> \in chunk}}
Merged(q, chunk, source) ==
  [rows EXCEPT ![q] = [g \in Groups |-> MergedGroup(q, g, chunk, source)]]

\* The table without a set of <<group, row>>.
Without(q, gone) ==
  [rows EXCEPT ![q] = [g \in Groups |-> {r \in rows[q][g] : <<g, r>> \notin gone}]]

\* One DELETE TOP (batch) of a table, and whether it was the last.
DeleteTop(s, q, batch, next) ==
  \E gone \in SUBSET TableRows(q) :
    /\ Cardinality(gone) = Smaller(batch, Cardinality(TableRows(q)))
    /\ rows' = Without(q, gone)
    /\ pc' = [pc EXCEPT ![s] = IF Cardinality(gone) < batch THEN next ELSE @]

------------------------------------------------------------------------------
(* Loading a group: importConsulteeAreaGroup *)

\* The first pass over the file: a feature of another group's category, or no
\* feature at all, refuses the load.
SubmitLoad(s, f) ==
  /\ "load" \in Operations /\ Idle(s)
  /\ Overlap = "apart" => \A r \in Requests : pc[r] \in LoadSteps =>
       file[r].group # f.group \/ FileQuarter(file[r]) # FileQuarter(f)
  /\ pc' = [pc EXCEPT ![s] = IF f.foreign \/ f.areas = {} THEN "refused" ELSE "check"]
  /\ file' = [file EXCEPT ![s] = f]
  /\ target' = [target EXCEPT ![s] = FileQuarter(f)]
  /\ UNCHANGED <<shared, todo, check>>

\* Mutant: any quarter's file is loaded.
CheckQuarterMutant(s) ==
  /\ Moves(s, "check", "create")
  /\ UNCHANGED <<shared, file, target, todo, check>>

\* beforeLoad: a file from an earlier quarter than the one in use is refused.
CheckQuarter(s) ==
  /\ Moves(s, "check", IF target[s] < inUse THEN "refused" ELSE "create")
  /\ UNCHANGED <<shared, file, target, todo, check>>

\* EXEC dbo.create_consultee_area_dataset: does nothing if the table is there.
CreateDataset(s) ==
  /\ Moves(s, "create", "delete")
  /\ tables' = tables \cup {target[s]}
  /\ UNCHANGED <<inUse, rows, log, file, target, todo, check>>

\* Mutant: a full batch is taken for the last one.
DeleteGroupRowsMutant(s) ==
  LET q == target[s]  g == file[s].group IN
  /\ pc[s] = "delete"
  /\ \E gone \in SUBSET rows[q][g] :
       /\ Cardinality(gone) = Smaller(GroupBatch, Cardinality(rows[q][g]))
       /\ rows' = [rows EXCEPT ![q][g] = @ \ gone]
       /\ pc' = [pc EXCEPT ![s] = IF Cardinality(gone) <= GroupBatch THEN "log" ELSE @]
  /\ UNCHANGED <<tables, inUse, log, file, target, todo, check>>

\* One statement of deleteGroupRows.
DeleteGroupRows(s) ==
  LET q == target[s]  g == file[s].group IN
  /\ pc[s] = "delete"
  /\ \E gone \in SUBSET rows[q][g] :
       /\ Cardinality(gone) = Smaller(GroupBatch, Cardinality(rows[q][g]))
       /\ rows' = [rows EXCEPT ![q][g] = @ \ gone]
       /\ pc' = [pc EXCEPT ![s] = IF Cardinality(gone) < GroupBatch THEN "log" ELSE @]
  /\ UNCHANGED <<tables, inUse, log, file, target, todo, check>>

\* INSERT INTO reference_data_load, before the rows go in.
LogLoad(s) ==
  LET q == target[s]  g == file[s].group IN
  /\ Moves(s, "log", "chunks")
  /\ log' = [log EXCEPT ![q][g] = [file |-> file[s], rowsLoaded |-> 0]]
  /\ todo' = [todo EXCEPT ![s] = {g} \X file[s].areas]
  /\ UNCHANGED <<tables, inUse, rows, file, target, check>>

\* One MERGE of loadConsulteeAreas into the quarter's table.
LoadChunk(s) ==
  /\ pc[s] = "chunks"
  /\ \E chunk \in (SUBSET todo[s]) \ {{}} :
       /\ rows' = Merged(target[s], chunk, file[s])
       /\ todo' = [todo EXCEPT ![s] = @ \ chunk]
       /\ pc' = [pc EXCEPT ![s] = IF chunk = todo[s] THEN "logRows" ELSE @]
  /\ UNCHANGED <<tables, inUse, log, file, target, check>>

\* Mutant: the load ends with a sweep of every row of the group not its own.
LogRowsLoadedMutant(s) ==
  LET q == target[s]  g == file[s].group IN
  /\ Moves(s, "logRows", "readInUse")
  /\ rows' = [rows EXCEPT ![q][g] = {r \in @ : r[2] = file[s]}]
  /\ log' = IF log[q][g] = None THEN log
            ELSE [log EXCEPT ![q][g].rowsLoaded = FeatureCount(file[s])]
  /\ UNCHANGED <<tables, inUse, file, target, todo, check>>

\* UPDATE reference_data_load: the newest row of the group and quarter, whoever
\* inserted it; none if a full import has deleted them.
LogRowsLoaded(s) ==
  LET q == target[s]  g == file[s].group IN
  /\ Moves(s, "logRows", "readInUse")
  /\ log' = IF log[q][g] = None THEN log
            ELSE [log EXCEPT ![q][g].rowsLoaded = FeatureCount(file[s])]
  /\ UNCHANGED <<tables, inUse, rows, file, target, todo, check>>

\* Only a quarter newer than the one in use goes on to groupsStillToLoad.
ReadInUse(s) ==
  /\ Moves(s, "readInUse", IF target[s] > inUse THEN "countInUse" ELSE "done")
  /\ at' = [at EXCEPT ![s] = 1]
  /\ needed' = [needed EXCEPT ![s] = {}]
  /\ waiting' = [waiting EXCEPT ![s] = {}]
  /\ UNCHANGED <<shared, file, target, todo>>

\* Mutant: every group of the config is waited for, with data in use or not.
CountInUseMutant(s) ==
  LET last == at[s] = Len(GroupOrder) IN
  /\ Moves(s, "countInUse", IF last THEN "countLoaded" ELSE "countInUse")
  /\ at' = [at EXCEPT ![s] = IF last THEN 1 ELSE @ + 1]
  /\ needed' = [needed EXCEPT ![s] = @ \cup {GroupOrder[at[s]]}]
  /\ UNCHANGED <<shared, file, target, todo, waiting>>

\* groupRowCounts through the synonym: one count, resolved when it runs.
CountInUse(s) ==
  LET g == GroupOrder[at[s]]  last == at[s] = Len(GroupOrder) IN
  /\ Moves(s, "countInUse", IF last THEN "countLoaded" ELSE "countInUse")
  /\ at' = [at EXCEPT ![s] = IF last THEN 1 ELSE @ + 1]
  /\ needed' = IF rows[inUse][g] = {} THEN needed
               ELSE [needed EXCEPT ![s] = @ \cup {g}]
  /\ UNCHANGED <<shared, file, target, todo, waiting>>

\* Mutants: only the last group counted decides; the cursor is not reset.
CountLoadedMutant(s) ==
  LET g == GroupOrder[at[s]]
      last == at[s] = Len(GroupOrder)
      left == {h \in needed[s] : h = g /\ rows[target[s]][g] = {}} IN
  /\ Moves(s, "countLoaded", IF ~last THEN "countLoaded"
                             ELSE IF left = {} THEN "use" ELSE "done")
  /\ at' = [at EXCEPT ![s] = IF last THEN 1 ELSE @ + 1]
  /\ waiting' = [waiting EXCEPT ![s] = left]
  /\ UNCHANGED <<shared, file, target, todo, needed>>
CountLoadedNoReset(s) ==
  LET g == GroupOrder[at[s]]
      last == at[s] = Len(GroupOrder)
      left == waiting[s] \cup {h \in needed[s] : h = g /\ rows[target[s]][g] = {}} IN
  /\ Moves(s, "countLoaded", IF ~last THEN "countLoaded"
                             ELSE IF left = {} THEN "use" ELSE "done")
  /\ at' = [at EXCEPT ![s] = @ + 1]
  /\ waiting' = [waiting EXCEPT ![s] = left]
  /\ UNCHANGED <<shared, file, target, todo, needed>>

\* groupRowCounts of the quarter's table, and what is then left to wait for.
CountLoaded(s) ==
  LET g == GroupOrder[at[s]]
      last == at[s] = Len(GroupOrder)
      left == waiting[s] \cup {h \in needed[s] : h = g /\ rows[target[s]][g] = {}} IN
  /\ Moves(s, "countLoaded", IF ~last THEN "countLoaded"
                             ELSE IF left = {} THEN "use" ELSE "done")
  /\ at' = [at EXCEPT ![s] = IF last THEN 1 ELSE @ + 1]
  /\ waiting' = [waiting EXCEPT ![s] = left]
  /\ UNCHANGED <<shared, file, target, todo, needed>>

\* EXEC dbo.use_consultee_area_dataset: it throws for a quarter with no table,
\* and checks nothing about the one it replaces.
UseDataset(s) ==
  /\ pc[s] \in {"use", "useByHand"}
  /\ pc' = [pc EXCEPT ![s] = IF target[s] \in tables THEN "done" ELSE "failed"]
  /\ inUse' = IF target[s] \in tables THEN target[s] ELSE inUse
  /\ UNCHANGED <<tables, rows, log, file, target, todo, check>>

------------------------------------------------------------------------------
(* The other callers: clearing a dataset, a full import, the use procedure *)

\* The admin page offers only the quarters listDatasets lists.
SubmitClear(s, q) ==
  /\ "clear" \in Operations /\ Idle(s)
  /\ pc' = [pc EXCEPT ![s] = IF q \in tables THEN "clear" ELSE "refused"]
  /\ target' = [target EXCEPT ![s] = q]
  /\ UNCHANGED <<shared, file, todo, check>>

ClearBatchOfRows(s) ==
  /\ pc[s] = "clear"
  /\ DeleteTop(s, target[s], ClearBatch, "done")
  /\ UNCHANGED <<tables, inUse, log, file, target, todo, check>>

\* importConsulteeAreas: the file has features, or nothing would be cleared.
SubmitReplace(s) ==
  /\ "replace" \in Operations /\ Idle(s)
  /\ Overlap = "apart" => \A r \in Requests : pc[r] \notin Running
  /\ Moves(s, "idle", IF ExportTodo = {} THEN "refused" ELSE "replaceClear")
  /\ UNCHANGED <<shared, file, target, todo, check>>

\* clearExistingRows deletes through the synonym.
ReplaceClear(s) ==
  /\ pc[s] = "replaceClear"
  /\ DeleteTop(s, inUse, ClearBatch, "replaceRead")
  /\ UNCHANGED <<tables, inUse, log, file, target, todo, check>>

ReplaceRead(s) ==
  /\ Moves(s, "replaceRead", "replaceLog")
  /\ target' = [target EXCEPT ![s] = inUse]
  /\ UNCHANGED <<shared, file, todo, check>>

\* DELETE FROM reference_data_load of the quarter that was read.
ReplaceLog(s) ==
  /\ Moves(s, "replaceLog", "replaceChunks")
  /\ log' = [log EXCEPT ![target[s]] = NoLoads]
  /\ todo' = [todo EXCEPT ![s] = ExportTodo]
  /\ UNCHANGED <<tables, inUse, rows, file, target, check>>

\* Each MERGE goes through the synonym, wherever it points by then.
ReplaceChunk(s) ==
  /\ pc[s] = "replaceChunks"
  /\ \E chunk \in (SUBSET todo[s]) \ {{}} :
       /\ rows' = Merged(inUse, chunk, ReferenceExport)
       /\ todo' = [todo EXCEPT ![s] = @ \ chunk]
       /\ pc' = [pc EXCEPT ![s] = IF chunk = todo[s] THEN "done" ELSE @]
  /\ UNCHANGED <<tables, inUse, log, file, target, check>>

\* The use procedure run for itself: by hand to go back to an earlier quarter
\* (kt-docs/data/data-model.md), or by a promotion that switches back.
SubmitUse(s, q) ==
  /\ "use" \in Operations /\ Idle(s)
  /\ pc' = [pc EXCEPT ![s] = "useByHand"]
  /\ target' = [target EXCEPT ![s] = q]
  /\ UNCHANGED <<shared, file, todo, check>>

\* A statement fails, times out at the client, or the app restarts: nothing
\* cleans up after the statements already run.
Fail(s) ==
  /\ MayFail /\ pc[s] \in Running
  /\ pc' = [pc EXCEPT ![s] = "failed"]
  /\ UNCHANGED <<shared, file, target, todo, check>>

Submit(s) ==
  \/ \E f \in Files : SubmitLoad(s, f)
  \/ \E q \in Quarters : SubmitClear(s, q) \/ SubmitUse(s, q)
  \/ SubmitReplace(s)

\* One statement of a running request.
Step(s) ==
  \/ CheckQuarter(s) \/ CreateDataset(s) \/ DeleteGroupRows(s) \/ LogLoad(s)
  \/ LoadChunk(s) \/ LogRowsLoaded(s) \/ ReadInUse(s) \/ CountInUse(s)
  \/ CountLoaded(s) \/ UseDataset(s)
  \/ ClearBatchOfRows(s)
  \/ ReplaceClear(s) \/ ReplaceRead(s) \/ ReplaceLog(s) \/ ReplaceChunk(s)

Next == \E s \in Requests : Submit(s) \/ Step(s) \/ Fail(s)

Spec == Init /\ [][Next]_vars

------------------------------------------------------------------------------
(* Properties *)

\* No request is running.
Quiet == \A s \in Requests : pc[s] \notin Running

\* Every variable has a value of its kind.
TypeOK ==
  /\ tables \subseteq Quarters
  /\ inUse \in Quarters
  /\ rows \in [Quarters -> [Groups -> SUBSET Row]]
  /\ log \in [Quarters -> [Groups -> LogRow \cup {None}]]
  /\ pc \in [Requests -> {"idle"} \cup Running \cup Ended]
  /\ file \in [Requests -> Files \cup {None}]
  /\ target \in [Requests -> Quarters]
  /\ todo \in [Requests -> SUBSET (Groups \X Areas)]
  /\ at \in [Requests -> 1..Len(GroupOrder)]
  /\ needed \in [Requests -> SUBSET Groups]
  /\ waiting \in [Requests -> SUBSET Groups]

\* What exportQuarter takes for "each group's rows are what its last load put
\* in" (rows counted = rows logged) is so: the rows are that file's, all of
\* them and no other's, however the loads before it ended.
PromotableIsWhole ==
  \A q \in Quarters, g \in Groups :
    /\ log[q][g] # None
    /\ rows[q][g] # {}
    /\ log[q][g].rowsLoaded = Cardinality(rows[q][g])
    => rows[q][g] = FileRows(log[q][g].file)

\* The same, asked for only while no request is running.
PromotableAtRest == Quiet => PromotableIsWhole

\* "Earlier quarters' tables are left as they are, as the archive": the rows of
\* a quarter older than the one in use change only when someone clears it.
ArchiveKept ==
  [][\A q \in Quarters :
       q < inUse /\ (\A s \in Requests : pc[s] = "clear" => target[s] # q)
         => rows'[q] = rows[q]]_vars

\* A group that screening finds rows of goes on having some: it loses them only
\* to a request replacing or clearing the dataset in use itself, or to a switch
\* someone makes by hand, and never to the switch a load makes.
NoGroupVanishes ==
  [][\A g \in Groups :
       /\ rows[inUse][g] # {}
       /\ \A s \in Requests :
            /\ pc[s] \in {"delete", "clear"} => target[s] # inUse
            /\ pc[s] \notin {"replaceClear", "useByHand"}
       => rows'[inUse'][g] # {}]_vars

\* "A newer quarter becomes the dataset in use once every group with data in
\* the one in use has been loaded into it": with no request running, no newer
\* quarter has rows of every group the one in use has rows of. Whichever load
\* finishes last, it sees what the others did.
NoMissedSwitch ==
  Quiet =>
    \A q \in tables : q > inUse =>
      \E g \in Groups : rows[inUse][g] # {} /\ rows[q][g] = {}

\* Loads of one group may overlap, and their rows mix; but with no request
\* running, every area of the newest logged load's file is in the table: a load
\* deletes, then logs, then merges, so nothing it merged is deleted by another
\* load that does not come after it in the log.
NewestLoadComplete ==
  Quiet =>
    \A q \in Quarters, g \in Groups : log[q][g] # None =>
      \A a \in log[q][g].file.areas : \E r \in rows[q][g] : r[1] = a

\* "Once every group with data in the one in use has been loaded into it": when
\* a load switches to its quarter, each of those groups' rows there are all of
\* some file's.
EveryGroupLoaded ==
  [][inUse' > inUse /\ (\A s \in Requests : pc[s] # "useByHand") =>
       \A g \in Groups : rows[inUse][g] # {} =>
         \E f \in Files : rows[inUse'][g] = FileRows(f)]_vars

=============================================================================

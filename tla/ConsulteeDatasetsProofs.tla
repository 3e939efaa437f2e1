----------------------- MODULE ConsulteeDatasetsProofs -----------------------
(***************************************************************************)
(* Theorems about ConsulteeDatasets, for any groups, quarters, files and   *)
(* number of requests, and that it implements DatasetPromise.              *)
(***************************************************************************)
EXTENDS ConsulteeDatasetsPromise, FiniteSetTheorems, TLAPS

------------------------------------------------------------------------------
(* Finite sets and the values of the model *)

\* A table's group holds finitely many rows: ids and files are finitely many.
LEMMA RowsFinite == IsFiniteSet(Row)
<1>1. IsFiniteSet(Files \cup {ReferenceExport})
  BY FS_AddElement, DatasetsAssumption DEF DatasetsAssumption
<1>. QED
  BY <1>1, FS_Product, DatasetsAssumption DEF Row, DatasetsAssumption

\* A file's rows are one per area, and the load's count of its features is a
\* number no smaller than that.
LEMMA FileFacts ==
  ASSUME NEW f \in Files
  PROVE  /\ f.group \in Groups
         /\ FileQuarter(f) \in Quarters
         /\ f.areas \subseteq Areas
         /\ FileRows(f) \subseteq Row
         /\ IsFiniteSet(FileRows(f))
         /\ FeatureCount(f) \in Nat
         /\ Cardinality(FileRows(f)) <= FeatureCount(f)
<1>1. f \in FileRecord /\ FileQuarter(f) \in Quarters
  BY DatasetsAssumption DEF DatasetsAssumption
<1>2. f.group \in Groups /\ f.areas \subseteq Areas /\ f.duplicates \in Nat
  BY <1>1 DEF FileRecord
<1>3. IsFiniteSet(f.areas)
  BY <1>2, FS_Subset, DatasetsAssumption DEF DatasetsAssumption
<1>4. IsFiniteSet({f}) /\ Cardinality({f}) = 1
  BY FS_Singleton
<1>5. Cardinality(f.areas) \in Nat
  BY <1>3, FS_CardinalityType
<1>6. /\ IsFiniteSet(FileRows(f))
      /\ Cardinality(FileRows(f)) = Cardinality(f.areas) * Cardinality({f})
  BY <1>3, <1>4, FS_Product DEF FileRows
<1>7. Cardinality(FileRows(f)) = Cardinality(f.areas)
  BY <1>4, <1>5, <1>6
<1>8. FileRows(f) \subseteq Row
  BY <1>2 DEF FileRows, Row
<1>. QED
  BY <1>1, <1>2, <1>5, <1>6, <1>7, <1>8 DEF FeatureCount

\* Taking a batch no smaller than what is there takes all of it.
LEMMA ShortBatchTakesAll ==
  ASSUME NEW S, IsFiniteSet(S), NEW gone \in SUBSET S, NEW n \in Nat,
         Cardinality(gone) = Smaller(n, Cardinality(S)), Cardinality(gone) < n
  PROVE  S \ gone = {}
<1>1. Cardinality(S) \in Nat
  BY FS_CardinalityType
<1>2. Cardinality(gone) = Cardinality(S)
  BY <1>1 DEF Smaller
<1>. QED
  BY <1>2, FS_Subset

------------------------------------------------------------------------------
(* Type correctness *)

\* Merging into a table and deleting from it leave a table.
LEMMA MergedType ==
  ASSUME TypeOK, NEW q \in Quarters, NEW source \in Files \cup {ReferenceExport}, NEW chunk
  PROVE  Merged(q, chunk, source) \in [Quarters -> [Groups -> SUBSET Row]]
<1>1. rows[q] \in [Groups -> SUBSET Row] /\ rows \in [Quarters -> [Groups -> SUBSET Row]]
  BY DEF TypeOK
<1>2. ASSUME NEW g \in Groups
      PROVE  MergedGroup(q, g, chunk, source) \in SUBSET Row
  <2>1. {r \in rows[q][g] : <<g, r[1]>> \notin chunk} \subseteq Row
    BY <1>1
  <2>2. \A a \in {b \in Areas : <<g, b>> \in chunk} : <<a, source>> \in Row
    BY DEF Row
  <2>. QED
    BY <2>1, <2>2 DEF MergedGroup
<1>3. [g \in Groups |-> MergedGroup(q, g, chunk, source)] \in [Groups -> SUBSET Row]
  BY <1>2
<1>. QED
  BY <1>1, <1>3 DEF Merged

LEMMA WithoutType ==
  ASSUME TypeOK, NEW q \in Quarters, NEW gone
  PROVE  Without(q, gone) \in [Quarters -> [Groups -> SUBSET Row]]
<1>1. rows[q] \in [Groups -> SUBSET Row] /\ rows \in [Quarters -> [Groups -> SUBSET Row]]
  BY DEF TypeOK
<1>2. \A g \in Groups : {r \in rows[q][g] : <<g, r>> \notin gone} \in SUBSET Row
  BY <1>1
<1>3. [g \in Groups |-> {r \in rows[q][g] : <<g, r>> \notin gone}] \in [Groups -> SUBSET Row]
  BY <1>2
<1>. QED
  BY <1>1, <1>3 DEF Without

\* A behaviour starts in a state of the right types.
LEMMA TypeInit == Init => TypeOK
<1>. SUFFICES ASSUME Init PROVE TypeOK
  OBVIOUS
<1>1. FirstQuarter \in Quarters /\ ExportAreas \in [Groups -> SUBSET Areas] /\ Len(GroupOrder) \in Nat \ {0}
  BY DatasetsAssumption DEF DatasetsAssumption
<1>2. \A g \in Groups : ExportAreas[g] \X {ReferenceExport} \in SUBSET Row
  BY <1>1 DEF Row
<1>3. rows \in [Quarters -> [Groups -> SUBSET Row]]
  BY <1>2 DEF Init
<1>4. log \in [Quarters -> [Groups -> LogRow \cup {None}]]
  BY DEF Init, NoLoads
<1>5. at \in [Requests -> 1..Len(GroupOrder)]
  BY <1>1 DEF Init
<1>. QED
  BY <1>1, <1>3, <1>4, <1>5 DEF Init, TypeOK

\* A running load was given a file, and works on the file's quarter.
LoadsHaveFiles ==
  \A s \in Requests : pc[s] \in LoadSteps =>
    (file[s] \in Files /\ target[s] = FileQuarter(file[s]))

TypeInv == TypeOK /\ LoadsHaveFiles

LEMMA SubmitType ==
  ASSUME TypeInv, NEW s \in Requests, Submit(s)
  PROVE  TypeInv'
<1>1. CASE \E f \in Files : SubmitLoad(s, f)
  <2>. PICK f \in Files : SubmitLoad(s, f)
    BY <1>1
  <2>1. FileQuarter(f) \in Quarters
    BY FileFacts
  <2>2. TypeOK'
    BY <2>1 DEF TypeInv, TypeOK, SubmitLoad, shared, check, Running, LoadSteps, Ended
  <2>3. LoadsHaveFiles'
    BY <2>1 DEF TypeInv, TypeOK, LoadsHaveFiles, SubmitLoad, shared, LoadSteps
  <2>. QED
    BY <2>2, <2>3 DEF TypeInv
<1>2. ASSUME NEW q \in Quarters, SubmitClear(s, q) \/ SubmitUse(s, q)
      PROVE  TypeInv'
  <2>1. TypeOK'
    BY <1>2 DEF TypeInv, TypeOK, SubmitClear, SubmitUse, shared, check, Running, LoadSteps, Ended
  <2>2. LoadsHaveFiles'
    BY <1>2 DEF TypeInv, TypeOK, LoadsHaveFiles, SubmitClear, SubmitUse, LoadSteps
  <2>. QED
    BY <2>1, <2>2 DEF TypeInv
<1>3. CASE SubmitReplace(s)
  <2>1. TypeOK'
    BY <1>3 DEF TypeInv, TypeOK, SubmitReplace, Moves, shared, check, Running, ReplaceSteps, Ended
  <2>2. LoadsHaveFiles'
    BY <1>3 DEF TypeInv, TypeOK, LoadsHaveFiles, SubmitReplace, Moves, LoadSteps
  <2>. QED
    BY <2>1, <2>2 DEF TypeInv
<1>. QED
  BY <1>1, <1>2, <1>3 DEF Submit

\* The statements of a load.
LEMMA LoadType ==
  ASSUME TypeInv, NEW s \in Requests,
         \/ CheckQuarter(s) \/ CreateDataset(s) \/ DeleteGroupRows(s) \/ LogLoad(s)
         \/ LoadChunk(s) \/ LogRowsLoaded(s)
  PROVE  TypeInv'
<1>. USE DEF TypeInv
<1>1. CASE CheckQuarter(s)
  BY <1>1 DEF TypeOK, LoadsHaveFiles, CheckQuarter, Moves, shared, check, Running, LoadSteps, Ended
<1>2. CASE CreateDataset(s)
  BY <1>2 DEF TypeOK, LoadsHaveFiles, CreateDataset, Moves, check, Running, LoadSteps, Ended
<1>3. CASE DeleteGroupRows(s)
  <2>1. file[s] \in Files /\ file[s].group \in Groups /\ target[s] \in Quarters
    BY <1>3, FileFacts DEF DeleteGroupRows, LoadsHaveFiles, LoadSteps, TypeOK
  <2>2. PICK gone : rows' = [rows EXCEPT ![target[s]][file[s].group] = @ \ gone]
    BY <1>3 DEF DeleteGroupRows
  <2>3. rows' \in [Quarters -> [Groups -> SUBSET Row]]
    BY <2>1, <2>2 DEF TypeOK
  <2>4. pc' \in [Requests -> {"idle"} \cup Running \cup Ended] /\ LoadsHaveFiles'
    BY <1>3 DEF TypeOK, LoadsHaveFiles, DeleteGroupRows, Running, LoadSteps, Ended
  <2>. QED
    BY <1>3, <2>3, <2>4 DEF TypeOK, DeleteGroupRows, check
<1>4. CASE LogLoad(s)
  <2>1. file[s] \in Files /\ file[s].group \in Groups /\ file[s].areas \subseteq Areas
        /\ target[s] \in Quarters
    BY <1>4, FileFacts DEF LogLoad, Moves, LoadsHaveFiles, LoadSteps, TypeOK
  <2>2. log' \in [Quarters -> [Groups -> LogRow \cup {None}]]
    BY <1>4, <2>1 DEF TypeOK, LogLoad, LogRow
  <2>3. todo' \in [Requests -> SUBSET (Groups \X Areas)]
    BY <1>4, <2>1 DEF TypeOK, LogLoad
  <2>4. pc' \in [Requests -> {"idle"} \cup Running \cup Ended] /\ LoadsHaveFiles'
    BY <1>4 DEF TypeOK, LoadsHaveFiles, LogLoad, Moves, Running, LoadSteps, Ended
  <2>. QED
    BY <1>4, <2>2, <2>3, <2>4 DEF TypeOK, LogLoad, check
<1>5. CASE LoadChunk(s)
  <2>1. file[s] \in Files /\ target[s] \in Quarters
    BY <1>5 DEF LoadChunk, LoadsHaveFiles, LoadSteps, TypeOK
  <2>2. PICK chunk \in SUBSET todo[s] : /\ rows' = Merged(target[s], chunk, file[s])
                                       /\ todo' = [todo EXCEPT ![s] = @ \ chunk]
    BY <1>5 DEF LoadChunk
  <2>3. rows' \in [Quarters -> [Groups -> SUBSET Row]]
    BY <2>1, <2>2, MergedType
  <2>4. todo' \in [Requests -> SUBSET (Groups \X Areas)]
    BY <2>2 DEF TypeOK
  <2>5. pc' \in [Requests -> {"idle"} \cup Running \cup Ended] /\ LoadsHaveFiles'
    BY <1>5 DEF TypeOK, LoadsHaveFiles, LoadChunk, Running, LoadSteps, Ended
  <2>. QED
    BY <1>5, <2>3, <2>4, <2>5 DEF TypeOK, LoadChunk, check
<1>6. CASE LogRowsLoaded(s)
  <2>1. file[s] \in Files /\ file[s].group \in Groups /\ FeatureCount(file[s]) \in Nat
        /\ target[s] \in Quarters
    BY <1>6, FileFacts DEF LogRowsLoaded, Moves, LoadsHaveFiles, LoadSteps, TypeOK
  <2>2. log' \in [Quarters -> [Groups -> LogRow \cup {None}]]
    <3>1. CASE log[target[s]][file[s].group] = None
      BY <1>6, <3>1 DEF LogRowsLoaded, TypeOK
    <3>2. CASE log[target[s]][file[s].group] # None
      <4>1. log[target[s]][file[s].group] \in LogRow
        BY <2>1, <3>2 DEF TypeOK
      <4>2. [log[target[s]][file[s].group] EXCEPT !.rowsLoaded = FeatureCount(file[s])] \in LogRow
        BY <2>1, <4>1 DEF LogRow
      <4>. QED
        BY <1>6, <2>1, <3>2, <4>2 DEF LogRowsLoaded, TypeOK
    <3>. QED
      BY <3>1, <3>2
  <2>3. pc' \in [Requests -> {"idle"} \cup Running \cup Ended] /\ LoadsHaveFiles'
    BY <1>6 DEF TypeOK, LoadsHaveFiles, LogRowsLoaded, Moves, Running, LoadSteps, Ended
  <2>. QED
    BY <1>6, <2>2, <2>3 DEF TypeOK, LogRowsLoaded, check
<1>. QED
  BY <1>1, <1>2, <1>3, <1>4, <1>5, <1>6

\* The readiness check, and the switch.
LEMMA CheckType ==
  ASSUME TypeInv, NEW s \in Requests,
         ReadInUse(s) \/ CountInUse(s) \/ CountLoaded(s) \/ UseDataset(s)
  PROVE  TypeInv'
<1>. USE DEF TypeInv
<1>1. Len(GroupOrder) \in Nat \ {0} /\ \A i \in 1..Len(GroupOrder) : GroupOrder[i] \in Groups
  BY DatasetsAssumption DEF DatasetsAssumption
<1>2. /\ pc' \in [Requests -> {"idle"} \cup Running \cup Ended]
      /\ LoadsHaveFiles'
  BY DEF TypeOK, LoadsHaveFiles, ReadInUse, CountInUse, CountLoaded, UseDataset, Moves,
         shared, check, Running, LoadSteps, Ended
<1>3. CASE ReadInUse(s)
  BY <1>1, <1>2, <1>3 DEF TypeOK, ReadInUse, shared
<1>4. CASE CountInUse(s)
  <2>1. at[s] \in 1..Len(GroupOrder) /\ GroupOrder[at[s]] \in Groups
    BY <1>1 DEF TypeOK
  <2>2. at' \in [Requests -> 1..Len(GroupOrder)]
    BY <1>1, <1>4, <2>1 DEF TypeOK, CountInUse
  <2>3. needed' \in [Requests -> SUBSET Groups]
    BY <1>4, <2>1 DEF TypeOK, CountInUse
  <2>. QED
    BY <1>2, <1>4, <2>2, <2>3 DEF TypeOK, CountInUse, shared
<1>5. CASE CountLoaded(s)
  <2>1. at[s] \in 1..Len(GroupOrder)
    BY DEF TypeOK
  <2>2. at' \in [Requests -> 1..Len(GroupOrder)]
    BY <1>1, <1>5, <2>1 DEF TypeOK, CountLoaded
  <2>3. waiting' \in [Requests -> SUBSET Groups]
    BY <1>5 DEF TypeOK, CountLoaded
  <2>. QED
    BY <1>2, <1>5, <2>2, <2>3 DEF TypeOK, CountLoaded, shared
<1>6. CASE UseDataset(s)
  BY <1>2, <1>6 DEF TypeOK, UseDataset, check
<1>. QED
  BY <1>3, <1>4, <1>5, <1>6

\* Clearing, a full import, and a request that stops part-way.
LEMMA OthersType ==
  ASSUME TypeInv, NEW s \in Requests,
         \/ ClearBatchOfRows(s) \/ ReplaceClear(s) \/ ReplaceRead(s) \/ ReplaceLog(s)
         \/ ReplaceChunk(s) \/ Fail(s)
  PROVE  TypeInv'
<1>. USE DEF TypeInv
<1>1. inUse \in Quarters /\ target[s] \in Quarters
  BY DEF TypeOK
<1>2. /\ pc' \in [Requests -> {"idle"} \cup Running \cup Ended]
      /\ LoadsHaveFiles'
  BY DEF TypeOK, LoadsHaveFiles, ClearBatchOfRows, ReplaceClear, DeleteTop, ReplaceRead, ReplaceLog,
         ReplaceChunk, Fail, Moves, Running, LoadSteps, ReplaceSteps, Ended
<1>3. ASSUME ClearBatchOfRows(s) \/ ReplaceClear(s)
      PROVE  rows' \in [Quarters -> [Groups -> SUBSET Row]]
  <2>. PICK q \in Quarters : \E gone \in SUBSET TableRows(q) : rows' = Without(q, gone)
    BY <1>1, <1>3 DEF ClearBatchOfRows, ReplaceClear, DeleteTop
  <2>. QED
    BY WithoutType
<1>4. CASE ClearBatchOfRows(s) \/ ReplaceClear(s)
  BY <1>2, <1>3, <1>4 DEF TypeOK, ClearBatchOfRows, ReplaceClear, check
<1>5. CASE ReplaceRead(s)
  BY <1>1, <1>2, <1>5 DEF TypeOK, ReplaceRead, shared, check
<1>6. CASE ReplaceLog(s)
  <2>1. log' \in [Quarters -> [Groups -> LogRow \cup {None}]]
    BY <1>1, <1>6 DEF TypeOK, ReplaceLog, NoLoads
  <2>2. todo' \in [Requests -> SUBSET (Groups \X Areas)]
    BY <1>6 DEF TypeOK, ReplaceLog, ExportTodo
  <2>. QED
    BY <1>2, <1>6, <2>1, <2>2 DEF TypeOK, ReplaceLog, check
<1>7. CASE ReplaceChunk(s)
  <2>. PICK chunk \in SUBSET todo[s] : /\ rows' = Merged(inUse, chunk, ReferenceExport)
                                       /\ todo' = [todo EXCEPT ![s] = @ \ chunk]
    BY <1>7 DEF ReplaceChunk
  <2>1. rows' \in [Quarters -> [Groups -> SUBSET Row]]
    BY <1>1, MergedType
  <2>2. todo' \in [Requests -> SUBSET (Groups \X Areas)]
    BY DEF TypeOK
  <2>. QED
    BY <1>2, <1>7, <2>1, <2>2 DEF TypeOK, ReplaceChunk, check
<1>8. CASE Fail(s)
  BY <1>2, <1>8 DEF TypeOK, Fail, shared, check
<1>. QED
  BY <1>4, <1>5, <1>6, <1>7, <1>8

LEMMA TypeStep ==
  ASSUME TypeInv, [Next]_vars
  PROVE  TypeInv'
<1>1. CASE UNCHANGED vars
  BY <1>1 DEF TypeInv, TypeOK, LoadsHaveFiles, vars
<1>2. ASSUME NEW s \in Requests, Submit(s) \/ Step(s) \/ Fail(s)
      PROVE  TypeInv'
  BY <1>2, SubmitType, LoadType, CheckType, OthersType DEF Step
<1>. QED
  BY <1>1, <1>2 DEF Next

\* A load in progress always has its file, whatever the calls, however they
\* overlap and wherever they stop.
LEMMA LoadsTyped == Spec => []TypeInv
<1>1. Init => TypeInv
  BY TypeInit DEF Init, TypeInv, LoadsHaveFiles, LoadSteps
<1>2. TypeInv /\ [Next]_vars => TypeInv'
  BY TypeStep
<1>. QED
  BY <1>1, <1>2, PTL DEF Spec

\* Every variable has a value of its kind in every behaviour: no statement of a
\* load, a clear, a full import or a switch leaves anything else behind.
THEOREM TypeCorrect == Spec => []TypeOK
BY LoadsTyped, PTL DEF TypeInv

------------------------------------------------------------------------------
(* What the promotion's check is worth, if the callers keep apart *)

\* A full import runs beside nothing.
Exclusive ==
  \A s, r \in Requests : s # r /\ pc[s] \in ReplaceSteps => pc[r] \notin Running

\* Two loads in progress are of two groups or two quarters.
Apart ==
  \A s, r \in Requests : s # r /\ pc[s] \in LoadSteps /\ pc[r] \in LoadSteps =>
    file[s].group # file[r].group \/ target[s] # target[r]

\* A load logs itself when the group's rows have gone, ...
Cleared(s) == pc[s] = "log" => rows[target[s]][file[s].group] = {}

\* ... and while it merges, the newest log row is its own, and so are the rows.
Merging(s) ==
  pc[s] \in {"chunks", "logRows"} =>
    /\ log[target[s]][file[s].group] # None
    /\ log[target[s]][file[s].group].file = file[s]
    /\ rows[target[s]][file[s].group] \subseteq FileRows(file[s])
    /\ todo[s] \subseteq {file[s].group} \X file[s].areas

\* A full import empties the log of the dataset it merges into.
Replacing(s) ==
  pc[s] \in {"replaceLog", "replaceChunks"} =>
    /\ target[s] = inUse
    /\ pc[s] = "replaceChunks" => \A g \in Groups : log[inUse][g] = None

Progress(s) == Cleared(s) /\ Merging(s) /\ Replacing(s)

\* A group's newest log row has no count yet, or counts the features of its own
\* file, and the group's rows are some of that file's.
Settled ==
  \A q \in Quarters, g \in Groups : log[q][g] # None =>
    \/ log[q][g].rowsLoaded = 0
    \/ /\ log[q][g].rowsLoaded = FeatureCount(log[q][g].file)
       /\ rows[q][g] \subseteq FileRows(log[q][g].file)

IInv ==
  /\ TypeInv
  /\ Exclusive
  /\ Apart
  /\ \A s \in Requests : Progress(s)
  /\ Settled

\* Who runs beside whom: no step brings two requests together that the callers
\* keep apart.
LEMMA ApartStep ==
  ASSUME Overlap # "any", IInv, [Next]_vars
  PROVE  Exclusive' /\ Apart'
<1>. USE DEF IInv
<1>1. CASE UNCHANGED vars
  BY <1>1 DEF Exclusive, Apart, vars
<1>2. ASSUME NEW s \in Requests, NEW f \in Files, SubmitLoad(s, f)
      PROVE  Exclusive' /\ Apart'
  <2>1. /\ pc[s] = "idle" /\ pc' = [pc EXCEPT ![s] = IF f.foreign \/ f.areas = {} THEN "refused" ELSE "check"]
        /\ file' = [file EXCEPT ![s] = f] /\ target' = [target EXCEPT ![s] = FileQuarter(f)]
        /\ \A r \in Requests : pc[r] \notin ReplaceSteps
        /\ \A r \in Requests : pc[r] \in LoadSteps =>
             file[r].group # f.group \/ target[r] # FileQuarter(f)
    BY <1>2, DatasetsAssumption
    DEF SubmitLoad, Idle, Running, LoadsHaveFiles, TypeInv, DatasetsAssumption
  <2>2. pc \in [Requests -> {"idle"} \cup Running \cup Ended]
        /\ DOMAIN file = Requests /\ DOMAIN target = Requests
    BY DEF TypeInv, TypeOK
  <2>3. Exclusive'
    BY <2>1, <2>2 DEF Exclusive, ReplaceSteps
  <2>4. Apart'
    BY <2>1, <2>2 DEF Apart, LoadSteps
  <2>. QED
    BY <2>3, <2>4
<1>3. ASSUME NEW s \in Requests, NEW q \in Quarters, SubmitClear(s, q) \/ SubmitUse(s, q)
      PROVE  Exclusive' /\ Apart'
  <2>1. /\ \A r \in Requests : pc[r] \notin ReplaceSteps
        /\ pc'[s] \in {"clear", "refused", "useByHand"} /\ file' = file
        /\ \A r \in Requests \ {s} : pc'[r] = pc[r] /\ target'[r] = target[r]
    BY <1>3, DatasetsAssumption
    DEF SubmitClear, SubmitUse, Idle, Running, TypeInv, TypeOK, DatasetsAssumption
  <2>2. \A r \in Requests : pc'[r] \notin ReplaceSteps
    BY <2>1 DEF ReplaceSteps
  <2>3. Exclusive'
    BY <2>2 DEF Exclusive
  <2>4. Apart'
    BY <2>1 DEF Apart, LoadSteps
  <2>. QED
    BY <2>3, <2>4
<1>4. ASSUME NEW s \in Requests, SubmitReplace(s)
      PROVE  Exclusive' /\ Apart'
  <2>1. /\ pc[s] = "idle" /\ \A r \in Requests : pc[r] \notin Running
        /\ pc'[s] \in {"refused", "replaceClear"} /\ file' = file /\ target' = target
        /\ \A r \in Requests \ {s} : pc'[r] = pc[r]
    BY <1>4, DatasetsAssumption
    DEF SubmitReplace, Moves, Idle, TypeInv, TypeOK, DatasetsAssumption
  <2>. QED
    BY <2>1 DEF Exclusive, Apart, Running, LoadSteps, ReplaceSteps
<1>5. ASSUME NEW s \in Requests, Step(s) \/ Fail(s)
      PROVE  Exclusive' /\ Apart'
  <2>1. /\ pc[s] \in Running /\ file' = file
        /\ \A r \in Requests \ {s} : pc'[r] = pc[r] /\ target'[r] = target[r]
        /\ pc'[s] \in ReplaceSteps => pc[s] \in ReplaceSteps
        /\ pc'[s] \in LoadSteps => pc[s] \in LoadSteps /\ target'[s] = target[s]
    <3>. pc \in [Requests -> {"idle"} \cup Running \cup Ended] /\ DOMAIN target = Requests
      BY DEF TypeInv, TypeOK
    <3>1. CASE CheckQuarter(s) \/ CreateDataset(s) \/ DeleteGroupRows(s) \/ LogLoad(s) \/ LoadChunk(s)
      BY <3>1 DEF CheckQuarter, CreateDataset, DeleteGroupRows, LogLoad, LoadChunk, Moves,
                  Running, LoadSteps, ReplaceSteps
    <3>2. CASE LogRowsLoaded(s) \/ ReadInUse(s) \/ CountInUse(s) \/ CountLoaded(s) \/ UseDataset(s)
      BY <3>2 DEF LogRowsLoaded, ReadInUse, CountInUse, CountLoaded, UseDataset, Moves,
                  Running, LoadSteps, ReplaceSteps
    <3>3. CASE ClearBatchOfRows(s) \/ ReplaceClear(s)
      BY <3>3 DEF ClearBatchOfRows, ReplaceClear, DeleteTop, Running, LoadSteps, ReplaceSteps
    <3>4. CASE ReplaceRead(s) \/ ReplaceLog(s) \/ ReplaceChunk(s) \/ Fail(s)
      BY <3>4 DEF ReplaceRead, ReplaceLog, ReplaceChunk, Fail, Moves, Running, LoadSteps, ReplaceSteps
    <3>. QED
      BY <1>5, <3>1, <3>2, <3>3, <3>4 DEF Step
  <2>2. ReplaceSteps \subseteq Running
    BY DEF Running
  <2>3. Exclusive'
    BY <2>1, <2>2 DEF Exclusive
  <2>4. Apart'
    BY <2>1 DEF Apart
  <2>. QED
    BY <2>3, <2>4
<1>. QED
  BY <1>1, <1>2, <1>3, <1>4, <1>5 DEF Next, Submit

\* The statements about which Progress says something.
Telling == {"log", "chunks", "logRows", "replaceLog", "replaceChunks"}

\* What a MERGE and a delete make of the rows, table by table and group by group.
LEMMA MergedRows ==
  ASSUME TypeOK, NEW q \in Quarters, NEW p \in Quarters, NEW g \in Groups, NEW chunk, NEW source
  PROVE  Merged(q, chunk, source)[p][g] =
           IF p = q THEN MergedGroup(q, g, chunk, source) ELSE rows[p][g]
BY DEF TypeOK, Merged

LEMMA WithoutRows ==
  ASSUME TypeOK, NEW q \in Quarters, NEW p \in Quarters, NEW g \in Groups, NEW gone
  PROVE  Without(q, gone)[p][g] \subseteq rows[p][g]
BY DEF TypeOK, Without

\* A step of a request that adds no row and leaves the log alone disturbs no
\* other request, nor itself if Progress tells nothing of where it goes.
LEMMA Shrinks ==
  ASSUME IInv, NEW s \in Requests, log' = log, inUse' = inUse,
         \A q \in Quarters, g \in Groups : rows'[q][g] \subseteq rows[q][g],
         \A r \in Requests \ {s} :
           pc'[r] = pc[r] /\ file'[r] = file[r] /\ target'[r] = target[r] /\ todo'[r] = todo[r]
  PROVE  /\ \A r \in Requests \ {s} : Progress(r)'
         /\ pc'[s] \notin Telling => Progress(s)'
         /\ Settled'
<1>. USE DEF IInv
<1>1. ASSUME NEW r \in Requests \ {s}
      PROVE  Progress(r)'
  <2>1. pc[r] \in LoadSteps => target[r] \in Quarters /\ file[r].group \in Groups
    BY FileFacts DEF TypeInv, LoadsHaveFiles
  <2>2. Cleared(r)'
    BY <2>1 DEF Progress, Cleared, LoadSteps
  <2>3. Merging(r)'
    BY <2>1 DEF Progress, Merging, LoadSteps
  <2>4. Replacing(r)'
    BY DEF Progress, Replacing
  <2>. QED
    BY <2>2, <2>3, <2>4 DEF Progress
<1>2. pc'[s] \notin Telling => Progress(s)'
  BY DEF Progress, Cleared, Merging, Replacing, Telling
<1>3. Settled'
  BY DEF Settled
<1>. QED
  BY <1>1, <1>2, <1>3

\* Submitting, reading, clearing and failing.
LEMMA QuietStep ==
  ASSUME IInv, NEW s \in Requests,
         \/ Submit(s) \/ Fail(s) \/ CheckQuarter(s) \/ CreateDataset(s)
         \/ ReadInUse(s) \/ CountInUse(s) \/ CountLoaded(s)
         \/ ClearBatchOfRows(s) \/ ReplaceClear(s)
  PROVE  (\A r \in Requests : Progress(r)') /\ Settled'
<1>1. TypeOK /\ inUse \in Quarters /\ target[s] \in Quarters
  BY DEF IInv, TypeInv, TypeOK
<1>2. /\ log' = log /\ inUse' = inUse
      /\ \A r \in Requests \ {s} :
           pc'[r] = pc[r] /\ file'[r] = file[r] /\ target'[r] = target[r] /\ todo'[r] = todo[r]
      /\ pc'[s] \notin Telling
  <2>. pc \in [Requests -> {"idle"} \cup Running \cup Ended]
       /\ DOMAIN file = Requests /\ DOMAIN target = Requests /\ DOMAIN todo = Requests
    BY <1>1 DEF TypeOK
  <2>1. CASE Submit(s)
    BY <2>1 DEF Submit, SubmitLoad, SubmitClear, SubmitReplace, SubmitUse, Moves, Telling, shared
  <2>2. CASE Fail(s) \/ CheckQuarter(s) \/ CreateDataset(s)
    BY <2>2 DEF Fail, CheckQuarter, CreateDataset, Moves, Telling, shared
  <2>3. CASE ReadInUse(s) \/ CountInUse(s) \/ CountLoaded(s)
    BY <2>3 DEF ReadInUse, CountInUse, CountLoaded, Moves, Telling, shared
  <2>4. CASE ClearBatchOfRows(s) \/ ReplaceClear(s)
    BY <2>4 DEF ClearBatchOfRows, ReplaceClear, DeleteTop, Telling
  <2>. QED
    BY <2>1, <2>2, <2>3, <2>4
<1>3. \A q \in Quarters, g \in Groups : rows'[q][g] \subseteq rows[q][g]
  <2>1. CASE ClearBatchOfRows(s) \/ ReplaceClear(s)
    <3>. PICK q \in Quarters : \E gone \in SUBSET TableRows(q) : rows' = Without(q, gone)
      BY <1>1, <2>1 DEF ClearBatchOfRows, ReplaceClear, DeleteTop
    <3>. QED
      BY <1>1, WithoutRows
  <2>2. CASE ~(ClearBatchOfRows(s) \/ ReplaceClear(s))
    <3>1. rows' = rows
      BY <2>2 DEF Submit, SubmitLoad, SubmitClear, SubmitReplace, SubmitUse, Fail, CheckQuarter,
                  CreateDataset, ReadInUse, CountInUse, CountLoaded, shared
    <3>. QED
      BY <3>1
  <2>. QED
    BY <2>1, <2>2
<1>. QED
  BY <1>2, <1>3, Shrinks

\* Deleting the group's rows, and logging the load when they have gone.
LEMMA DeleteStep ==
  ASSUME IInv, NEW s \in Requests, DeleteGroupRows(s)
  PROVE  (\A r \in Requests : Progress(r)') /\ Settled'
<1>. DEFINE q == target[s]  g == file[s].group
<1>1. q \in Quarters /\ g \in Groups /\ pc[s] = "delete" /\ TypeOK
  BY FileFacts DEF IInv, TypeInv, TypeOK, LoadsHaveFiles, LoadSteps, DeleteGroupRows
<1>2. PICK gone \in SUBSET rows[q][g] :
        /\ Cardinality(gone) = Smaller(GroupBatch, Cardinality(rows[q][g]))
        /\ rows' = [rows EXCEPT ![q][g] = @ \ gone]
        /\ pc' = [pc EXCEPT ![s] = IF Cardinality(gone) < GroupBatch THEN "log" ELSE @]
  BY DEF DeleteGroupRows
<1>3. \A p \in Quarters, h \in Groups : rows'[p][h] \subseteq rows[p][h]
  BY <1>1, <1>2 DEF TypeOK
<1>4. /\ \A r \in Requests \ {s} : Progress(r)'
      /\ pc'[s] \notin Telling => Progress(s)'
      /\ Settled'
  BY <1>2, <1>3, Shrinks DEF DeleteGroupRows, check
<1>5. CASE Cardinality(gone) < GroupBatch
  <2>1. IsFiniteSet(rows[q][g])
    BY <1>1, RowsFinite, FS_Subset DEF TypeOK
  <2>2. rows[q][g] \ gone = {}
    <3>1. GroupBatch \in Nat /\ Cardinality(gone) = Smaller(GroupBatch, Cardinality(rows[q][g]))
      BY <1>2, DatasetsAssumption DEF DatasetsAssumption
    <3>. HIDE DEF q, g
    <3>. QED
      BY <1>5, <2>1, <3>1, ShortBatchTakesAll
  <2>3. rows'[q][g] = {} /\ pc'[s] = "log" /\ target' = target /\ file' = file
    BY <1>1, <1>2, <1>5, <2>2 DEF TypeOK, DeleteGroupRows
  <2>4. Progress(s)'
    BY <2>3 DEF Progress, Cleared, Merging, Replacing
  <2>. QED
    BY <1>4, <2>4
<1>6. CASE ~(Cardinality(gone) < GroupBatch)
  <2>1. pc'[s] = "delete"
    BY <1>1, <1>2, <1>6 DEF TypeOK
  <2>. QED
    BY <1>4, <2>1 DEF Telling
<1>. QED
  BY <1>5, <1>6

\* A load that changes only its own group's rows and log row of its own quarter
\* disturbs no other request, and leaves every other group settled.
LEMMA OwnGroupOnly ==
  ASSUME IInv, NEW s \in Requests, pc[s] \in LoadSteps, inUse' = inUse,
         file' = file, target' = target,
         \A r \in Requests \ {s} : pc'[r] = pc[r] /\ todo'[r] = todo[r],
         \A q \in Quarters, g \in Groups : q # target[s] \/ g # file[s].group =>
           rows'[q][g] = rows[q][g] /\ log'[q][g] = log[q][g]
  PROVE  /\ \A r \in Requests \ {s} : Progress(r)'
         /\ \A q \in Quarters, g \in Groups :
              (q # target[s] \/ g # file[s].group) /\ log'[q][g] # None =>
                \/ log'[q][g].rowsLoaded = 0
                \/ /\ log'[q][g].rowsLoaded = FeatureCount(log'[q][g].file)
                   /\ rows'[q][g] \subseteq FileRows(log'[q][g].file)
<1>. USE DEF IInv
<1>1. ASSUME NEW r \in Requests \ {s}
      PROVE  Progress(r)'
  <2>1. pc[r] \notin ReplaceSteps
    BY DEF Exclusive, Running
  <2>2. pc[r] \in LoadSteps =>
          /\ target[r] \in Quarters /\ file[r].group \in Groups
          /\ target[r] # target[s] \/ file[r].group # file[s].group
    BY FileFacts DEF TypeInv, LoadsHaveFiles, Apart
  <2>3. Cleared(r)'
    BY <2>2 DEF Progress, Cleared, LoadSteps
  <2>4. Merging(r)'
    BY <2>2 DEF Progress, Merging, LoadSteps
  <2>5. Replacing(r)'
    BY <2>1 DEF Replacing, ReplaceSteps
  <2>. QED
    BY <2>3, <2>4, <2>5 DEF Progress
<1>. QED
  BY <1>1 DEF Settled

\* Logging the load: the group has no rows left, and its count is still to come.
LEMMA LogStep ==
  ASSUME IInv, NEW s \in Requests, LogLoad(s)
  PROVE  (\A r \in Requests : Progress(r)') /\ Settled'
<1>. DEFINE q == target[s]  g == file[s].group
<1>1. /\ q \in Quarters /\ g \in Groups /\ file[s] \in Files /\ TypeOK
      /\ pc[s] = "log" /\ pc[s] \in LoadSteps
  BY FileFacts DEF IInv, TypeInv, TypeOK, LoadsHaveFiles, LoadSteps, LogLoad, Moves
<1>2. /\ log' = [log EXCEPT ![q][g] = [file |-> file[s], rowsLoaded |-> 0]]
      /\ todo' = [todo EXCEPT ![s] = {g} \X file[s].areas]
      /\ pc' = [pc EXCEPT ![s] = "chunks"]
      /\ rows' = rows /\ inUse' = inUse /\ file' = file /\ target' = target
  BY DEF LogLoad, Moves
<1>3. /\ log'[q][g] = [file |-> file[s], rowsLoaded |-> 0]
      /\ \A p \in Quarters, h \in Groups : p # q \/ h # g => log'[p][h] = log[p][h]
      /\ pc'[s] = "chunks" /\ todo'[s] = {g} \X file[s].areas
      /\ \A r \in Requests \ {s} : pc'[r] = pc[r] /\ todo'[r] = todo[r]
  BY <1>1, <1>2 DEF TypeOK
<1>4. rows[q][g] = {}
  BY <1>1 DEF IInv, Progress, Cleared
<1>5. log'[q][g] # None
  BY <1>1, <1>3, DatasetsAssumption DEF LogRow, DatasetsAssumption
<1>6. Progress(s)'
  BY <1>2, <1>3, <1>4, <1>5 DEF Progress, Cleared, Merging, Replacing
<1>7. /\ \A r \in Requests \ {s} : Progress(r)'
      /\ Settled'
  BY <1>1, <1>2, <1>3, OwnGroupOnly DEF Settled
<1>. QED
  BY <1>6, <1>7

\* One MERGE of a load: its rows are its file's, and no other group's change.
LEMMA ChunkStep ==
  ASSUME IInv, NEW s \in Requests, LoadChunk(s)
  PROVE  (\A r \in Requests : Progress(r)') /\ Settled'
<1>. DEFINE q == target[s]  g == file[s].group
<1>1. /\ q \in Quarters /\ g \in Groups /\ file[s] \in Files /\ TypeOK
      /\ pc[s] = "chunks" /\ pc[s] \in LoadSteps
  BY FileFacts DEF IInv, TypeInv, TypeOK, LoadsHaveFiles, LoadSteps, LoadChunk
<1>2. PICK chunk \in SUBSET todo[s] :
        /\ rows' = Merged(q, chunk, file[s])
        /\ todo' = [todo EXCEPT ![s] = @ \ chunk]
        /\ pc' = [pc EXCEPT ![s] = IF chunk = todo[s] THEN "logRows" ELSE @]
  BY DEF LoadChunk
<1>3. /\ log[q][g] # None /\ log[q][g].file = file[s]
      /\ rows[q][g] \subseteq FileRows(file[s])
      /\ todo[s] \subseteq {g} \X file[s].areas
  BY <1>1 DEF IInv, Progress, Merging
<1>4. log' = log /\ inUse' = inUse /\ file' = file /\ target' = target
  BY DEF LoadChunk
<1>5. \A p \in Quarters, h \in Groups :
        rows'[p][h] = IF p = q THEN MergedGroup(q, h, chunk, file[s]) ELSE rows[p][h]
  BY <1>1, <1>2, MergedRows
<1>6. ASSUME NEW p \in Quarters, NEW h \in Groups, p # q \/ h # g
      PROVE  rows'[p][h] = rows[p][h]
  <2>1. CASE p # q
    BY <1>5, <2>1
  <2>2. CASE p = q
    <3>1. \A a : <<h, a>> \notin chunk
      BY <1>3, <1>6, <2>2
    <3>2. MergedGroup(q, h, chunk, file[s]) = rows[q][h]
      BY <3>1 DEF MergedGroup
    <3>. QED
      BY <1>5, <2>2, <3>2
  <2>. QED
    BY <2>1, <2>2
<1>7. rows'[q][g] \subseteq FileRows(file[s])
  <2>1. \A a : <<g, a>> \in chunk => a \in file[s].areas
    BY <1>3
  <2>2. MergedGroup(q, g, chunk, file[s]) \subseteq FileRows(file[s])
    <3>1. \A a : <<g, a>> \in chunk => <<a, file[s]>> \in FileRows(file[s])
      BY <2>1 DEF FileRows
    <3>2. {<<a, file[s]>> : a \in {b \in Areas : <<g, b>> \in chunk}} \subseteq FileRows(file[s])
      BY <3>1
    <3>. QED
      BY <1>3, <3>2 DEF MergedGroup
  <2>. QED
    BY <1>1, <1>5, <2>2
<1>8. /\ pc'[s] \in {"chunks", "logRows"} /\ todo'[s] \subseteq todo[s]
      /\ \A r \in Requests \ {s} : pc'[r] = pc[r] /\ todo'[r] = todo[r]
  BY <1>1, <1>2 DEF TypeOK
<1>9. Progress(s)'
  BY <1>3, <1>4, <1>7, <1>8 DEF Progress, Cleared, Merging, Replacing
<1>10. /\ \A r \in Requests \ {s} : Progress(r)'
      /\ \A p \in Quarters, h \in Groups :
           (p # q \/ h # g) /\ log'[p][h] # None =>
             \/ log'[p][h].rowsLoaded = 0
             \/ /\ log'[p][h].rowsLoaded = FeatureCount(log'[p][h].file)
                /\ rows'[p][h] \subseteq FileRows(log'[p][h].file)
  BY <1>1, <1>4, <1>6, <1>8, OwnGroupOnly
<1>11. Settled'
  BY <1>1, <1>3, <1>4, <1>7, <1>10 DEF IInv, Settled
<1>. QED
  BY <1>9, <1>10, <1>11

\* Recording how many features were loaded: of the file the rows are of.
LEMMA LogRowsStep ==
  ASSUME IInv, NEW s \in Requests, LogRowsLoaded(s)
  PROVE  (\A r \in Requests : Progress(r)') /\ Settled'
<1>. DEFINE q == target[s]  g == file[s].group
<1>1. /\ q \in Quarters /\ g \in Groups /\ file[s] \in Files /\ TypeOK
      /\ pc[s] = "logRows" /\ pc[s] \in LoadSteps
  BY FileFacts DEF IInv, TypeInv, TypeOK, LoadsHaveFiles, LoadSteps, LogRowsLoaded, Moves
<1>2. /\ log[q][g] # None /\ log[q][g].file = file[s]
      /\ rows[q][g] \subseteq FileRows(file[s])
  BY <1>1 DEF IInv, Progress, Merging
<1>3. /\ log' = [log EXCEPT ![q][g].rowsLoaded = FeatureCount(file[s])]
      /\ pc' = [pc EXCEPT ![s] = "readInUse"]
      /\ rows' = rows /\ inUse' = inUse /\ file' = file /\ target' = target /\ todo' = todo
  BY <1>2 DEF LogRowsLoaded, Moves
<1>4. log[q][g] \in LogRow
  BY <1>1, <1>2 DEF TypeOK
<1>5. /\ log'[q][g].rowsLoaded = FeatureCount(file[s]) /\ log'[q][g].file = file[s]
      /\ \A p \in Quarters, h \in Groups : p # q \/ h # g => log'[p][h] = log[p][h]
  <2>. DEFINE counted == [log[q][g] EXCEPT !.rowsLoaded = FeatureCount(file[s])]
  <2>1. counted.rowsLoaded = FeatureCount(file[s]) /\ counted.file = log[q][g].file
    BY <1>4 DEF LogRow
  <2>2. log' = [log EXCEPT ![q][g] = counted]
    BY <1>3
  <2>. HIDE DEF counted
  <2>3. /\ log'[q][g] = counted
        /\ \A p \in Quarters, h \in Groups : p # q \/ h # g => log'[p][h] = log[p][h]
    BY <1>1, <2>2 DEF TypeOK
  <2>. QED
    BY <1>2, <2>1, <2>3
<1>6. /\ pc'[s] = "readInUse"
      /\ \A r \in Requests \ {s} : pc'[r] = pc[r] /\ todo'[r] = todo[r]
  BY <1>1, <1>3 DEF TypeOK
<1>7. Progress(s)'
  BY <1>6 DEF Progress, Cleared, Merging, Replacing
<1>8. /\ \A r \in Requests \ {s} : Progress(r)'
      /\ \A p \in Quarters, h \in Groups :
           (p # q \/ h # g) /\ log'[p][h] # None =>
             \/ log'[p][h].rowsLoaded = 0
             \/ /\ log'[p][h].rowsLoaded = FeatureCount(log'[p][h].file)
                /\ rows'[p][h] \subseteq FileRows(log'[p][h].file)
  <2>1. \A p \in Quarters, h \in Groups : p # q \/ h # g =>
          rows'[p][h] = rows[p][h] /\ log'[p][h] = log[p][h]
    BY <1>3, <1>5
  <2>2. inUse' = inUse /\ file' = file /\ target' = target
    BY <1>3
  <2>. QED
    BY <1>1, <1>6, <2>1, <2>2, OwnGroupOnly
<1>9. Settled'
  BY <1>2, <1>3, <1>5, <1>8 DEF Settled
<1>. QED
  BY <1>7, <1>8, <1>9

\* Switching: beside no full import, the one request that counts on inUse.
LEMMA UseStep ==
  ASSUME IInv, NEW s \in Requests, UseDataset(s)
  PROVE  (\A r \in Requests : Progress(r)') /\ Settled'
<1>1. /\ pc[s] \in Running /\ pc'[s] \in {"done", "failed"}
      /\ \A r \in Requests \ {s} : pc'[r] = pc[r]
      /\ rows' = rows /\ log' = log /\ file' = file /\ target' = target /\ todo' = todo
  BY DEF UseDataset, IInv, TypeInv, TypeOK, Running, LoadSteps, check
<1>2. \A r \in Requests \ {s} : pc[r] \notin ReplaceSteps
  BY <1>1 DEF IInv, Exclusive
<1>3. ASSUME NEW r \in Requests
      PROVE  Progress(r)'
  BY <1>1, <1>2 DEF IInv, Progress, Cleared, Merging, Replacing, ReplaceSteps
<1>4. Settled'
  BY <1>1 DEF IInv, Settled
<1>. QED
  BY <1>3, <1>4

\* The statements of a full import: it reads the dataset in use, empties the
\* log of it and merges into it, with nothing else running.
LEMMA ReplaceStep ==
  ASSUME IInv, NEW s \in Requests, ReplaceRead(s) \/ ReplaceLog(s) \/ ReplaceChunk(s)
  PROVE  (\A r \in Requests : Progress(r)') /\ Settled'
<1>. USE DEF IInv
<1>1. /\ pc[s] \in ReplaceSteps /\ TypeOK /\ inUse \in Quarters /\ inUse' = inUse
      /\ \A r \in Requests \ {s} : pc'[r] = pc[r]
  BY DEF TypeInv, TypeOK, ReplaceRead, ReplaceLog, ReplaceChunk, Moves, ReplaceSteps, shared
<1>2. \A r \in Requests \ {s} : pc'[r] \notin Telling
  <2>1. Telling \subseteq Running
    BY DEF Telling, Running, LoadSteps, ReplaceSteps
  <2>. QED
    BY <1>1, <2>1 DEF Exclusive
<1>3. \A r \in Requests \ {s} : Progress(r)'
  BY <1>2 DEF Progress, Cleared, Merging, Replacing, Telling
<1>4. CASE ReplaceRead(s)
  <2>1. /\ pc'[s] = "replaceLog" /\ target'[s] = inUse /\ rows' = rows /\ log' = log
    BY <1>1, <1>4 DEF ReplaceRead, Moves, TypeOK, shared
  <2>2. Progress(s)'
    BY <1>1, <2>1 DEF Progress, Cleared, Merging, Replacing
  <2>3. Settled'
    BY <2>1 DEF Settled
  <2>. QED
    BY <1>3, <2>2, <2>3
<1>5. CASE ReplaceLog(s)
  <2>1. /\ pc[s] = "replaceLog" /\ target[s] = inUse /\ target' = target /\ rows' = rows
        /\ pc'[s] = "replaceChunks" /\ log' = [log EXCEPT ![inUse] = NoLoads]
    BY <1>1, <1>5 DEF ReplaceLog, Moves, TypeOK, Progress, Replacing
  <2>2. /\ \A g \in Groups : log'[inUse][g] = None
        /\ \A q \in Quarters : q # inUse => log'[q] = log[q]
    BY <1>1, <2>1 DEF TypeOK, NoLoads
  <2>3. Progress(s)'
    BY <1>1, <2>1, <2>2 DEF Progress, Cleared, Merging, Replacing
  <2>4. Settled'
    BY <2>1, <2>2 DEF Settled
  <2>. QED
    BY <1>3, <2>3, <2>4
<1>6. CASE ReplaceChunk(s)
  <2>1. PICK chunk \in SUBSET todo[s] :
          /\ rows' = Merged(inUse, chunk, ReferenceExport)
          /\ pc' = [pc EXCEPT ![s] = IF chunk = todo[s] THEN "done" ELSE @]
    BY <1>6 DEF ReplaceChunk
  <2>2. /\ pc[s] = "replaceChunks" /\ log' = log /\ target' = target
        /\ target[s] = inUse /\ \A g \in Groups : log[inUse][g] = None
    BY <1>6 DEF ReplaceChunk, Progress, Replacing
  <2>3. pc'[s] \in {"done", "replaceChunks"}
    BY <1>1, <2>1, <2>2 DEF TypeOK
  <2>4. \A q \in Quarters, g \in Groups : q # inUse => rows'[q][g] = rows[q][g]
    BY <1>1, <2>1, MergedRows
  <2>5. Progress(s)'
    BY <1>1, <2>2, <2>3 DEF Progress, Cleared, Merging, Replacing
  <2>6. Settled'
    BY <2>2, <2>4 DEF Settled
  <2>. QED
    BY <1>3, <2>5, <2>6
<1>. QED
  BY <1>4, <1>5, <1>6

LEMMA Invariance ==
  ASSUME Overlap # "any"
  PROVE  IInv /\ [Next]_vars => IInv'
<1>. SUFFICES ASSUME IInv, [Next]_vars PROVE IInv'
  OBVIOUS
<1>1. TypeInv'
  BY TypeStep DEF IInv
<1>2. Exclusive' /\ Apart'
  BY ApartStep
<1>3. CASE UNCHANGED vars
  BY <1>1, <1>2, <1>3
  DEF IInv, Progress, Cleared, Merging, Replacing, Settled, vars
<1>4. ASSUME NEW s \in Requests, Submit(s) \/ Step(s) \/ Fail(s)
      PROVE  (\A r \in Requests : Progress(r)') /\ Settled'
  BY <1>4, QuietStep, DeleteStep, LogStep, ChunkStep, LogRowsStep, UseStep, ReplaceStep DEF Step
<1>. QED
  BY <1>1, <1>2, <1>3, <1>4 DEF IInv, Next

\* With the group's rows some of its file's, as many rows as the file has
\* features are all of them.
LEMMA SettledIsWhole == TypeOK /\ Settled => PromotableIsWhole
<1>. SUFFICES ASSUME TypeOK, Settled, NEW q \in Quarters, NEW g \in Groups,
                     log[q][g] # None, rows[q][g] # {},
                     log[q][g].rowsLoaded = Cardinality(rows[q][g])
              PROVE  rows[q][g] = FileRows(log[q][g].file)
  BY DEF PromotableIsWhole
<1>. DEFINE f == log[q][g].file
<1>1. f \in Files
  BY DEF TypeOK, LogRow
<1>2. IsFiniteSet(rows[q][g])
  BY RowsFinite, FS_Subset DEF TypeOK
<1>3. Cardinality(rows[q][g]) # 0
  BY <1>2, FS_EmptySet
<1>4. /\ rows[q][g] \subseteq FileRows(f)
      /\ Cardinality(rows[q][g]) = FeatureCount(f)
  BY <1>3 DEF Settled
<1>5. /\ IsFiniteSet(FileRows(f)) /\ FeatureCount(f) \in Nat
      /\ Cardinality(FileRows(f)) <= FeatureCount(f)
  BY <1>1, FileFacts
<1>. HIDE DEF f
<1>6. Cardinality(rows[q][g]) \in Nat /\ Cardinality(rows[q][g]) <= Cardinality(FileRows(f))
      /\ Cardinality(FileRows(f)) \in Nat
      /\ (Cardinality(rows[q][g]) = Cardinality(FileRows(f)) => rows[q][g] = FileRows(f))
  BY <1>2, <1>4, <1>5, FS_Subset, FS_CardinalityType
<1>7. Cardinality(rows[q][g]) = Cardinality(FileRows(f))
  BY <1>4, <1>5, <1>6
<1>. QED
  BY <1>6, <1>7 DEF f

\* What the promotion's export checks before it copies a group - as many rows as
\* the newest load logged - does mean the rows are that load's file and nothing
\* else, wherever any earlier or concurrent call stopped, as long as nobody
\* loads one group of a quarter twice at once, nor anything beside a full import.
\* datasets_mixed_load is what happens otherwise.
THEOREM PromotionCheckIsSound ==
  ASSUME Overlap # "any"
  PROVE  Spec => []PromotableIsWhole
<1>1. Init => IInv
  <2>. SUFFICES ASSUME Init PROVE IInv
    OBVIOUS
  <2>1. \A s \in Requests : pc[s] = "idle"
    BY DEF Init
  <2>2. \A q \in Quarters, g \in Groups : log[q][g] = None
    BY DEF Init, NoLoads
  <2>3. TypeInv
    BY <2>1, TypeInit DEF TypeInv, LoadsHaveFiles, LoadSteps
  <2>. QED
    BY <2>1, <2>2, <2>3
    DEF IInv, Exclusive, Apart, Progress, Cleared, Merging, Replacing, Settled, LoadSteps, ReplaceSteps
<1>2. IInv /\ [Next]_vars => IInv'
  BY Invariance
<1>3. IInv => PromotableIsWhole
  BY SettledIsWhole DEF IInv, TypeInv
<1>. QED
  BY <1>1, <1>2, <1>3, PTL DEF Spec

------------------------------------------------------------------------------
(* The archive, if the callers run one request at a time *)

Alone == \A s, r \in Requests : s # r /\ pc[s] \in Running => pc[r] \notin Running

\* A load past its check of the quarter still works on none that is earlier.
NotEarlier == \A s \in Requests : pc[s] \in LoadSteps \ {"check"} => inUse <= target[s]

ArchiveInv == TypeInv /\ Alone /\ NotEarlier

LEMMA ArchiveStep ==
  ASSUME Overlap = "none", ArchiveInv, [Next]_vars
  PROVE  Alone' /\ NotEarlier'
<1>. USE DEF ArchiveInv
<1>1. CASE UNCHANGED vars
  BY <1>1 DEF Alone, NotEarlier, vars
<1>2. ASSUME NEW s \in Requests, Submit(s)
      PROVE  Alone' /\ NotEarlier'
  <2>1. /\ \A r \in Requests : pc[r] \notin Running
        /\ \A r \in Requests \ {s} : pc'[r] = pc[r]
        /\ pc'[s] \in {"check", "clear", "useByHand", "replaceClear", "refused"}
    BY <1>2 DEF Submit, SubmitLoad, SubmitClear, SubmitReplace, SubmitUse, Idle, Moves, TypeInv, TypeOK
  <2>2. Alone'
    BY <2>1 DEF Alone
  <2>3. NotEarlier'
    BY <2>1 DEF NotEarlier, Running, LoadSteps
  <2>. QED
    BY <2>2, <2>3
<1>3. ASSUME NEW s \in Requests, Step(s) \/ Fail(s)
      PROVE  Alone' /\ NotEarlier'
  <2>. /\ pc \in [Requests -> {"idle"} \cup Running \cup Ended] /\ Quarters \subseteq Nat
       /\ target \in [Requests -> Quarters] /\ inUse \in Quarters
    BY DatasetsAssumption DEF TypeInv, TypeOK, DatasetsAssumption
  <2>1. pc[s] \in Running /\ \A r \in Requests \ {s} : pc'[r] = pc[r]
    <3>1. CASE CheckQuarter(s) \/ CreateDataset(s) \/ DeleteGroupRows(s) \/ LogLoad(s) \/ LoadChunk(s)
      BY <3>1 DEF CheckQuarter, CreateDataset, DeleteGroupRows, LogLoad, LoadChunk, Moves, Running, LoadSteps
    <3>2. CASE LogRowsLoaded(s) \/ ReadInUse(s) \/ CountInUse(s) \/ CountLoaded(s) \/ UseDataset(s)
      BY <3>2 DEF LogRowsLoaded, ReadInUse, CountInUse, CountLoaded, UseDataset, Moves, Running, LoadSteps
    <3>3. CASE ClearBatchOfRows(s) \/ ReplaceClear(s)
      BY <3>3 DEF ClearBatchOfRows, ReplaceClear, DeleteTop, Running, ReplaceSteps
    <3>4. CASE ReplaceRead(s) \/ ReplaceLog(s) \/ ReplaceChunk(s) \/ Fail(s)
      BY <3>4 DEF ReplaceRead, ReplaceLog, ReplaceChunk, Fail, Moves, Running, ReplaceSteps
    <3>. QED
      BY <1>3, <3>1, <3>2, <3>3, <3>4 DEF Step
  <2>2. \A r \in Requests \ {s} : pc[r] \notin Running
    BY <2>1 DEF Alone
  <2>3. Alone'
    BY <2>1, <2>2 DEF Alone
  <2>4. pc'[s] \in LoadSteps \ {"check"} => inUse' <= target'[s]
    <3>1. CASE CheckQuarter(s)
      <4>1. target[s] \in Nat /\ inUse \in Nat
        OBVIOUS
      <4>2. inUse' = inUse /\ target' = target
            /\ pc'[s] = IF target[s] < inUse THEN "refused" ELSE "create"
        BY <3>1 DEF CheckQuarter, Moves, shared
      <4>. QED
        BY <4>1, <4>2 DEF LoadSteps
    <3>2. CASE CreateDataset(s) \/ DeleteGroupRows(s) \/ LogLoad(s) \/ LoadChunk(s) \/ LogRowsLoaded(s)
      BY <3>2 DEF CreateDataset, DeleteGroupRows, LogLoad, LoadChunk, LogRowsLoaded, Moves, NotEarlier, LoadSteps
    <3>3. CASE ReadInUse(s) \/ CountInUse(s) \/ CountLoaded(s) \/ UseDataset(s)
      BY <3>3 DEF ReadInUse, CountInUse, CountLoaded, UseDataset, Moves, NotEarlier, LoadSteps, shared
    <3>4. CASE ClearBatchOfRows(s) \/ ReplaceClear(s)
      BY <3>4 DEF ClearBatchOfRows, ReplaceClear, DeleteTop, LoadSteps, ReplaceSteps
    <3>5. CASE ReplaceRead(s) \/ ReplaceLog(s) \/ ReplaceChunk(s) \/ Fail(s)
      BY <3>5 DEF ReplaceRead, ReplaceLog, ReplaceChunk, Fail, Moves, LoadSteps, ReplaceSteps
    <3>. QED
      BY <1>3, <3>1, <3>2, <3>3, <3>4, <3>5 DEF Step
  <2>5. NotEarlier'
    BY <2>1, <2>2, <2>4 DEF NotEarlier, Running
  <2>. QED
    BY <2>3, <2>5
<1>. QED
  BY <1>1, <1>2, <1>3 DEF Next

\* A step writes to no quarter earlier than the one in use, unless it clears it.
LEMMA ArchiveUntouched ==
  ASSUME ArchiveInv, NEW q \in Quarters, q < inUse,
         \A s \in Requests : pc[s] = "clear" => target[s] # q,
         [Next]_vars
  PROVE  rows'[q] = rows[q]
<1>. USE DEF ArchiveInv
<1>1. CASE UNCHANGED vars
  BY <1>1 DEF vars
<1>2. ASSUME NEW s \in Requests, Submit(s) \/ Step(s) \/ Fail(s)
      PROVE  rows'[q] = rows[q]
  <2>1. rows \in [Quarters -> [Groups -> SUBSET Row]] /\ target[s] \in Quarters
        /\ Quarters \subseteq Nat /\ inUse \in Quarters
    BY DatasetsAssumption DEF TypeInv, TypeOK, DatasetsAssumption
  <2>2. CASE DeleteGroupRows(s)
    <3>1. target[s] # q
      BY <2>1, <2>2 DEF DeleteGroupRows, NotEarlier, LoadSteps
    <3>. QED
      BY <2>1, <2>2, <3>1 DEF DeleteGroupRows
  <2>3. CASE LoadChunk(s)
    <3>1. target[s] # q
      BY <2>1, <2>3 DEF LoadChunk, NotEarlier, LoadSteps
    <3>. QED
      BY <2>1, <2>3, <3>1 DEF LoadChunk, Merged
  <2>4. CASE ClearBatchOfRows(s)
    BY <2>1, <2>4 DEF ClearBatchOfRows, DeleteTop, Without
  <2>5. CASE ReplaceClear(s)
    BY <2>1, <2>5 DEF ReplaceClear, DeleteTop, Without
  <2>6. CASE ReplaceChunk(s)
    BY <2>1, <2>6 DEF ReplaceChunk, Merged
  <2>7. CASE ~(\/ DeleteGroupRows(s) \/ LoadChunk(s) \/ ClearBatchOfRows(s)
               \/ ReplaceClear(s) \/ ReplaceChunk(s))
    <3>1. rows' = rows
      <4>1. CASE Submit(s) \/ Fail(s)
        BY <4>1 DEF Submit, SubmitLoad, SubmitClear, SubmitReplace, SubmitUse, Fail, shared
      <4>2. CASE Step(s)
        <5>1. \/ CheckQuarter(s) \/ CreateDataset(s) \/ LogLoad(s) \/ LogRowsLoaded(s)
              \/ ReadInUse(s) \/ CountInUse(s) \/ CountLoaded(s) \/ UseDataset(s)
              \/ ReplaceRead(s) \/ ReplaceLog(s)
          BY <2>7, <4>2 DEF Step
        <5>. QED
          BY <5>1 DEF CheckQuarter, CreateDataset, LogLoad, LogRowsLoaded, ReadInUse, CountInUse,
                      CountLoaded, UseDataset, ReplaceRead, ReplaceLog, shared
      <4>. QED
        BY <1>2, <4>1, <4>2
    <3>. QED
      BY <3>1
  <2>. QED
    BY <2>2, <2>3, <2>4, <2>5, <2>6, <2>7
<1>. QED
  BY <1>1, <1>2 DEF Next

\* One request at a time, and however it ends, the quarters older than the one
\* in use keep the rows they had when they were superseded: a load is refused
\* by its own check, a full import goes to the dataset in use, and only a clear
\* of that very quarter takes rows from it.
THEOREM ArchiveIsKept ==
  ASSUME Overlap = "none"
  PROVE  Spec => ArchiveKept
<1>1. Init => ArchiveInv
  <2>1. Init => TypeInv
    BY TypeInit DEF Init, TypeInv, LoadsHaveFiles, LoadSteps
  <2>. QED
    BY <2>1 DEF Init, ArchiveInv, Alone, NotEarlier, Running, LoadSteps, ReplaceSteps
<1>2. ArchiveInv /\ [Next]_vars => ArchiveInv'
  BY TypeStep, ArchiveStep DEF ArchiveInv
<1>3. ArchiveInv /\ [Next]_vars =>
        [\A q \in Quarters :
           q < inUse /\ (\A s \in Requests : pc[s] = "clear" => target[s] # q)
             => rows'[q] = rows[q]]_vars
  BY ArchiveUntouched
<1>. QED
  BY <1>1, <1>2, <1>3, PTL DEF Spec, ArchiveKept

------------------------------------------------------------------------------
(* Loads alone, none of which stops part-way, however they overlap *)

\* Load s works on the group's rows in the quarter's table.
LoadOf(s, q, g) == target[s] = q /\ file[s].group = g

\* One that is merging has areas of its own group left to merge.
Loads(s) ==
  /\ pc[s] \in {"idle"} \cup LoadSteps \cup Ended
  /\ pc[s] \in LoadSteps => file[s].areas # {}
  /\ pc[s] = "chunks" => todo[s] # {} /\ todo[s] \subseteq {file[s].group} \X Areas
OnlyLoads == \A s \in Requests : Loads(s)

LoadStep(s) ==
  \/ CheckQuarter(s) \/ CreateDataset(s) \/ DeleteGroupRows(s) \/ LogLoad(s) \/ LoadChunk(s)
  \/ LogRowsLoaded(s) \/ ReadInUse(s) \/ CountInUse(s) \/ CountLoaded(s) \/ UseDataset(s)

\* The steps of a load that touch neither rows nor the log.
QuietLoadStep(s) ==
  \/ \E f \in Files : SubmitLoad(s, f)
  \/ CheckQuarter(s) \/ CreateDataset(s) \/ ReadInUse(s) \/ CountInUse(s) \/ CountLoaded(s)
  \/ UseDataset(s)

\* Where the one step of a request leaves it, the others are as they were.
LEMMA OthersStay ==
  ASSUME TypeOK, NEW s \in Requests, (\E f \in Files : SubmitLoad(s, f)) \/ LoadStep(s)
  PROVE  \A r \in Requests \ {s} :
           /\ pc'[r] = pc[r] /\ file'[r] = file[r] /\ target'[r] = target[r] /\ todo'[r] = todo[r]
           /\ needed'[r] = needed[r] /\ waiting'[r] = waiting[r]
<1>. USE DEF TypeOK
<1>1. CASE (\E f \in Files : SubmitLoad(s, f)) \/ CheckQuarter(s) \/ CreateDataset(s)
  BY <1>1 DEF SubmitLoad, CheckQuarter, CreateDataset, Moves, check
<1>2. CASE DeleteGroupRows(s) \/ LogLoad(s) \/ LoadChunk(s) \/ LogRowsLoaded(s) \/ UseDataset(s)
  BY <1>2 DEF DeleteGroupRows, LogLoad, LoadChunk, LogRowsLoaded, UseDataset, Moves, check
<1>3. CASE ReadInUse(s) \/ CountInUse(s) \/ CountLoaded(s)
  BY <1>3 DEF ReadInUse, CountInUse, CountLoaded, Moves
<1>. QED
  BY <1>1, <1>2, <1>3 DEF LoadStep

\* With loads alone, there is no other step.
LEMMA LoadsAlone ==
  ASSUME Operations \subseteq {"load"}, ~MayFail, TypeInv, OnlyLoads, [Next]_vars, vars' # vars
  PROVE  \E s \in Requests : (\E f \in Files : SubmitLoad(s, f)) \/ LoadStep(s)
<1>1. PICK s \in Requests : Submit(s) \/ Step(s) \/ Fail(s)
  BY DEF Next
<1>2. ~Fail(s)
  BY DEF Fail
<1>3. CASE Submit(s)
  BY <1>3 DEF Submit, SubmitClear, SubmitUse, SubmitReplace
<1>4. CASE Step(s)
  BY <1>4 DEF Step, LoadStep, OnlyLoads, Loads, ClearBatchOfRows, ReplaceClear, ReplaceRead, ReplaceLog,
              ReplaceChunk, Moves, LoadSteps, Ended
<1>. QED
  BY <1>1, <1>2, <1>3, <1>4

LEMMA OnlyLoadsStep ==
  ASSUME TypeInv, OnlyLoads, NEW s \in Requests,
         (\E f \in Files : SubmitLoad(s, f)) \/ LoadStep(s)
  PROVE  OnlyLoads'
<1>1. \A r \in Requests \ {s} : Loads(r)'
  BY OthersStay DEF TypeInv, OnlyLoads, Loads
<1>2. Loads(s)'
  <2>. USE DEF TypeInv, TypeOK, LoadSteps, Ended, Loads
  <2>0. Loads(s)
    BY DEF OnlyLoads
  <2>1. ASSUME NEW f \in Files, SubmitLoad(s, f) PROVE Loads(s)'
    BY <2>1 DEF SubmitLoad
  <2>2. CASE LogLoad(s)
    <3>0. pc[s] = "log" /\ file[s] \in Files
      BY <2>2 DEF LogLoad, Moves, LoadsHaveFiles
    <3>1. file[s].areas # {} /\ file[s].areas \subseteq Areas
      BY <2>0, <3>0, FileFacts
    <3>2. pc'[s] = "chunks" /\ file' = file /\ todo'[s] = {file[s].group} \X file[s].areas
      BY <2>2 DEF LogLoad, Moves
    <3>3. PICK a \in file[s].areas : TRUE
      BY <3>1
    <3>4. <<file[s].group, a>> \in todo'[s] /\ todo'[s] \subseteq {file[s].group} \X Areas
      BY <3>1, <3>2
    <3>. QED
      BY <3>1, <3>2, <3>4
  <2>3. CASE LoadChunk(s)
    <3>1. PICK chunk \in (SUBSET todo[s]) \ {{}} :
            /\ todo' = [todo EXCEPT ![s] = @ \ chunk]
            /\ pc' = [pc EXCEPT ![s] = IF chunk = todo[s] THEN "logRows" ELSE @]
      BY <2>3 DEF LoadChunk
    <3>2. pc[s] = "chunks" /\ file' = file /\ todo'[s] = todo[s] \ chunk
          /\ pc'[s] = IF chunk = todo[s] THEN "logRows" ELSE "chunks"
      BY <2>3, <3>1 DEF LoadChunk
    <3>. QED
      BY <2>0, <3>2
  <2>4. CASE CheckQuarter(s) \/ CreateDataset(s) \/ DeleteGroupRows(s) \/ LogRowsLoaded(s)
    BY <2>0, <2>4 DEF CheckQuarter, CreateDataset, DeleteGroupRows, LogRowsLoaded, Moves
  <2>5. CASE ReadInUse(s) \/ CountInUse(s) \/ CountLoaded(s)
    BY <2>0, <2>5 DEF ReadInUse, CountInUse, CountLoaded, Moves, shared
  <2>6. CASE UseDataset(s)
    BY <2>0, <2>6 DEF UseDataset
  <2>. QED
    BY <2>1, <2>2, <2>3, <2>4, <2>5, <2>6 DEF LoadStep
<1>. QED
  BY <1>1, <1>2 DEF OnlyLoads

\* What a load's own statements do to rows: a delete leaves it deleting or about
\* to log, and touches its own group's rows in its quarter alone ...
LEMMA DeleteIs ==
  ASSUME TypeInv, NEW s \in Requests, DeleteGroupRows(s)
  PROVE  /\ pc[s] = "delete" /\ pc'[s] \in {"delete", "log"}
         /\ target[s] \in Quarters /\ file[s].group \in Groups
         /\ UNCHANGED <<inUse, tables, log, file, target, todo, check>>
         /\ \A q \in Quarters, g \in Groups : ~LoadOf(s, q, g) => rows'[q][g] = rows[q][g]
<1>1. /\ pc[s] = "delete" /\ target[s] \in Quarters /\ file[s].group \in Groups
  BY FileFacts DEF DeleteGroupRows, TypeInv, TypeOK, LoadsHaveFiles, LoadSteps
<1>2. PICK gone : /\ rows' = [rows EXCEPT ![target[s]][file[s].group] = @ \ gone]
                  /\ pc' = [pc EXCEPT ![s] = IF Cardinality(gone) < GroupBatch THEN "log" ELSE @]
  BY DEF DeleteGroupRows
<1>3. pc'[s] \in {"delete", "log"}
  BY <1>1, <1>2 DEF TypeInv, TypeOK
<1>4. \A q \in Quarters, g \in Groups : ~LoadOf(s, q, g) => rows'[q][g] = rows[q][g]
  BY <1>1, <1>2 DEF TypeInv, TypeOK, LoadOf
<1>. QED
  BY <1>1, <1>3, <1>4 DEF DeleteGroupRows

\* ... and a MERGE leaves every area that had a row with one, and those merged.
LEMMA ChunkIs ==
  ASSUME TypeInv, OnlyLoads, NEW s \in Requests, LoadChunk(s)
  PROVE  /\ pc[s] = "chunks" /\ pc'[s] = (IF todo'[s] = {} THEN "logRows" ELSE "chunks")
         /\ target[s] \in Quarters /\ file[s].group \in Groups
         /\ UNCHANGED <<inUse, tables, log, file, target, check>>
         /\ \A q \in Quarters, g \in Groups : ~LoadOf(s, q, g) => rows'[q][g] = rows[q][g]
         /\ rows'[target[s]][file[s].group] # {}
         /\ \A q \in Quarters, g \in Groups, a \in Areas :
              \/ \E r \in rows[q][g] : r[1] = a
              \/ target[s] = q /\ <<g, a>> \in todo[s] \ todo'[s]
              => \E r \in rows'[q][g] : r[1] = a
<1>1. /\ pc[s] = "chunks" /\ target[s] \in Quarters /\ file[s].group \in Groups /\ TypeOK
  BY FileFacts DEF LoadChunk, TypeInv, TypeOK, LoadsHaveFiles, LoadSteps
<1>2. PICK chunk \in (SUBSET todo[s]) \ {{}} :
        /\ rows' = Merged(target[s], chunk, file[s])
        /\ todo' = [todo EXCEPT ![s] = @ \ chunk]
        /\ pc' = [pc EXCEPT ![s] = IF chunk = todo[s] THEN "logRows" ELSE @]
  BY DEF LoadChunk
<1>3. /\ todo'[s] = todo[s] \ chunk /\ chunk \subseteq todo[s] /\ chunk # {}
      /\ pc'[s] = IF todo'[s] = {} THEN "logRows" ELSE "chunks"
  <2>1. /\ todo'[s] = todo[s] \ chunk /\ chunk \subseteq todo[s] /\ chunk # {}
    <3>1. DOMAIN todo = Requests
      BY <1>1 DEF TypeOK
    <3>2. todo'[s] = todo[s] \ chunk
      BY <1>2, <3>1
    <3>. QED
      BY <1>2, <3>2
  <2>3. pc'[s] = IF chunk = todo[s] THEN "logRows" ELSE "chunks"
    <3>. HIDE DEF Merged
    <3>1. pc \in [Requests -> {"idle"} \cup Running \cup Ended]
      BY <1>1 DEF TypeOK
    <3>. QED
      BY <1>1, <1>2, <3>1
  <2>2. chunk = todo[s] <=> todo'[s] = {}
    BY <2>1
  <2>. QED
    BY <2>1, <2>2, <2>3
<1>4. todo[s] \subseteq {file[s].group} \X Areas
  BY <1>1 DEF OnlyLoads, Loads
<1>5. \A q \in Quarters, g \in Groups :
        rows'[q][g] = IF q = target[s] THEN MergedGroup(q, g, chunk, file[s]) ELSE rows[q][g]
  BY <1>1, <1>2, MergedRows
<1>6. ASSUME NEW q \in Quarters, NEW g \in Groups, ~LoadOf(s, q, g)
      PROVE  rows'[q][g] = rows[q][g]
  <2>1. CASE q # target[s]
    BY <1>5, <2>1
  <2>2. CASE q = target[s]
    <3>1. \A a : <<g, a>> \notin chunk
      BY <1>3, <1>4, <1>6, <2>2 DEF LoadOf
    <3>2. MergedGroup(q, g, chunk, file[s]) = rows[q][g]
      BY <3>1 DEF MergedGroup
    <3>. QED
      BY <1>5, <2>2, <3>2
  <2>. QED
    BY <2>1, <2>2
<1>7. ASSUME NEW q \in Quarters, NEW g \in Groups, NEW a \in Areas,
             \/ \E r \in rows[q][g] : r[1] = a
             \/ target[s] = q /\ <<g, a>> \in chunk
      PROVE  \E r \in rows'[q][g] : r[1] = a
  <2>1. CASE q # target[s]
    BY <1>5, <1>7, <2>1
  <2>2. CASE q = target[s] /\ <<g, a>> \in chunk
    <3>1. <<a, file[s]>> \in MergedGroup(q, g, chunk, file[s])
      BY <2>2 DEF MergedGroup
    <3>2. <<a, file[s]>>[1] = a
      OBVIOUS
    <3>. QED
      BY <1>5, <2>2, <3>1, <3>2
  <2>3. CASE q = target[s] /\ <<g, a>> \notin chunk
    <3>1. PICK r \in rows[q][g] : r[1] = a
      BY <1>7, <2>3
    <3>2. r \in MergedGroup(q, g, chunk, file[s])
      BY <2>3, <3>1 DEF MergedGroup
    <3>. QED
      BY <1>5, <2>3, <3>1, <3>2
  <2>. QED
    BY <2>1, <2>2, <2>3
<1>8. rows'[target[s]][file[s].group] # {}
  <2>1. PICK a \in Areas : <<file[s].group, a>> \in chunk
    BY <1>3, <1>4
  <2>. QED
    BY <1>1, <1>7, <2>1
<1>9. \A q \in Quarters, g \in Groups, a \in Areas :
        \/ \E r \in rows[q][g] : r[1] = a
        \/ target[s] = q /\ <<g, a>> \in todo[s] \ todo'[s]
        => \E r \in rows'[q][g] : r[1] = a
  BY <1>3, <1>7
<1>. QED
  BY <1>1, <1>3, <1>6, <1>8, <1>9 DEF LoadChunk

------------------------------------------------------------------------------
(* The newest load's areas *)

\* Every area of the newest logged load's file has a row or is still to be merged,
\* unless a load that will log itself after it is deleting.
Kept(q, g, a) ==
  \/ \E r \in rows[q][g] : r[1] = a
  \/ \E s \in Requests : pc[s] = "chunks" /\ target[s] = q /\ <<g, a>> \in todo[s]
Superseding(q, g) == \E s \in Requests : pc[s] \in {"delete", "log"} /\ LoadOf(s, q, g)
NewestKept ==
  \A q \in Quarters, g \in Groups : log[q][g] # None =>
    Superseding(q, g) \/ \A a \in log[q][g].file.areas : Kept(q, g, a)

LEMMA NewestKeptStep ==
  ASSUME TypeInv, OnlyLoads, NewestKept, NEW s \in Requests,
         (\E f \in Files : SubmitLoad(s, f)) \/ LoadStep(s)
  PROVE  NewestKept'
<1>0. /\ \A r \in Requests \ {s} :
           pc'[r] = pc[r] /\ file'[r] = file[r] /\ target'[r] = target[r] /\ todo'[r] = todo[r]
      /\ TypeOK
  BY OthersStay DEF TypeInv
<1>1. CASE QuietLoadStep(s)
  <2>1. rows' = rows /\ log' = log
    BY <1>1 DEF QuietLoadStep, SubmitLoad, CheckQuarter, CreateDataset, ReadInUse, CountInUse,
                CountLoaded, UseDataset, shared
  <2>2. pc[s] \notin {"delete", "log", "chunks"}
    BY <1>1 DEF QuietLoadStep, SubmitLoad, Idle, CheckQuarter, CreateDataset, ReadInUse, CountInUse,
                CountLoaded, UseDataset, Moves
  <2>3. ASSUME NEW q \in Quarters, NEW g \in Groups, Superseding(q, g) PROVE Superseding(q, g)'
    BY <1>0, <2>2, <2>3 DEF Superseding, LoadOf
  <2>4. ASSUME NEW q \in Quarters, NEW g \in Groups, NEW a, Kept(q, g, a) PROVE Kept(q, g, a)'
    BY <1>0, <2>1, <2>2, <2>4 DEF Kept
  <2>. QED
    BY <2>1, <2>3, <2>4 DEF NewestKept
<1>2. CASE LogRowsLoaded(s)
  <2>1. rows' = rows /\ pc[s] = "logRows" /\ target[s] \in Quarters /\ file[s].group \in Groups
    BY <1>2, FileFacts DEF LogRowsLoaded, Moves, TypeInv, TypeOK, LoadsHaveFiles, LoadSteps
  <2>2. \A q \in Quarters, g \in Groups : log'[q][g] # None =>
          log[q][g] # None /\ log'[q][g].file = log[q][g].file
    <3>1. CASE log[target[s]][file[s].group] = None
      BY <1>2, <3>1 DEF LogRowsLoaded
    <3>2. CASE log[target[s]][file[s].group] # None
      <4>. DEFINE old == log[target[s]][file[s].group]
                  new == [old EXCEPT !.rowsLoaded = FeatureCount(file[s])]
      <4>1. old \in LogRow
        BY <1>0, <2>1, <3>2 DEF TypeOK
      <4>2. new.file = old.file
        BY <4>1 DEF LogRow
      <4>3. log' = [log EXCEPT ![target[s]][file[s].group] = new]
        BY <1>2, <3>2 DEF LogRowsLoaded
      <4>. HIDE DEF new
      <4>. QED
        BY <1>0, <2>1, <3>2, <4>2, <4>3 DEF TypeOK
    <3>. QED
      BY <3>1, <3>2
  <2>3. ASSUME NEW q \in Quarters, NEW g \in Groups, Superseding(q, g) PROVE Superseding(q, g)'
    BY <1>0, <2>1, <2>3 DEF Superseding, LoadOf
  <2>4. ASSUME NEW q \in Quarters, NEW g \in Groups, NEW a, Kept(q, g, a) PROVE Kept(q, g, a)'
    BY <1>0, <2>1, <2>4 DEF Kept
  <2>. QED
    BY <2>2, <2>3, <2>4 DEF NewestKept
<1>3. CASE DeleteGroupRows(s)
  <2>1. ASSUME NEW q \in Quarters, NEW g \in Groups, LoadOf(s, q, g) PROVE Superseding(q, g)'
    BY <1>3, <2>1, DeleteIs DEF Superseding, LoadOf
  <2>2. ASSUME NEW q \in Quarters, NEW g \in Groups, ~LoadOf(s, q, g)
        PROVE  /\ Superseding(q, g) => Superseding(q, g)'
               /\ \A a : Kept(q, g, a) => Kept(q, g, a)'
    BY <1>0, <1>3, <2>2, DeleteIs DEF Superseding, LoadOf, Kept
  <2>3. log' = log
    BY <1>3, DeleteIs
  <2>. QED
    BY <2>1, <2>2, <2>3 DEF NewestKept
<1>4. CASE LogLoad(s)
  <2>. DEFINE q0 == target[s]  g0 == file[s].group
  <2>1. /\ pc[s] = "log" /\ q0 \in Quarters /\ g0 \in Groups /\ file[s] \in Files
        /\ file[s].areas \subseteq Areas
    BY <1>4, FileFacts DEF LogLoad, Moves, TypeInv, TypeOK, LoadsHaveFiles, LoadSteps
  <2>2. /\ log' = [log EXCEPT ![q0][g0] = [file |-> file[s], rowsLoaded |-> 0]]
        /\ todo'[s] = {g0} \X file[s].areas /\ pc'[s] = "chunks"
        /\ rows' = rows /\ target' = target /\ file' = file
    BY <1>0, <1>4 DEF LogLoad, Moves, TypeOK
  <2>3. /\ log'[q0][g0].file = file[s]
        /\ \A q \in Quarters, g \in Groups : q # q0 \/ g # g0 => log'[q][g] = log[q][g]
    BY <1>0, <2>1, <2>2 DEF TypeOK
  <2>4. \A a \in file[s].areas : Kept(q0, g0, a)'
    BY <2>2 DEF Kept
  <2>5. ASSUME NEW q \in Quarters, NEW g \in Groups, q # q0 \/ g # g0
        PROVE  /\ Superseding(q, g) => Superseding(q, g)'
               /\ \A a : Kept(q, g, a) => Kept(q, g, a)'
    BY <1>0, <2>1, <2>2, <2>5 DEF Superseding, LoadOf, Kept
  <2>6. ASSUME NEW q \in Quarters, NEW g \in Groups, log'[q][g] # None
        PROVE  Superseding(q, g)' \/ \A a \in log'[q][g].file.areas : Kept(q, g, a)'
    <3>1. CASE q = q0 /\ g = g0
      <4>1. log'[q][g].file = file[s]
        BY <2>3, <3>1
      <4>2. ASSUME NEW a \in file[s].areas PROVE Kept(q, g, a)'
        BY <2>2, <3>1 DEF Kept
      <4>. QED
        BY <4>1, <4>2
    <3>2. CASE q # q0 \/ g # g0
      BY <2>3, <2>5, <2>6, <3>2 DEF NewestKept
    <3>. QED
      BY <3>1, <3>2
  <2>. QED
    BY <2>6 DEF NewestKept
<1>5. CASE LoadChunk(s)
  <2>1. /\ pc[s] = "chunks" /\ log' = log /\ target' = target /\ file' = file
        /\ pc'[s] = (IF todo'[s] = {} THEN "logRows" ELSE "chunks")
        /\ \A q \in Quarters, g \in Groups, a \in Areas :
              \/ \E r \in rows[q][g] : r[1] = a
              \/ target[s] = q /\ <<g, a>> \in todo[s] \ todo'[s]
              => \E r \in rows'[q][g] : r[1] = a
    BY <1>5, ChunkIs
  <2>2. ASSUME NEW q \in Quarters, NEW g \in Groups, Superseding(q, g) PROVE Superseding(q, g)'
    BY <1>0, <2>1, <2>2 DEF Superseding, LoadOf
  <2>3. ASSUME NEW q \in Quarters, NEW g \in Groups, NEW a \in Areas, Kept(q, g, a)
        PROVE  Kept(q, g, a)'
    <3>1. CASE \E r \in rows[q][g] : r[1] = a
      BY <2>1, <3>1 DEF Kept
    <3>2. CASE \E r \in Requests \ {s} : pc[r] = "chunks" /\ target[r] = q /\ <<g, a>> \in todo[r]
      BY <1>0, <3>2 DEF Kept
    <3>3. CASE target[s] = q /\ <<g, a>> \in todo[s]
      BY <2>1, <3>3 DEF Kept
    <3>. QED
      BY <2>3, <3>1, <3>2, <3>3 DEF Kept
  <2>4. \A q \in Quarters, g \in Groups : log[q][g] # None => log[q][g].file.areas \subseteq Areas
    BY <1>0, FileFacts DEF TypeOK, LogRow
  <2>. QED
    BY <2>1, <2>2, <2>3, <2>4 DEF NewestKept
<1>. QED
  BY <1>1, <1>2, <1>3, <1>4, <1>5 DEF LoadStep, QuietLoadStep

\* Where loads are all that runs and none stops part-way, however many load one
\* group of a quarter at once, every area of the file logged last has a row when
\* they have ended: importConsulteeAreaGroup deletes, then logs, then merges, so
\* whoever deletes what another merged logs itself after it.
THEOREM NewestLoadIsComplete ==
  ASSUME Operations \subseteq {"load"}, ~MayFail
  PROVE  Spec => []NewestLoadComplete
<1>. DEFINE Inv == TypeInv /\ OnlyLoads /\ NewestKept
<1>1. Init => Inv
  <2>. SUFFICES ASSUME Init PROVE OnlyLoads /\ NewestKept /\ TypeInv
    OBVIOUS
  <2>1. \A s \in Requests : pc[s] = "idle"
    BY DEF Init
  <2>2. \A q \in Quarters, g \in Groups : log[q][g] = None
    BY DEF Init, NoLoads
  <2>. QED
    BY <2>1, <2>2, TypeInit DEF OnlyLoads, Loads, NewestKept, TypeInv, LoadsHaveFiles, LoadSteps
<1>2. Inv /\ [Next]_vars => Inv'
  <2>. SUFFICES ASSUME Inv, [Next]_vars PROVE Inv'
    OBVIOUS
  <2>1. TypeInv'
    BY TypeStep
  <2>2. CASE vars' = vars
    BY <2>1, <2>2 DEF vars, OnlyLoads, Loads, NewestKept, Superseding, Kept, LoadOf
  <2>3. CASE vars' # vars
    BY <2>1, <2>3, LoadsAlone, OnlyLoadsStep, NewestKeptStep
  <2>. QED
    BY <2>2, <2>3
<1>3. Inv => NewestLoadComplete
  <2>. SUFFICES ASSUME NewestKept, Quiet, NEW q \in Quarters, NEW g \in Groups, log[q][g] # None,
                       NEW a \in log[q][g].file.areas
                PROVE  \E r \in rows[q][g] : r[1] = a
    BY DEF NewestLoadComplete
  <2>1. \A s \in Requests : pc[s] \notin {"delete", "log", "chunks"}
    BY DEF Quiet, Running, LoadSteps
  <2>2. ~Superseding(q, g)
    BY <2>1 DEF Superseding
  <2>3. Kept(q, g, a)
    BY <2>2 DEF NewestKept
  <2>. QED
    BY <2>1, <2>3 DEF Kept
<1>. QED
  BY <1>1, <1>2, <1>3, PTL DEF Spec

------------------------------------------------------------------------------
(* The switch to the quarter that follows *)

\* Screening finds the group, or a load of it into the dataset in use is under way.
WillHave(g) ==
  \/ rows[inUse][g] # {}
  \/ \E s \in Requests : pc[s] \in {"delete", "log", "chunks"} /\ LoadOf(s, inUse, g)

\* A load of the quarter that has still to find out whether it is ready, and has
\* found nothing that it waits for.
Ahead(s, q) ==
  /\ target[s] = q
  /\ \/ pc[s] \in {"delete", "log", "chunks", "logRows", "readInUse", "countInUse", "use"}
     \/ pc[s] = "countLoaded" /\ waiting[s] = {}

Checks(s) ==
  /\ pc[s] \in LoadSteps \ {"check", "create"} => target[s] \in tables
  /\ pc[s] \in {"countInUse", "countLoaded", "use"} => target[s] > FirstQuarter
  /\ pc[s] = "countInUse" => waiting[s] = {}
  /\ pc[s] \in {"countInUse", "countLoaded"} /\ target[s] > inUse =>
       \A g \in needed[s] : WillHave(g)

\* A newer quarter waits for a group, or some load of it has still to see that it does not.
SwitchInv ==
  /\ inUse >= FirstQuarter
  /\ \A s \in Requests : Checks(s)
  /\ \A q \in tables : q > inUse =>
       \/ \E g \in Groups : WillHave(g) /\ rows[q][g] = {}
       \/ \E s \in Requests : Ahead(s, q)

\* A group someone loads or has loaded into the dataset in use is not lost to it.
LEMMA WillHaveStays ==
  ASSUME TypeInv, OnlyLoads, NEW s \in Requests, inUse' = inUse,
         (\E f \in Files : SubmitLoad(s, f)) \/ LoadStep(s),
         NEW g \in Groups, WillHave(g)
  PROVE  WillHave(g)'
<1>0. /\ \A r \in Requests \ {s} : pc'[r] = pc[r] /\ file'[r] = file[r] /\ target'[r] = target[r]
      /\ inUse \in Quarters
  BY OthersStay DEF TypeInv, TypeOK
<1>1. CASE QuietLoadStep(s) \/ LogRowsLoaded(s)
  <2>1. rows' = rows
    BY <1>1 DEF QuietLoadStep, SubmitLoad, CheckQuarter, CreateDataset, ReadInUse, CountInUse,
                CountLoaded, UseDataset, LogRowsLoaded, shared
  <2>2. pc[s] \notin {"delete", "log", "chunks"}
    BY <1>1 DEF QuietLoadStep, SubmitLoad, Idle, CheckQuarter, CreateDataset, ReadInUse, CountInUse,
                CountLoaded, UseDataset, LogRowsLoaded, Moves
  <2>. QED
    BY <1>0, <2>1, <2>2 DEF WillHave, LoadOf
<1>2. CASE DeleteGroupRows(s)
  <2>1. CASE LoadOf(s, inUse, g)
    BY <1>2, <2>1, DeleteIs DEF WillHave, LoadOf
  <2>2. CASE ~LoadOf(s, inUse, g)
    BY <1>0, <1>2, <2>2, DeleteIs DEF WillHave, LoadOf
  <2>. QED
    BY <2>1, <2>2
<1>3. CASE LogLoad(s)
  <2>1. rows' = rows /\ pc'[s] = "chunks" /\ file' = file /\ target' = target
    BY <1>3 DEF LogLoad, Moves, TypeInv, TypeOK
  <2>. QED
    BY <1>0, <2>1 DEF WillHave, LoadOf
<1>4. CASE LoadChunk(s)
  <2>1. CASE LoadOf(s, inUse, g)
    BY <1>4, <2>1, ChunkIs DEF WillHave, LoadOf
  <2>2. CASE ~LoadOf(s, inUse, g)
    BY <1>0, <1>4, <2>2, ChunkIs DEF WillHave, LoadOf
  <2>. QED
    BY <2>1, <2>2
<1>. QED
  BY <1>1, <1>2, <1>3, <1>4 DEF LoadStep, QuietLoadStep

\* A step of load s that switches nothing.
LEMMA NoSwitchStep ==
  ASSUME TypeInv, OnlyLoads, SwitchInv, NEW s \in Requests, inUse' = inUse, ~UseDataset(s),
         (\E f \in Files : SubmitLoad(s, f)) \/ LoadStep(s)
  PROVE  SwitchInv'
<1>0. /\ \A r \in Requests \ {s} :
           /\ pc'[r] = pc[r] /\ file'[r] = file[r] /\ target'[r] = target[r]
           /\ needed'[r] = needed[r] /\ waiting'[r] = waiting[r]
      /\ inUse \in Nat /\ FirstQuarter \in Nat /\ target[s] \in Nat
  BY OthersStay, DatasetsAssumption DEF TypeInv, TypeOK
<1>w. \A g \in Groups : WillHave(g) => WillHave(g)'
  BY WillHaveStays
<1>n. \A r \in Requests : needed[r] \subseteq Groups
  BY DEF TypeInv, TypeOK
<1>t. tables' = tables \/ (CreateDataset(s) /\ tables' = tables \cup {target[s]})
  <2>1. CASE CreateDataset(s)
    BY <2>1 DEF CreateDataset
  <2>2. CASE \E f \in Files : SubmitLoad(s, f)
    BY <2>2 DEF SubmitLoad, shared
  <2>3. CASE \/ CheckQuarter(s) \/ DeleteGroupRows(s) \/ LogLoad(s) \/ LoadChunk(s) \/ LogRowsLoaded(s)
             \/ ReadInUse(s) \/ CountInUse(s) \/ CountLoaded(s)
    BY <2>3 DEF CheckQuarter, DeleteGroupRows, LogLoad, LoadChunk, LogRowsLoaded, ReadInUse, CountInUse,
                CountLoaded, shared
  <2>. QED
    BY <2>1, <2>2, <2>3 DEF LoadStep
<1>1. \A r \in Requests \ {s} : Checks(r)'
  BY <1>0, <1>w, <1>n, <1>t DEF SwitchInv, Checks
<1>2. Checks(s)'
  <2>. USE DEF TypeInv, TypeOK, LoadSteps
  <2>0. Checks(s)
    BY DEF SwitchInv
  <2>1. CASE (\E f \in Files : SubmitLoad(s, f)) \/ CheckQuarter(s)
    BY <2>1 DEF SubmitLoad, CheckQuarter, Moves, Checks, check
  <2>2. CASE CreateDataset(s)
    BY <2>2 DEF CreateDataset, Moves, Checks, check
  <2>3. CASE DeleteGroupRows(s)
    BY <2>0, <2>3, DeleteIs DEF Checks, check
  <2>4. CASE LogLoad(s) \/ LogRowsLoaded(s)
    BY <2>0, <2>4 DEF LogLoad, LogRowsLoaded, Moves, Checks, check
  <2>5. CASE LoadChunk(s)
    BY <2>0, <2>5, ChunkIs DEF Checks, check
  <2>6. CASE ReadInUse(s)
    <3>1. /\ pc[s] = "readInUse" /\ target' = target /\ tables' = tables
          /\ pc'[s] = (IF target[s] > inUse THEN "countInUse" ELSE "done")
          /\ needed'[s] = {} /\ waiting'[s] = {}
      BY <2>6 DEF ReadInUse, Moves, shared
    <3>2. target[s] > inUse => target[s] > FirstQuarter
      <4>1. inUse >= FirstQuarter
        BY DEF SwitchInv
      <4>. HIDE DEF TypeInv, TypeOK
      <4>. QED
        BY <1>0, <4>1
    <3>. QED
      BY <2>0, <3>1, <3>2 DEF Checks
  <2>7. CASE CountInUse(s)
    <3>0. PICK g : g = GroupOrder[at[s]]
      OBVIOUS
    <3>1. /\ pc[s] = "countInUse" /\ target' = target /\ tables' = tables /\ rows' = rows
          /\ pc'[s] \in {"countInUse", "countLoaded"} /\ waiting' = waiting
          /\ needed'[s] \in {needed[s], needed[s] \cup {g}}
          /\ rows[inUse][g] = {} => needed'[s] = needed[s]
      BY <2>7, <3>0 DEF CountInUse, Moves, shared
    <3>2. rows[inUse][g] # {} => WillHave(g)'
      BY <3>1 DEF WillHave
    <3>3. target[s] > inUse => \A h \in needed'[s] : WillHave(h)'
      BY <2>0, <1>n, <1>w, <3>1, <3>2 DEF Checks
    <3>. QED
      BY <2>0, <3>1, <3>3 DEF Checks
  <2>8. CASE CountLoaded(s)
    <3>1. /\ pc[s] = "countLoaded" /\ target' = target /\ tables' = tables /\ needed' = needed
          /\ pc'[s] \in {"countLoaded", "use", "done"}
      BY <2>8 DEF CountLoaded, Moves, shared
    <3>. QED
      BY <2>0, <1>n, <1>w, <3>1 DEF Checks
  <2>. QED
    BY <2>1, <2>2, <2>3, <2>4, <2>5, <2>6, <2>7, <2>8 DEF LoadStep
<1>3. ASSUME NEW q \in tables', q > inUse
      PROVE  \/ \E g \in Groups : WillHave(g)' /\ rows'[q][g] = {}
             \/ \E r \in Requests : Ahead(r, q)'
  <2>1. CASE q \notin tables
    <3>1. CreateDataset(s) /\ target[s] = q
      BY <1>t, <1>3, <2>1
    <3>2. pc'[s] = "delete" /\ target'[s] = q
      BY <3>1 DEF CreateDataset, Moves, TypeInv, TypeOK
    <3>. QED
      BY <3>2 DEF Ahead
  <2>2. ASSUME q \in tables, NEW g \in Groups, WillHave(g), rows[q][g] = {}
        PROVE  rows'[q][g] = {} \/ Ahead(s, q)'
    <3>1. CASE LoadChunk(s)
      BY <2>2, <3>1, ChunkIs DEF Ahead, LoadOf, TypeInv, TypeOK
    <3>2. CASE DeleteGroupRows(s)
      BY <2>2, <3>2, DeleteIs DEF Ahead, LoadOf, TypeInv, TypeOK
    <3>3. CASE ~LoadChunk(s) /\ ~DeleteGroupRows(s)
      <4>1. rows' = rows
        BY <3>3 DEF LoadStep, SubmitLoad, CheckQuarter, CreateDataset, LogLoad,
                    LogRowsLoaded, ReadInUse, CountInUse, CountLoaded, shared
      <4>. QED
        BY <2>2, <4>1
    <3>. QED
      BY <3>1, <3>2, <3>3
  <2>3. ASSUME NEW r \in Requests \ {s}, Ahead(r, q) PROVE Ahead(r, q)'
    BY <1>0, <2>3 DEF Ahead
  <2>4. ASSUME Ahead(s, q)
        PROVE  Ahead(s, q)' \/ \E g \in Groups : WillHave(g)' /\ rows'[q][g] = {}
    <3>. USE DEF TypeInv, TypeOK
    <3>0. Checks(s) /\ target[s] = q
      BY <2>4 DEF SwitchInv, Ahead
    <3>1. CASE (\E f \in Files : SubmitLoad(s, f)) \/ CheckQuarter(s) \/ CreateDataset(s)
      BY <2>4, <3>1 DEF SubmitLoad, Idle, CheckQuarter, CreateDataset, Moves, Ahead
    <3>2. CASE DeleteGroupRows(s) \/ LoadChunk(s)
      BY <3>0, <3>2, DeleteIs, ChunkIs DEF Ahead
    <3>3. CASE LogLoad(s) \/ LogRowsLoaded(s)
      BY <3>0, <3>3 DEF LogLoad, LogRowsLoaded, Moves, Ahead
    <3>4. CASE ReadInUse(s)
      BY <1>3, <3>0, <3>4 DEF ReadInUse, Moves, Ahead
    <3>5. CASE CountInUse(s)
      BY <3>0, <3>5 DEF CountInUse, Moves, Ahead, Checks
    <3>6. CASE CountLoaded(s)
      <4>0. PICK g : g = GroupOrder[at[s]]
        OBVIOUS
      <4>. DEFINE left == waiting[s] \cup {h \in needed[s] : h = g /\ rows[target[s]][g] = {}}
      <4>1. /\ pc[s] = "countLoaded" /\ target' = target /\ rows' = rows
            /\ waiting'[s] = left
            /\ pc'[s] \in {"countLoaded", "use"} \/ left # {}
        BY <3>6, <4>0 DEF CountLoaded, Moves, shared
      <4>2. CASE left = {}
        BY <3>0, <4>1, <4>2 DEF Ahead
      <4>3. CASE left # {}
        <5>1. waiting[s] = {}
          BY <2>4, <4>1 DEF Ahead
        <5>2. g \in needed[s] /\ rows[q][g] = {}
          BY <3>0, <4>3, <5>1
        <5>3. g \in Groups /\ WillHave(g)
          BY <1>3, <1>n, <3>0, <4>1, <5>2 DEF Checks
        <5>. QED
          BY <1>w, <4>1, <5>2, <5>3
      <4>. QED
        BY <4>2, <4>3
    <3>. QED
      BY <3>1, <3>2, <3>3, <3>4, <3>5, <3>6 DEF LoadStep
  <2>. QED
    BY <1>3, <1>w, <2>1, <2>2, <2>3, <2>4 DEF SwitchInv
<1>. QED
  BY <1>1, <1>2, <1>3 DEF SwitchInv

\* With a single newer quarter, a switch leaves none to be missed.
LEMMA SwitchStep ==
  ASSUME TypeInv, OnlyLoads, SwitchInv, NEW s \in Requests, UseDataset(s),
         \A p, q \in Quarters : p > FirstQuarter /\ q > FirstQuarter => p = q
  PROVE  SwitchInv'
<1>0. /\ \A r \in Requests \ {s} :
           /\ pc'[r] = pc[r] /\ file'[r] = file[r] /\ target'[r] = target[r]
           /\ needed'[r] = needed[r] /\ waiting'[r] = waiting[r]
      /\ inUse \in Quarters /\ Quarters \subseteq Nat /\ FirstQuarter \in Nat
      /\ \A r \in Requests : target[r] \in Quarters /\ target[r] \in Nat
      /\ tables' = tables /\ tables \subseteq Quarters
  BY OthersStay, DatasetsAssumption DEF TypeInv, TypeOK, LoadStep, UseDataset
<1>1. pc[s] = "use" /\ target[s] \in tables /\ target[s] > FirstQuarter
  BY DEF OnlyLoads, Loads, SwitchInv, Checks, UseDataset, LoadSteps, Ended
<1>2. inUse' = target[s] /\ pc'[s] = "done" /\ target' = target
  BY <1>1 DEF UseDataset, TypeInv, TypeOK
<1>3. \A q \in Quarters : ~(q > inUse')
  <2>. SUFFICES ASSUME NEW q \in Quarters, q > target[s] PROVE FALSE
    BY <1>2
  <2>1. q \in Nat /\ target[s] \in Nat /\ FirstQuarter \in Nat
    BY <1>0
  <2>2. q > FirstQuarter /\ q # target[s]
    BY <1>1, <2>1
  <2>. QED
    BY <1>0, <1>1, <2>2
<1>4. \A r \in Requests : Checks(r)'
  BY <1>0, <1>2, <1>3 DEF SwitchInv, Checks, LoadSteps
<1>5. inUse' >= FirstQuarter
  <2>1. target[s] \in Nat /\ FirstQuarter \in Nat
    BY <1>0
  <2>. QED
    BY <1>1, <1>2, <2>1
<1>. QED
  BY <1>0, <1>3, <1>4, <1>5 DEF SwitchInv

\* Files of the quarter in use and of one newer quarter, loaded in any order and
\* overlapping in any way, none stopping part-way: when the last load has ended,
\* the newer quarter is in use unless it has no rows of a group that is. Each load
\* does its rows before it checks (loadConsulteeAreaGroup), so the last to check
\* sees them all. With two newer quarters this is not so.
THEOREM SwitchIsNotMissed ==
  ASSUME Operations \subseteq {"load"}, ~MayFail,
         \A p, q \in Quarters : p > FirstQuarter /\ q > FirstQuarter => p = q
  PROVE  Spec => []NoMissedSwitch
<1>. DEFINE Inv == TypeInv /\ OnlyLoads /\ SwitchInv
<1>1. Init => Inv
  <2>. SUFFICES ASSUME Init PROVE OnlyLoads /\ SwitchInv /\ TypeInv
    OBVIOUS
  <2>1. \A s \in Requests : pc[s] = "idle"
    BY DEF Init
  <2>2. TypeInv
    BY <2>1, TypeInit DEF TypeInv, LoadsHaveFiles, LoadSteps
  <2>3. inUse = FirstQuarter /\ tables = {FirstQuarter} /\ FirstQuarter \in Nat
    BY DatasetsAssumption DEF Init
  <2>4. OnlyLoads
    BY <2>1 DEF OnlyLoads, Loads, LoadSteps
  <2>5. SwitchInv
    BY <2>1, <2>3 DEF SwitchInv, Checks, LoadSteps
  <2>. QED
    BY <2>2, <2>4, <2>5
<1>2. Inv /\ [Next]_vars => Inv'
  <2>. SUFFICES ASSUME Inv, [Next]_vars PROVE Inv'
    OBVIOUS
  <2>1. TypeInv'
    BY TypeStep
  <2>2. CASE vars' = vars
    BY <2>1, <2>2 DEF vars, OnlyLoads, Loads, SwitchInv, Checks, Ahead, WillHave, LoadOf
  <2>3. CASE vars' # vars
    <3>1. PICK s \in Requests : (\E f \in Files : SubmitLoad(s, f)) \/ LoadStep(s)
      BY <2>3, LoadsAlone
    <3>2. OnlyLoads'
      BY <3>1, OnlyLoadsStep
    <3>3. CASE UseDataset(s)
      BY <2>1, <3>2, <3>3, SwitchStep
    <3>4. CASE ~UseDataset(s)
      <4>1. inUse' = inUse
        BY <3>1, <3>4 DEF LoadStep, SubmitLoad, CheckQuarter, CreateDataset, DeleteGroupRows, LogLoad,
                          LoadChunk, LogRowsLoaded, ReadInUse, CountInUse, CountLoaded, shared
      <4>. QED
        BY <2>1, <3>1, <3>2, <3>4, <4>1, NoSwitchStep
    <3>. QED
      BY <3>3, <3>4
  <2>. QED
    BY <2>2, <2>3
<1>3. Inv => NoMissedSwitch
  <2>. SUFFICES ASSUME SwitchInv, Quiet, NEW q \in tables, q > inUse
                PROVE  \E g \in Groups : rows[inUse][g] # {} /\ rows[q][g] = {}
    BY DEF NoMissedSwitch
  <2>1. \A s \in Requests : ~Ahead(s, q)
    BY DEF Quiet, Ahead, Running, LoadSteps
  <2>2. \A g \in Groups : WillHave(g) => rows[inUse][g] # {}
    BY DEF Quiet, WillHave, Running, LoadSteps
  <2>. QED
    BY <2>1, <2>2 DEF SwitchInv
<1>. QED
  BY <1>1, <1>2, <1>3, PTL DEF Spec

------------------------------------------------------------------------------
(* What a set of a group's rows is, as the promise sees it *)

\* The rows are some or all of one file's, or of the export's.
OneSource(g, R) ==
  (\E f \in Files : R \subseteq FileRows(f)) \/ R \subseteq ExportAreas[g] \X {ReferenceExport}

\* A file's rows name the file: no other file and not the export has any of them.
LEMMA RowsNameTheirFile ==
  ASSUME NEW f \in Files, NEW R, R # {}, R \subseteq FileRows(f), NEW g
  PROVE  /\ \A e \in Files : R \subseteq FileRows(e) => e = f
         /\ ~(R \subseteq ExportAreas[g] \X {ReferenceExport})
<1>1. PICK r \in R : r \in FileRows(f)
  OBVIOUS
<1>2. r[2] = f
  BY <1>1 DEF FileRows
<1>3. \A e \in Files : r \in FileRows(e) => e = f
  BY <1>2 DEF FileRows
<1>4. r \notin ExportAreas[g] \X {ReferenceExport}
  BY <1>2, DatasetsAssumption DEF DatasetsAssumption
<1>. QED
  BY <1>1, <1>3, <1>4

LEMMA NothingOfNone ==
  ASSUME NEW g, NEW R
  PROVE  ContentOf(g, R) = None <=> R = {}
<1>1. CASE R = {}
  BY <1>1 DEF ContentOf
<1>2. CASE R # {} /\ \E f \in Files : R = FileRows(f)
  <2>1. (CHOOSE f \in Files : R = FileRows(f)) \in Files
    BY <1>2
  <2>2. ContentOf(g, R) \in Files
    BY <1>2, <2>1 DEF ContentOf
  <2>. QED
    BY <1>2, <2>2, DatasetsAssumption DEF DatasetsAssumption
<1>3. CASE R # {} /\ ~\E f \in Files : R = FileRows(f)
  BY <1>3, PromiseAssumption DEF ContentOf, PromiseAssumption
<1>. QED
  BY <1>1, <1>2, <1>3

\* All of a file's rows are that file's; some of them are Some, or none.
LEMMA ContentOfFile ==
  ASSUME NEW f \in Files, NEW R, R \subseteq FileRows(f), NEW g
  PROVE  ContentOf(g, R) = IF R = {} THEN None ELSE IF R = FileRows(f) THEN f ELSE Some
<1>1. CASE R = {}
  BY <1>1 DEF ContentOf
<1>2. CASE R # {}
  <2>1. \A e \in Files : R \subseteq FileRows(e) => e = f
    BY <1>2, RowsNameTheirFile
  <2>2. R # ExportAreas[g] \X {ReferenceExport}
    BY <1>2, RowsNameTheirFile
  <2>3. CASE R = FileRows(f)
    <3>1. (CHOOSE e \in Files : R = FileRows(e)) \in Files /\ R = FileRows(CHOOSE e \in Files : R = FileRows(e))
      BY <2>3
    <3>2. (CHOOSE e \in Files : R = FileRows(e)) = f
      BY <2>1, <3>1
    <3>. QED
      BY <1>2, <2>3, <3>2 DEF ContentOf
  <2>4. CASE R # FileRows(f)
    <3>1. ~\E e \in Files : R = FileRows(e)
      BY <2>1, <2>4
    <3>. QED
      BY <1>2, <2>2, <2>4, <3>1 DEF ContentOf
  <2>. QED
    BY <2>3, <2>4
<1>. QED
  BY <1>1, <1>2

\* The same of the export's rows.
LEMMA ContentOfExport ==
  ASSUME NEW g, NEW R, R \subseteq ExportAreas[g] \X {ReferenceExport}
  PROVE  ContentOf(g, R) = IF R = {} THEN None
                           ELSE IF R = ExportAreas[g] \X {ReferenceExport} THEN ReferenceExport
                           ELSE Some
<1>1. CASE R = {}
  BY <1>1 DEF ContentOf
<1>2. CASE R # {}
  <2>1. ~\E e \in Files : R = FileRows(e)
    BY <1>2, RowsNameTheirFile
  <2>. QED
    BY <1>2, <2>1 DEF ContentOf
<1>. QED
  BY <1>1, <1>2

\* Part of one source's rows is none of them, or Some.
LEMMA PartIsSome ==
  ASSUME NEW g, NEW R, OneSource(g, R), NEW P, P \subseteq R, P # R
  PROVE  ContentOf(g, P) = IF P = {} THEN None ELSE Some
<1>1. CASE \E f \in Files : R \subseteq FileRows(f)
  <2>. PICK f \in Files : R \subseteq FileRows(f)
    BY <1>1
  <2>1. P \subseteq FileRows(f) /\ P # FileRows(f)
    OBVIOUS
  <2>. QED
    BY <2>1, ContentOfFile
<1>2. CASE R \subseteq ExportAreas[g] \X {ReferenceExport}
  <2>1. P \subseteq ExportAreas[g] \X {ReferenceExport} /\ P # ExportAreas[g] \X {ReferenceExport}
    BY <1>2
  <2>. QED
    BY <2>1, ContentOfExport
<1>. QED
  BY <1>1, <1>2 DEF OneSource

------------------------------------------------------------------------------
(* The promise's view of a state *)

\* While no load has begun ...
QuietView ==
  (\A s \in Requests : ~Begun(s)) =>
    /\ LoadingFile = None
    /\ \A q \in Quarters, g \in Groups : Held(q, g) = ContentOf(g, rows[q][g])

\* ... and while one has.
LoadView ==
  \A s \in Requests : Begun(s) =>
    /\ LoadingFile = file[s]
    /\ \A q \in Quarters, g \in Groups :
         Held(q, g) = IF LoadOf(s, q, g) THEN None ELSE ContentOf(g, rows[q][g])

LEMMA Viewed == Alone => QuietView /\ LoadView
<1>. SUFFICES ASSUME Alone PROVE QuietView /\ LoadView
  OBVIOUS
<1>1. QuietView
  BY DEF QuietView, LoadingFile, Held
<1>2. ASSUME NEW s \in Requests, Begun(s)
      PROVE  /\ LoadingFile = file[s]
             /\ \A q \in Quarters, g \in Groups :
                  Held(q, g) = IF LoadOf(s, q, g) THEN None ELSE ContentOf(g, rows[q][g])
  <2>1. \A r \in Requests : Begun(r) => r = s
    BY <1>2 DEF Alone, Begun, Running
  <2>2. (CHOOSE r \in Requests : Begun(r)) = s
    BY <1>2, <2>1
  <2>3. LoadingFile = file[s]
    BY <1>2, <2>2 DEF LoadingFile
  <2>. QED
    BY <1>2, <2>1, <2>3 DEF Held, LoadOf
<1>. QED
  BY <1>1, <1>2 DEF LoadView

\* What the quarters hold changes where a group's content does, and nowhere else.
LEMMA ContentsSame ==
  ASSUME \A q \in Quarters, g \in Groups : Held(q, g)' = Held(q, g)
  PROVE  Contents' = Contents
BY DEF Contents

LEMMA ContentsAt ==
  ASSUME NEW q \in Quarters, NEW g \in Groups, NEW CONSTANT v,
         \A p \in Quarters, h \in Groups :
           Held(p, h)' = IF p = q /\ h = g THEN v ELSE Held(p, h)
  PROVE  Contents' = [Contents EXCEPT ![q][g] = v]
BY DEF Contents

------------------------------------------------------------------------------
(* One request at a time: what its rows and counts are at each statement *)

\* The rows of a file whose areas are not among those left to merge.
Taken(f, left) == {r \in FileRows(f) : <<f.group, r[1]>> \notin left}

\* A load has taken in what it has merged, and nothing else of its group.
Loading(s) ==
  pc[s] \in LoadSteps =>
    /\ file[s].areas # {}
    /\ pc[s] \notin {"check", "create"} => target[s] \in tables
    /\ pc[s] = "log" => rows[target[s]][file[s].group] = {}
    /\ pc[s] = "chunks" =>
         /\ todo[s] \subseteq {file[s].group} \X file[s].areas
         /\ rows[target[s]][file[s].group] = Taken(file[s], todo[s])
    /\ pc[s] \in {"logRows", "readInUse", "countInUse", "countLoaded", "use"} =>
         rows[target[s]][file[s].group] = FileRows(file[s])

\* The readiness check has counted the groups before its cursor, and rightly.
Counting(s) ==
  /\ pc[s] \in {"countInUse", "countLoaded", "use"} =>
       /\ target[s] > inUse
       /\ \A g \in needed[s] : rows[inUse][g] # {}
       /\ \A g \in waiting[s] : g \in needed[s] /\ rows[target[s]][g] = {}
  /\ pc[s] = "countInUse" =>
       /\ waiting[s] = {}
       /\ \A i \in 1..(at[s] - 1) : rows[inUse][GroupOrder[i]] # {} => GroupOrder[i] \in needed[s]
  /\ pc[s] = "countLoaded" =>
       /\ \A g \in Groups : rows[inUse][g] # {} => g \in needed[s]
       /\ \A i \in 1..(at[s] - 1) :
            GroupOrder[i] \in needed[s] /\ rows[target[s]][GroupOrder[i]] = {}
              => GroupOrder[i] \in waiting[s]
  /\ pc[s] = "use" => \A g \in Groups : rows[inUse][g] # {} => rows[target[s]][g] # {}

\* A full import merges into a table it has emptied.
Refilling(s) ==
  /\ pc[s] \in {"replaceRead", "replaceLog"} => \A g \in Groups : rows[inUse][g] = {}
  /\ pc[s] = "replaceChunks" =>
       /\ todo[s] \subseteq ExportTodo
       /\ \A g \in Groups : rows[inUse][g] \subseteq ExportAreas[g] \X {ReferenceExport}

Own(s) == Loading(s) /\ Counting(s) /\ Refilling(s)

Sources == \A q \in Quarters, g \in Groups : OneSource(g, rows[q][g])

SerialInv == ArchiveInv /\ Sources /\ \A s \in Requests : Own(s)

\* The rows stay of one source where some are taken.
LEMMA SourcesShrink ==
  ASSUME Sources, \A q \in Quarters, g \in Groups : rows'[q][g] \subseteq rows[q][g]
  PROVE  Sources'
BY DEF Sources, OneSource

\* What a running request has at hand.
LEMMA RunningFacts ==
  ASSUME SerialInv, NEW s \in Requests
  PROVE  /\ TypeOK /\ Alone /\ Sources /\ Own(s)
         /\ inUse \in Quarters /\ target[s] \in Quarters /\ Quarters \subseteq Nat
         /\ pc[s] \in LoadSteps =>
              /\ file[s] \in Files /\ file[s].group \in Groups /\ file[s].areas \subseteq Areas
              /\ target[s] = FileQuarter(file[s]) /\ FileRows(file[s]) \subseteq Row
         /\ pc[s] \in LoadSteps \ {"check"} => inUse <= target[s]
BY FileFacts, DatasetsAssumption
DEF SerialInv, ArchiveInv, TypeInv, TypeOK, LoadsHaveFiles, NotEarlier, DatasetsAssumption

\* Submitting changes no row.
LEMMA SubmitOwn ==
  ASSUME SerialInv, NEW s \in Requests, Submit(s)
  PROVE  Sources' /\ Own(s)'
<1>0. TypeOK /\ Sources
  BY RunningFacts
<1>1. /\ rows' = rows /\ inUse' = inUse
      /\ pc'[s] \in {"check", "clear", "useByHand", "replaceClear", "refused"}
      /\ pc'[s] = "check" => file'[s].areas # {}
  BY <1>0 DEF Submit, SubmitLoad, SubmitClear, SubmitReplace, SubmitUse, Moves, shared, TypeOK
<1>2. Sources'
  BY <1>0, <1>1 DEF Sources, OneSource
<1>3. Own(s)'
  BY <1>1 DEF Own, Loading, Counting, Refilling, LoadSteps
<1>. QED
  BY <1>2, <1>3

\* Checking the quarter, making the table, and stopping.
LEMMA BeforeOwn ==
  ASSUME SerialInv, NEW s \in Requests, CheckQuarter(s) \/ CreateDataset(s) \/ Fail(s)
  PROVE  Sources' /\ Own(s)'
<1>0. TypeOK /\ Sources /\ Own(s)
  BY RunningFacts
<1>1. rows' = rows
  BY DEF CheckQuarter, CreateDataset, Fail, shared
<1>2. Sources'
  BY <1>0, <1>1 DEF Sources, OneSource
<1>3. CASE CheckQuarter(s)
  <2>1. pc[s] = "check" /\ pc'[s] \in {"refused", "create"} /\ file' = file
    BY <1>0, <1>3 DEF CheckQuarter, Moves, TypeOK
  <2>. QED
    BY <1>0, <1>2, <2>1 DEF Own, Loading, Counting, Refilling, LoadSteps
<1>4. CASE CreateDataset(s)
  <2>1. /\ pc[s] = "create" /\ pc'[s] = "delete" /\ file' = file /\ target' = target
        /\ tables' = tables \cup {target[s]}
    BY <1>0, <1>4 DEF CreateDataset, Moves, TypeOK
  <2>. QED
    BY <1>0, <1>2, <2>1 DEF Own, Loading, Counting, Refilling, LoadSteps
<1>5. CASE Fail(s)
  <2>1. pc'[s] = "failed"
    BY <1>0, <1>5 DEF Fail, TypeOK
  <2>. QED
    BY <1>2, <2>1 DEF Own, Loading, Counting, Refilling, LoadSteps
<1>. QED
  BY <1>3, <1>4, <1>5

\* Deleting a group's rows takes some of them and is done when there are none.
LEMMA DeleteTakes ==
  ASSUME TypeInv, NEW s \in Requests, DeleteGroupRows(s)
  PROVE  /\ rows'[target[s]][file[s].group] \subseteq rows[target[s]][file[s].group]
         /\ pc'[s] = "log" => rows'[target[s]][file[s].group] = {}
<1>. DEFINE R == rows[target[s]][file[s].group]
<1>1. /\ pc[s] = "delete" /\ target[s] \in Quarters /\ file[s].group \in Groups
  BY FileFacts DEF DeleteGroupRows, TypeInv, TypeOK, LoadsHaveFiles, LoadSteps
<1>2. PICK gone \in SUBSET R :
        /\ Cardinality(gone) = Smaller(GroupBatch, Cardinality(R))
        /\ rows' = [rows EXCEPT ![target[s]][file[s].group] = @ \ gone]
        /\ pc' = [pc EXCEPT ![s] = IF Cardinality(gone) < GroupBatch THEN "log" ELSE @]
  BY DEF DeleteGroupRows
<1>3. rows'[target[s]][file[s].group] = R \ gone
  BY <1>1, <1>2 DEF TypeInv, TypeOK
<1>4. IsFiniteSet(R)
  BY <1>1, RowsFinite, FS_Subset DEF TypeInv, TypeOK
<1>5. pc'[s] = "log" => Cardinality(gone) < GroupBatch
  BY <1>1, <1>2 DEF TypeInv, TypeOK
<1>6. GroupBatch \in Nat
  BY DatasetsAssumption DEF DatasetsAssumption
<1>7. pc'[s] = "log" => R \ gone = {}
  BY <1>2, <1>4, <1>5, <1>6, ShortBatchTakesAll
<1>. QED
  BY <1>3, <1>7

LEMMA DeleteOwn ==
  ASSUME SerialInv, NEW s \in Requests, DeleteGroupRows(s)
  PROVE  Sources' /\ Own(s)'
<1>0. TypeOK /\ Sources /\ Own(s) /\ TypeInv
  BY RunningFacts DEF SerialInv, ArchiveInv
<1>1. /\ pc[s] = "delete" /\ pc'[s] \in {"delete", "log"}
      /\ UNCHANGED <<inUse, tables, log, file, target, todo, check>>
      /\ \A q \in Quarters, g \in Groups : ~LoadOf(s, q, g) => rows'[q][g] = rows[q][g]
  BY <1>0, DeleteIs
<1>2. /\ rows'[target[s]][file[s].group] \subseteq rows[target[s]][file[s].group]
      /\ pc'[s] = "log" => rows'[target[s]][file[s].group] = {}
  BY <1>0, DeleteTakes
<1>3. Sources'
  BY <1>0, <1>1, <1>2, SourcesShrink DEF LoadOf
<1>4. Own(s)'
  BY <1>0, <1>1, <1>2 DEF Own, Loading, Counting, Refilling, LoadSteps
<1>. QED
  BY <1>3, <1>4

LEMMA LogOwn ==
  ASSUME SerialInv, NEW s \in Requests, LogLoad(s)
  PROVE  Sources' /\ Own(s)'
<1>0. TypeOK /\ Sources /\ Own(s) /\ pc[s] \in LoadSteps /\ pc[s] = "log"
  BY RunningFacts DEF LogLoad, Moves, LoadSteps
<1>1. /\ pc'[s] = "chunks" /\ rows' = rows /\ tables' = tables /\ file' = file /\ target' = target
      /\ todo'[s] = {file[s].group} \X file[s].areas
  BY <1>0 DEF LogLoad, Moves, TypeOK
<1>2. Sources'
  BY <1>0, <1>1 DEF Sources, OneSource
<1>3. Taken(file[s], todo'[s]) = {}
  BY <1>1 DEF Taken, FileRows
<1>4. /\ file[s].areas # {} /\ target[s] \in tables /\ rows[target[s]][file[s].group] = {}
  BY <1>0 DEF Own, Loading, LoadSteps
<1>5. Loading(s)'
  BY <1>1, <1>3, <1>4 DEF Loading
<1>6. Counting(s)' /\ Refilling(s)'
  BY <1>1 DEF Counting, Refilling
<1>. QED
  BY <1>2, <1>5, <1>6 DEF Own

\* One MERGE: of the file's areas, those not left to merge are in.
LEMMA MergeAdds ==
  ASSUME NEW q, NEW f \in Files, NEW T, T \subseteq {f.group} \X f.areas, NEW C, C \subseteq T,
         rows[q][f.group] = Taken(f, T)
  PROVE  MergedGroup(q, f.group, C, f) = Taken(f, T \ C)
<1>. DEFINE g == f.group
            merged == {<<a, f>> : a \in {b \in Areas : <<g, b>> \in C}}
            whole == Taken(f, T \ C)
            R == rows[q][g]
<1>1. f.areas \subseteq Areas
  BY FileFacts
<1>2. ASSUME NEW a \in f.areas PROVE <<a, f>> \in FileRows(f)
  BY DEF FileRows
<1>3. ASSUME NEW r \in FileRows(f) PROVE r = <<r[1], f>> /\ r[1] \in f.areas
  BY DEF FileRows
<1>4. merged \subseteq whole
  <2>. SUFFICES ASSUME NEW b \in Areas, <<g, b>> \in C PROVE <<b, f>> \in whole
    OBVIOUS
  <2>1. b \in f.areas
    OBVIOUS
  <2>. QED
    BY <1>2, <2>1 DEF Taken
<1>5. R \subseteq whole
  BY DEF Taken
<1>6. ASSUME NEW r \in whole PROVE r \in {t \in R : <<g, t[1]>> \notin C} \cup merged
  <2>1. CASE <<g, r[1]>> \in C
    <3>1. r[1] \in Areas /\ r = <<r[1], f>>
      BY <1>1, <1>3 DEF Taken
    <3>2. <<r[1], f>> \in merged
      BY <2>1, <3>1
    <3>. QED
      BY <3>1, <3>2
  <2>2. CASE <<g, r[1]>> \notin C
    BY <2>2 DEF Taken
  <2>. QED
    BY <2>1, <2>2
<1>7. \A r \in whole : r \in FileRows(f)
  BY DEF Taken
<1>. QED
  BY <1>4, <1>5, <1>6, <1>7 DEF MergedGroup

LEMMA ChunkMakes ==
  ASSUME SerialInv, NEW s \in Requests, LoadChunk(s)
  PROVE  /\ pc[s] = "chunks" /\ pc'[s] = (IF todo'[s] = {} THEN "logRows" ELSE "chunks")
         /\ UNCHANGED <<inUse, tables, log, file, target, check>>
         /\ todo'[s] \subseteq todo[s]
         /\ \A q \in Quarters, g \in Groups : ~LoadOf(s, q, g) => rows'[q][g] = rows[q][g]
         /\ rows'[target[s]][file[s].group] =
              Taken(file[s], todo'[s])
<1>. DEFINE q == target[s]  g == file[s].group
<1>1. /\ pc[s] = "chunks" /\ q \in Quarters /\ g \in Groups /\ file[s] \in Files /\ TypeOK
  BY RunningFacts DEF LoadChunk, LoadSteps
<1>2. PICK chunk \in (SUBSET todo[s]) \ {{}} :
        /\ rows' = Merged(q, chunk, file[s])
        /\ todo' = [todo EXCEPT ![s] = @ \ chunk]
        /\ pc' = [pc EXCEPT ![s] = IF chunk = todo[s] THEN "logRows" ELSE @]
  BY DEF LoadChunk
<1>3. todo'[s] = todo[s] \ chunk /\ chunk \subseteq todo[s]
  BY <1>1, <1>2 DEF TypeOK
<1>4. pc'[s] = IF todo'[s] = {} THEN "logRows" ELSE "chunks"
  BY <1>1, <1>2, <1>3 DEF TypeOK
<1>5. /\ todo[s] \subseteq {g} \X file[s].areas
      /\ rows[q][g] = Taken(file[s], todo[s])
  BY <1>1, RunningFacts DEF Own, Loading, LoadSteps
<1>6. \A p \in Quarters, h \in Groups :
        rows'[p][h] = IF p = q THEN MergedGroup(q, h, chunk, file[s]) ELSE rows[p][h]
  BY <1>1, <1>2, MergedRows
<1>7. ASSUME NEW p \in Quarters, NEW h \in Groups, ~LoadOf(s, p, h)
      PROVE  rows'[p][h] = rows[p][h]
  <2>1. CASE p # q
    BY <1>6, <2>1
  <2>2. CASE p = q
    <3>1. \A a : <<h, a>> \notin chunk
      BY <1>3, <1>5, <1>7, <2>2 DEF LoadOf
    <3>2. MergedGroup(q, h, chunk, file[s]) = rows[q][h]
      BY <3>1 DEF MergedGroup
    <3>. QED
      BY <1>6, <2>2, <3>2
  <2>. QED
    BY <2>1, <2>2
<1>8. MergedGroup(q, g, chunk, file[s]) = Taken(file[s], todo[s] \ chunk)
  <2>1. ASSUME NEW f \in Files, f = file[s]
        PROVE  MergedGroup(q, f.group, chunk, f) = Taken(f, todo[s] \ chunk)
    <3>1. /\ todo[s] \subseteq {f.group} \X f.areas /\ chunk \subseteq todo[s]
          /\ rows[q][f.group] = Taken(f, todo[s])
      BY <1>3, <1>5, <2>1
    <3>. HIDE DEF q
    <3>. QED
      BY <3>1, MergeAdds
  <2>. QED
    BY <1>1, <2>1
<1>9. rows'[q][g] = Taken(file[s], todo'[s])
  BY <1>1, <1>3, <1>6, <1>8
<1>. QED
  BY <1>1, <1>3, <1>4, <1>7, <1>9 DEF LoadChunk

LEMMA ChunkOwn ==
  ASSUME SerialInv, NEW s \in Requests, LoadChunk(s)
  PROVE  Sources' /\ Own(s)'
<1>0. TypeOK /\ Sources /\ Own(s) /\ file[s] \in Files /\ file[s].group \in Groups
  BY RunningFacts DEF LoadChunk, LoadSteps
<1>1. /\ pc[s] = "chunks" /\ pc'[s] = (IF todo'[s] = {} THEN "logRows" ELSE "chunks")
      /\ UNCHANGED <<inUse, tables, log, file, target, check>>
      /\ todo'[s] \subseteq todo[s]
      /\ \A q \in Quarters, g \in Groups : ~LoadOf(s, q, g) => rows'[q][g] = rows[q][g]
      /\ rows'[target[s]][file[s].group] =
           Taken(file[s], todo'[s])
  BY ChunkMakes
<1>2. rows'[target[s]][file[s].group] \subseteq FileRows(file[s])
  BY <1>1 DEF Taken
<1>3. Sources'
  <2>. SUFFICES ASSUME NEW q \in Quarters, NEW g \in Groups PROVE OneSource(g, rows'[q][g])
    BY DEF Sources
  <2>1. CASE LoadOf(s, q, g)
    BY <1>0, <1>2, <2>1 DEF LoadOf, OneSource
  <2>2. CASE ~LoadOf(s, q, g)
    BY <1>0, <1>1, <2>2 DEF Sources
  <2>. QED
    BY <2>1, <2>2
<1>4. todo'[s] = {} => rows'[target[s]][file[s].group] = FileRows(file[s])
  BY <1>1 DEF Taken
<1>5. /\ file[s].areas # {} /\ target[s] \in tables
      /\ todo[s] \subseteq {file[s].group} \X file[s].areas
  BY <1>0, <1>1 DEF Own, Loading, LoadSteps
<1>6. Loading(s)'
  BY <1>1, <1>4, <1>5 DEF Loading
<1>7. Counting(s)' /\ Refilling(s)'
  BY <1>1 DEF Counting, Refilling
<1>. QED
  BY <1>3, <1>6, <1>7 DEF Own

LEMMA LogRowsOwn ==
  ASSUME SerialInv, NEW s \in Requests, LogRowsLoaded(s)
  PROVE  Sources' /\ Own(s)'
<1>0. TypeOK /\ Sources /\ Own(s) /\ pc[s] = "logRows"
  BY RunningFacts DEF LogRowsLoaded, Moves
<1>1. pc'[s] = "readInUse" /\ rows' = rows /\ tables' = tables /\ file' = file /\ target' = target
  BY <1>0 DEF LogRowsLoaded, Moves, TypeOK
<1>2. Sources'
  BY <1>0, <1>1 DEF Sources, OneSource
<1>3. Loading(s)'
  BY <1>0, <1>1 DEF Own, Loading, LoadSteps
<1>4. Counting(s)' /\ Refilling(s)'
  BY <1>1 DEF Counting, Refilling
<1>. QED
  BY <1>2, <1>3, <1>4 DEF Own

\* The readiness check reads and writes no row.
LEMMA ChecksAlone ==
  ASSUME SerialInv, NEW s \in Requests, ReadInUse(s) \/ CountInUse(s) \/ CountLoaded(s)
  PROVE  /\ UNCHANGED <<tables, inUse, rows, log, file, target, todo>> /\ Sources'
         /\ pc[s] \in {"readInUse", "countInUse", "countLoaded"}
         /\ pc'[s] \in {"countInUse", "countLoaded", "use", "done"}
         /\ file[s].areas # {} /\ target[s] \in tables
         /\ rows[target[s]][file[s].group] = FileRows(file[s])
         /\ Loading(s)' /\ Refilling(s)'
<1>0. TypeOK /\ Sources /\ Own(s)
  BY RunningFacts
<1>1. /\ UNCHANGED <<tables, inUse, rows, log, file, target, todo>>
      /\ pc[s] \in {"readInUse", "countInUse", "countLoaded"}
      /\ pc'[s] \in {"countInUse", "countLoaded", "use", "done"}
  BY <1>0 DEF ReadInUse, CountInUse, CountLoaded, Moves, shared, TypeOK
<1>2. Sources'
  BY <1>0, <1>1 DEF Sources, OneSource
<1>3. /\ file[s].areas # {} /\ target[s] \in tables
      /\ rows[target[s]][file[s].group] = FileRows(file[s])
  BY <1>0, <1>1 DEF Own, Loading, LoadSteps
<1>4. Loading(s)'
  BY <1>1, <1>3 DEF Loading
<1>5. Refilling(s)'
  BY <1>1 DEF Refilling
<1>. QED
  BY <1>1, <1>2, <1>3, <1>4, <1>5

\* Where the cursor is in the config's order.
LEMMA CursorFacts ==
  ASSUME TypeOK, NEW s \in Requests
  PROVE  /\ at[s] \in Nat /\ at[s] >= 1 /\ at[s] <= Len(GroupOrder) /\ Len(GroupOrder) \in Nat
         /\ GroupOrder[at[s]] \in Groups
         /\ \A i \in 1..at[s] : i = at[s] \/ i \in 1..(at[s] - 1)
         /\ at[s] = Len(GroupOrder) =>
              \A g \in Groups : g = GroupOrder[at[s]] \/ \E i \in 1..(at[s] - 1) : GroupOrder[i] = g
<1>1. /\ Len(GroupOrder) \in Nat /\ \A i \in 1..Len(GroupOrder) : GroupOrder[i] \in Groups
      /\ \A g \in Groups : \E i \in 1..Len(GroupOrder) : GroupOrder[i] = g
  BY DatasetsAssumption DEF DatasetsAssumption
<1>2. at[s] \in 1..Len(GroupOrder)
  BY DEF TypeOK
<1>3. at[s] \in Nat /\ at[s] >= 1 /\ at[s] <= Len(GroupOrder)
  BY <1>1, <1>2
<1>4. \A i \in 1..at[s] : i = at[s] \/ i \in 1..(at[s] - 1)
  BY <1>3
<1>5. ASSUME at[s] = Len(GroupOrder), NEW g \in Groups
      PROVE  g = GroupOrder[at[s]] \/ \E i \in 1..(at[s] - 1) : GroupOrder[i] = g
  <2>. PICK i \in 1..Len(GroupOrder) : GroupOrder[i] = g
    BY <1>1
  <2>. QED
    BY <1>4, <1>5
<1>. QED
  BY <1>1, <1>2, <1>3, <1>4, <1>5

\* While one request takes a step no other is running, and none other moves.
LEMMA OneActs ==
  ASSUME Overlap = "none", SerialInv, NEW s \in Requests, Submit(s) \/ Step(s) \/ Fail(s)
  PROVE  /\ \A r \in Requests \ {s} : pc[r] \notin Running /\ pc'[r] = pc[r]
         /\ Submit(s) => pc[s] \notin Running
<1>0. TypeOK /\ Alone
  BY RunningFacts
<1>1. CASE Submit(s)
  BY <1>0, <1>1 DEF Submit, SubmitLoad, SubmitClear, SubmitReplace, SubmitUse, Idle, Moves, TypeOK
<1>2. CASE ~Submit(s)
  <2>1. pc[s] \in Running /\ \A r \in Requests \ {s} : pc'[r] = pc[r]
    <3>. USE <1>0 DEF TypeOK
    <3>1. CASE CheckQuarter(s) \/ CreateDataset(s) \/ DeleteGroupRows(s) \/ LogLoad(s) \/ LoadChunk(s)
      BY <3>1 DEF CheckQuarter, CreateDataset, DeleteGroupRows, LogLoad, LoadChunk, Moves, Running, LoadSteps
    <3>2. CASE LogRowsLoaded(s) \/ ReadInUse(s) \/ CountInUse(s) \/ CountLoaded(s) \/ UseDataset(s)
      BY <3>2 DEF LogRowsLoaded, ReadInUse, CountInUse, CountLoaded, UseDataset, Moves, Running, LoadSteps
    <3>3. CASE ClearBatchOfRows(s) \/ ReplaceClear(s)
      BY <3>3 DEF ClearBatchOfRows, ReplaceClear, DeleteTop, Running, ReplaceSteps
    <3>4. CASE ReplaceRead(s) \/ ReplaceLog(s) \/ ReplaceChunk(s) \/ Fail(s)
      BY <3>4 DEF ReplaceRead, ReplaceLog, ReplaceChunk, Fail, Moves, Running, ReplaceSteps
    <3>. QED
      BY <1>2, <3>1, <3>2, <3>3, <3>4 DEF Step
  <2>. QED
    BY <1>0, <1>2, <2>1 DEF Alone
<1>. QED
  BY <1>1, <1>2

LEMMA ReadOwn ==
  ASSUME SerialInv, NEW s \in Requests, ReadInUse(s)
  PROVE  Own(s)'
<1>0. TypeOK /\ inUse \in Nat /\ target[s] \in Nat
  BY RunningFacts
<1>1. /\ UNCHANGED <<inUse, rows, target>> /\ Loading(s)' /\ Refilling(s)'
  BY ChecksAlone
<1>2. /\ pc'[s] = IF target[s] > inUse THEN "countInUse" ELSE "done"
      /\ at'[s] = 1 /\ needed'[s] = {} /\ waiting'[s] = {}
  BY <1>0 DEF ReadInUse, Moves, TypeOK
<1>3. 1..(at'[s] - 1) = {}
  BY <1>2
<1>4. Counting(s)'
  BY <1>1, <1>2, <1>3 DEF Counting
<1>. QED
  BY <1>1, <1>4 DEF Own

LEMMA CountInUseOwn ==
  ASSUME SerialInv, NEW s \in Requests, CountInUse(s)
  PROVE  Own(s)'
<1>0. TypeOK /\ Own(s)
  BY RunningFacts
<1>1. /\ UNCHANGED <<inUse, rows, target>> /\ Loading(s)' /\ Refilling(s)'
  BY ChecksAlone
<1>2. PICK g \in Groups : g = GroupOrder[at[s]]
  BY <1>0, CursorFacts
<1>3. /\ pc[s] = "countInUse" /\ waiting' = waiting
      /\ pc'[s] = IF at[s] = Len(GroupOrder) THEN "countLoaded" ELSE "countInUse"
      /\ at'[s] = IF at[s] = Len(GroupOrder) THEN 1 ELSE at[s] + 1
      /\ needed'[s] = IF rows[inUse][g] = {} THEN needed[s] ELSE needed[s] \cup {g}
  BY <1>0, <1>2 DEF CountInUse, Moves, TypeOK
<1>4. /\ target[s] > inUse /\ waiting[s] = {}
      /\ \A h \in needed[s] : rows[inUse][h] # {}
      /\ \A i \in 1..(at[s] - 1) : rows[inUse][GroupOrder[i]] # {} => GroupOrder[i] \in needed[s]
  BY <1>0, <1>3 DEF Own, Counting
<1>5. \A h \in needed'[s] : rows[inUse][h] # {}
  BY <1>3, <1>4
<1>6. \A i \in 1..at[s] : rows[inUse][GroupOrder[i]] # {} => GroupOrder[i] \in needed'[s]
  <2>. TAKE i \in 1..at[s]
  <2>1. i = at[s] \/ i \in 1..(at[s] - 1)
    BY <1>0, CursorFacts
  <2>. QED
    BY <1>2, <1>3, <1>4, <2>1
<1>7. CASE at[s] = Len(GroupOrder)
  <2>1. \A h \in Groups : rows[inUse][h] # {} => h \in needed'[s]
    <3>. TAKE h \in Groups
    <3>1. h = g \/ \E i \in 1..(at[s] - 1) : GroupOrder[i] = h
      BY <1>0, <1>2, <1>7, CursorFacts
    <3>. QED
      BY <1>3, <1>4, <3>1
  <2>2. pc'[s] = "countLoaded" /\ 1..(at'[s] - 1) = {}
    BY <1>3, <1>7
  <2>3. Counting(s)'
    BY <1>1, <1>3, <1>4, <1>5, <2>1, <2>2 DEF Counting
  <2>. QED
    BY <1>1, <2>3 DEF Own
<1>8. CASE at[s] # Len(GroupOrder)
  <2>1. pc'[s] = "countInUse" /\ at'[s] - 1 = at[s]
    BY <1>0, <1>3, <1>8, CursorFacts
  <2>2. Counting(s)'
    BY <1>1, <1>3, <1>4, <1>5, <1>6, <2>1 DEF Counting
  <2>. QED
    BY <1>1, <2>2 DEF Own
<1>. QED
  BY <1>7, <1>8

\* What the second pass of the check leaves waiting, and where it goes.
LEMMA CountLoadedIs ==
  ASSUME SerialInv, NEW s \in Requests, CountLoaded(s)
  PROVE  /\ pc[s] = "countLoaded" /\ needed' = needed
         /\ pc'[s] = IF at[s] # Len(GroupOrder) THEN "countLoaded"
                     ELSE IF waiting'[s] = {} THEN "use" ELSE "done"
         /\ at'[s] = IF at[s] = Len(GroupOrder) THEN 1 ELSE at[s] + 1
         /\ target[s] > inUse
         /\ \A h \in needed[s] : rows[inUse][h] # {}
         /\ \A h \in Groups : rows[inUse][h] # {} => h \in needed[s]
         /\ \A h \in waiting'[s] : h \in needed[s] /\ rows[target[s]][h] = {}
         /\ \A i \in 1..at[s] :
              GroupOrder[i] \in needed[s] /\ rows[target[s]][GroupOrder[i]] = {}
                => GroupOrder[i] \in waiting'[s]
<1>0. TypeOK /\ Own(s)
  BY RunningFacts
<1>2. PICK g \in Groups : g = GroupOrder[at[s]]
  BY <1>0, CursorFacts
<1>. DEFINE left == waiting[s] \cup {h \in needed[s] : h = g /\ rows[target[s]][g] = {}}
<1>3. /\ pc[s] = "countLoaded" /\ needed' = needed
      /\ waiting'[s] = left
      /\ pc'[s] = IF at[s] # Len(GroupOrder) THEN "countLoaded"
                  ELSE IF left = {} THEN "use" ELSE "done"
      /\ at'[s] = IF at[s] = Len(GroupOrder) THEN 1 ELSE at[s] + 1
  BY <1>0, <1>2 DEF CountLoaded, Moves, TypeOK
<1>4. /\ target[s] > inUse
      /\ \A h \in needed[s] : rows[inUse][h] # {}
      /\ \A h \in waiting[s] : h \in needed[s] /\ rows[target[s]][h] = {}
      /\ \A h \in Groups : rows[inUse][h] # {} => h \in needed[s]
      /\ \A i \in 1..(at[s] - 1) :
           GroupOrder[i] \in needed[s] /\ rows[target[s]][GroupOrder[i]] = {}
             => GroupOrder[i] \in waiting[s]
  BY <1>0, <1>3 DEF Own, Counting
<1>5. \A h \in left : h \in needed[s] /\ rows[target[s]][h] = {}
  BY <1>4
<1>6. \A i \in 1..at[s] :
        GroupOrder[i] \in needed[s] /\ rows[target[s]][GroupOrder[i]] = {} => GroupOrder[i] \in left
  <2>. TAKE i \in 1..at[s]
  <2>1. i = at[s] \/ i \in 1..(at[s] - 1)
    BY <1>0, CursorFacts
  <2>. QED
    BY <1>2, <1>4, <2>1
<1>. HIDE DEF left
<1>. QED
  BY <1>3, <1>4, <1>5, <1>6

LEMMA CountLoadedOwn ==
  ASSUME SerialInv, NEW s \in Requests, CountLoaded(s)
  PROVE  Own(s)'
<1>0. TypeOK /\ Own(s)
  BY RunningFacts
<1>1. /\ UNCHANGED <<inUse, rows, target>> /\ Loading(s)' /\ Refilling(s)'
  BY ChecksAlone
<1>2. /\ pc[s] = "countLoaded" /\ needed' = needed
      /\ pc'[s] = IF at[s] # Len(GroupOrder) THEN "countLoaded"
                  ELSE IF waiting'[s] = {} THEN "use" ELSE "done"
      /\ at'[s] = IF at[s] = Len(GroupOrder) THEN 1 ELSE at[s] + 1
      /\ target[s] > inUse
      /\ \A h \in needed[s] : rows[inUse][h] # {}
      /\ \A h \in Groups : rows[inUse][h] # {} => h \in needed[s]
      /\ \A h \in waiting'[s] : h \in needed[s] /\ rows[target[s]][h] = {}
      /\ \A i \in 1..at[s] :
           GroupOrder[i] \in needed[s] /\ rows[target[s]][GroupOrder[i]] = {}
             => GroupOrder[i] \in waiting'[s]
  BY CountLoadedIs
<1>3. CASE at[s] # Len(GroupOrder)
  <2>1. pc'[s] = "countLoaded" /\ at'[s] - 1 = at[s]
    BY <1>0, <1>2, <1>3, CursorFacts
  <2>2. Counting(s)'
    BY <1>1, <1>2, <2>1 DEF Counting
  <2>. QED
    BY <1>1, <2>2 DEF Own
<1>4. CASE at[s] = Len(GroupOrder) /\ waiting'[s] = {}
  <2>1. \A g \in Groups : rows[inUse][g] # {} => rows[target[s]][g] # {}
    <3>. SUFFICES ASSUME NEW g \in Groups, rows[inUse][g] # {}, rows[target[s]][g] = {} PROVE FALSE
      OBVIOUS
    <3>1. \E i \in 1..at[s] : GroupOrder[i] = g
      <4>1. g = GroupOrder[at[s]] \/ \E i \in 1..(at[s] - 1) : GroupOrder[i] = g
        BY <1>0, <1>4, CursorFacts
      <4>2. at[s] \in Nat /\ at[s] >= 1
        BY <1>0, CursorFacts
      <4>. QED
        BY <4>1, <4>2
    <3>. QED
      BY <1>2, <1>4, <3>1
  <2>2. Counting(s)'
    BY <1>1, <1>2, <1>4, <2>1 DEF Counting
  <2>. QED
    BY <1>1, <2>2 DEF Own
<1>5. CASE at[s] = Len(GroupOrder) /\ waiting'[s] # {}
  <2>1. Counting(s)'
    BY <1>2, <1>5 DEF Counting
  <2>. QED
    BY <1>1, <2>1 DEF Own
<1>. QED
  BY <1>3, <1>4, <1>5

LEMMA UseOwn ==
  ASSUME SerialInv, NEW s \in Requests, UseDataset(s)
  PROVE  Sources' /\ Own(s)'
<1>0. TypeOK /\ Sources
  BY RunningFacts
<1>1. rows' = rows /\ pc'[s] \in {"done", "failed"}
  BY <1>0 DEF UseDataset, TypeOK
<1>2. Sources'
  BY <1>0, <1>1 DEF Sources, OneSource
<1>. QED
  BY <1>1, <1>2 DEF Own, Loading, Counting, Refilling, LoadSteps

\* A delete from a whole table takes some of its rows, and all with its last batch.
LEMMA DeleteTopTakes ==
  ASSUME TypeOK, NEW s \in Requests, NEW q \in Quarters, NEW here, NEW next, pc[s] = here, here # next,
         DeleteTop(s, q, ClearBatch, next)
  PROVE  /\ pc'[s] \in {here, next}
         /\ \A p \in Quarters, g \in Groups :
              rows'[p][g] \subseteq rows[p][g] /\ (p # q => rows'[p][g] = rows[p][g])
         /\ pc'[s] = next => \A g \in Groups : rows'[q][g] = {}
<1>1. PICK gone \in SUBSET TableRows(q) :
        /\ Cardinality(gone) = Smaller(ClearBatch, Cardinality(TableRows(q)))
        /\ rows' = Without(q, gone)
        /\ pc' = [pc EXCEPT ![s] = IF Cardinality(gone) < ClearBatch THEN next ELSE @]
  BY DEF DeleteTop
<1>2. pc'[s] = IF Cardinality(gone) < ClearBatch THEN next ELSE here
  BY <1>1 DEF TypeOK
<1>3. \A p \in Quarters, g \in Groups :
        rows'[p][g] \subseteq rows[p][g] /\ (p # q => rows'[p][g] = rows[p][g])
  BY <1>1 DEF Without, TypeOK
<1>4. IsFiniteSet(TableRows(q))
  <2>1. IsFiniteSet(Groups \X Row)
    BY RowsFinite, FS_Product, DatasetsAssumption DEF DatasetsAssumption
  <2>2. TableRows(q) \subseteq Groups \X Row
    BY DEF TableRows
  <2>. QED
    BY <2>1, <2>2, FS_Subset
<1>5. pc'[s] = next => TableRows(q) \ gone = {}
  <2>1. ClearBatch \in Nat
    BY DatasetsAssumption DEF DatasetsAssumption
  <2>. QED
    BY <1>1, <1>2, <1>4, <2>1, ShortBatchTakesAll
<1>6. ASSUME pc'[s] = next, NEW g \in Groups
      PROVE  rows'[q][g] = {}
  <2>1. rows'[q][g] = {r \in rows[q][g] : <<g, r>> \notin gone}
    BY <1>1 DEF Without, TypeOK
  <2>2. \A r \in rows[q][g] : <<g, r>> \in TableRows(q)
    BY DEF TableRows, TypeOK
  <2>. QED
    BY <1>5, <1>6, <2>1, <2>2
<1>. QED
  BY <1>2, <1>3, <1>6

LEMMA ClearOwn ==
  ASSUME SerialInv, NEW s \in Requests, ClearBatchOfRows(s) \/ ReplaceClear(s)
  PROVE  Sources' /\ Own(s)'
<1>0. TypeOK /\ Sources /\ inUse \in Quarters /\ target[s] \in Quarters
  BY RunningFacts
<1>1. CASE ClearBatchOfRows(s)
  <2>1. /\ pc'[s] \in {"clear", "done"}
        /\ \A q \in Quarters, g \in Groups : rows'[q][g] \subseteq rows[q][g]
    BY <1>0, <1>1, DeleteTopTakes DEF ClearBatchOfRows
  <2>2. Sources'
    BY <1>0, <2>1, SourcesShrink
  <2>. QED
    BY <2>1, <2>2 DEF Own, Loading, Counting, Refilling, LoadSteps
<1>2. CASE ReplaceClear(s)
  <2>1. /\ pc'[s] \in {"replaceClear", "replaceRead"} /\ inUse' = inUse
        /\ \A q \in Quarters, g \in Groups : rows'[q][g] \subseteq rows[q][g]
        /\ pc'[s] = "replaceRead" => \A g \in Groups : rows'[inUse][g] = {}
    BY <1>0, <1>2, DeleteTopTakes DEF ReplaceClear
  <2>2. Sources'
    BY <1>0, <2>1, SourcesShrink
  <2>. QED
    BY <2>1, <2>2 DEF Own, Loading, Counting, Refilling, LoadSteps
<1>. QED
  BY <1>1, <1>2

LEMMA ReplaceLogOwn ==
  ASSUME SerialInv, NEW s \in Requests, ReplaceRead(s) \/ ReplaceLog(s)
  PROVE  Sources' /\ Own(s)'
<1>0. TypeOK /\ Sources /\ Own(s)
  BY RunningFacts
<1>1. rows' = rows /\ inUse' = inUse
  BY DEF ReplaceRead, ReplaceLog, shared
<1>2. Sources'
  BY <1>0, <1>1 DEF Sources, OneSource
<1>3. \A g \in Groups : rows[inUse][g] = {}
  BY <1>0 DEF Own, Refilling, ReplaceRead, ReplaceLog, Moves
<1>4. pc'[s] = "replaceLog" \/ (pc'[s] = "replaceChunks" /\ todo'[s] = ExportTodo)
  BY <1>0 DEF ReplaceRead, ReplaceLog, Moves, TypeOK
<1>. QED
  BY <1>1, <1>2, <1>3, <1>4 DEF Own, Loading, Counting, Refilling, LoadSteps

LEMMA ReplaceChunkMakes ==
  ASSUME SerialInv, NEW s \in Requests, ReplaceChunk(s)
  PROVE  /\ pc[s] = "replaceChunks" /\ pc'[s] \in {"replaceChunks", "done"} /\ inUse' = inUse
         /\ todo'[s] \subseteq todo[s] /\ todo[s] \subseteq ExportTodo
         /\ \A q \in Quarters, g \in Groups : q # inUse => rows'[q][g] = rows[q][g]
         /\ \A g \in Groups :
              /\ rows[inUse][g] \subseteq ExportAreas[g] \X {ReferenceExport}
              /\ rows'[inUse][g] \subseteq ExportAreas[g] \X {ReferenceExport}
              /\ rows[inUse][g] # {} => rows'[inUse][g] # {}
<1>0. /\ TypeOK /\ inUse \in Quarters /\ pc[s] = "replaceChunks" /\ inUse' = inUse
      /\ todo[s] \subseteq ExportTodo
      /\ \A g \in Groups : rows[inUse][g] \subseteq ExportAreas[g] \X {ReferenceExport}
  BY RunningFacts DEF ReplaceChunk, Own, Refilling
<1>1. PICK chunk \in (SUBSET todo[s]) \ {{}} :
        /\ rows' = Merged(inUse, chunk, ReferenceExport)
        /\ todo' = [todo EXCEPT ![s] = @ \ chunk]
        /\ pc' = [pc EXCEPT ![s] = IF chunk = todo[s] THEN "done" ELSE @]
  BY DEF ReplaceChunk
<1>2. pc'[s] \in {"replaceChunks", "done"} /\ todo'[s] \subseteq todo[s]
  BY <1>0, <1>1 DEF TypeOK
<1>3. \A q \in Quarters, g \in Groups :
        rows'[q][g] = IF q = inUse THEN MergedGroup(inUse, g, chunk, ReferenceExport) ELSE rows[q][g]
  BY <1>0, <1>1, MergedRows
<1>4. ASSUME NEW g \in Groups
      PROVE  /\ rows'[inUse][g] \subseteq ExportAreas[g] \X {ReferenceExport}
             /\ rows[inUse][g] # {} => rows'[inUse][g] # {}
  <2>. DEFINE merged == {<<a, ReferenceExport>> : a \in {b \in Areas : <<g, b>> \in chunk}}
  <2>1. rows'[inUse][g] = {r \in rows[inUse][g] : <<g, r[1]>> \notin chunk} \cup merged
    BY <1>0, <1>3 DEF MergedGroup
  <2>2. \A b \in Areas : <<g, b>> \in chunk => b \in ExportAreas[g]
    BY <1>0 DEF ExportTodo
  <2>3. merged \subseteq ExportAreas[g] \X {ReferenceExport}
    <3>1. \A b \in Areas : <<g, b>> \in chunk => <<b, ReferenceExport>> \in ExportAreas[g] \X {ReferenceExport}
      BY <2>2
    <3>. QED
      BY <3>1, Zenon
  <2>4. ASSUME NEW r \in rows[inUse][g], <<g, r[1]>> \in chunk
        PROVE  <<r[1], ReferenceExport>> \in merged
    <3>1. r[1] \in Areas
      BY <1>0 DEF TypeOK, Row
    <3>. QED
      BY <2>4, <3>1
  <2>5. rows'[inUse][g] \subseteq ExportAreas[g] \X {ReferenceExport}
    <3>. HIDE DEF merged
    <3>. QED
      BY <1>0, <2>1, <2>3
  <2>6. rows[inUse][g] # {} => rows'[inUse][g] # {}
    <3>. HIDE DEF merged
    <3>. QED
      BY <2>1, <2>4
  <2>. QED
    BY <2>5, <2>6
<1>. QED
  BY <1>0, <1>2, <1>3, <1>4

LEMMA ReplaceChunkOwn ==
  ASSUME SerialInv, NEW s \in Requests, ReplaceChunk(s)
  PROVE  Sources' /\ Own(s)'
<1>0. Sources
  BY RunningFacts
<1>1. /\ pc'[s] \in {"replaceChunks", "done"} /\ inUse' = inUse
      /\ todo'[s] \subseteq ExportTodo
      /\ \A q \in Quarters, g \in Groups : q # inUse => rows'[q][g] = rows[q][g]
      /\ \A g \in Groups : rows'[inUse][g] \subseteq ExportAreas[g] \X {ReferenceExport}
  BY ReplaceChunkMakes
<1>2. Sources'
  BY <1>0, <1>1 DEF Sources, OneSource
<1>. QED
  BY <1>1, <1>2 DEF Own, Loading, Counting, Refilling, LoadSteps

\* The step of one request leaves the others where they were, none of them running.
LEMMA SerialStep ==
  ASSUME Overlap = "none", SerialInv, [Next]_vars
  PROVE  SerialInv'
<1>1. ArchiveInv'
  BY TypeStep, ArchiveStep DEF SerialInv, ArchiveInv
<1>2. CASE UNCHANGED vars
  <2>1. Sources'
    BY <1>2 DEF SerialInv, Sources, OneSource, vars
  <2>2. \A s \in Requests : Own(s)'
    BY <1>2 DEF SerialInv, Own, Loading, Counting, Refilling, vars
  <2>. QED
    BY <1>1, <2>1, <2>2 DEF SerialInv
<1>3. ASSUME NEW s \in Requests, Submit(s) \/ Step(s) \/ Fail(s)
      PROVE  SerialInv'
  <2>1. Sources' /\ Own(s)'
    <3>1. CASE Submit(s)
      BY <3>1, SubmitOwn
    <3>2. CASE Fail(s)
      BY <3>2, BeforeOwn
    <3>3. CASE CheckQuarter(s) \/ CreateDataset(s) \/ DeleteGroupRows(s) \/ LogLoad(s)
               \/ LoadChunk(s) \/ LogRowsLoaded(s)
      BY <3>3, BeforeOwn, DeleteOwn, LogOwn, ChunkOwn, LogRowsOwn
    <3>4. CASE ReadInUse(s) \/ CountInUse(s) \/ CountLoaded(s) \/ UseDataset(s)
      BY <3>4, ChecksAlone, ReadOwn, CountInUseOwn, CountLoadedOwn, UseOwn
    <3>5. CASE ClearBatchOfRows(s) \/ ReplaceClear(s) \/ ReplaceRead(s) \/ ReplaceLog(s) \/ ReplaceChunk(s)
      BY <3>5, ClearOwn, ReplaceLogOwn, ReplaceChunkOwn
    <3>. QED
      BY <1>3, <3>1, <3>2, <3>3, <3>4, <3>5 DEF Step
  <2>2. \A r \in Requests \ {s} : pc[r] \notin Running /\ pc'[r] = pc[r]
    BY <1>3, OneActs
  <2>3. \A r \in Requests \ {s} : (pc[r] \notin Running)'
    BY <2>2
  <2>4. \A r \in Requests \ {s} : Own(r)'
    BY <2>3 DEF Own, Loading, Counting, Refilling, Running, LoadSteps, ReplaceSteps
  <2>. QED
    BY <1>1, <2>1, <2>4 DEF SerialInv
<1>. QED
  BY <1>2, <1>3 DEF Next

LEMMA SerialInit == Init => SerialInv
<1>. SUFFICES ASSUME Init PROVE SerialInv
  OBVIOUS
<1>1. \A s \in Requests : pc[s] = "idle"
  BY DEF Init
<1>2. TypeInv
  BY <1>1, TypeInit DEF TypeInv, LoadsHaveFiles, LoadSteps
<1>3. Alone /\ NotEarlier
  BY <1>1 DEF Alone, NotEarlier, Running, LoadSteps, ReplaceSteps
<1>4. Sources
  <2>1. \A q \in Quarters, g \in Groups : rows[q][g] \subseteq ExportAreas[g] \X {ReferenceExport}
    BY DEF Init
  <2>. QED
    BY <2>1 DEF Sources, OneSource
<1>5. \A s \in Requests : Own(s)
  BY <1>1 DEF Own, Loading, Counting, Refilling, LoadSteps
<1>. QED
  BY <1>2, <1>3, <1>4, <1>5 DEF SerialInv, ArchiveInv

\* One request at a time: what each load, check and full import has at hand is
\* what it counted or merged itself.
LEMMA Serial == ASSUME Overlap = "none" PROVE Spec => []SerialInv
<1>1. Init => SerialInv
  BY SerialInit
<1>2. SerialInv /\ [Next]_vars => SerialInv'
  BY SerialStep
<1>. QED
  BY <1>1, <1>2, PTL DEF Spec

------------------------------------------------------------------------------
(* What screening finds rows of *)

LEMMA GroupStays ==
  ASSUME SerialInv, [Next]_vars, NEW g \in Groups, rows[inUse][g] # {},
         \A s \in Requests :
           /\ pc[s] \in {"delete", "clear"} => target[s] # inUse
           /\ pc[s] \notin {"replaceClear", "useByHand"}
  PROVE  rows'[inUse'][g] # {}
<1>1. CASE UNCHANGED vars
  BY <1>1 DEF vars
<1>2. ASSUME NEW s \in Requests, Submit(s) \/ Step(s) \/ Fail(s)
      PROVE  rows'[inUse'][g] # {}
  <2>0. TypeOK /\ TypeInv /\ inUse \in Quarters /\ target[s] \in Quarters /\ Own(s)
    BY RunningFacts DEF SerialInv, ArchiveInv
  <2>1. CASE DeleteGroupRows(s)
    BY <2>0, <2>1, DeleteIs DEF LoadOf
  <2>2. CASE LoadChunk(s)
    <3>1. /\ inUse' = inUse
          /\ ~LoadOf(s, inUse, g) => rows'[inUse][g] = rows[inUse][g]
          /\ rows'[target[s]][file[s].group] = Taken(file[s], todo'[s])
          /\ todo'[s] \subseteq todo[s] /\ pc[s] = "chunks"
      BY <2>0, <2>2, ChunkMakes
    <3>2. rows[target[s]][file[s].group] = Taken(file[s], todo[s])
      BY <2>0, <3>1 DEF Own, Loading, LoadSteps
    <3>3. Taken(file[s], todo[s]) \subseteq Taken(file[s], todo'[s])
      BY <3>1 DEF Taken
    <3>. QED
      BY <3>1, <3>2, <3>3 DEF LoadOf
  <2>3. CASE ClearBatchOfRows(s)
    <3>1. pc[s] = "clear" /\ DeleteTop(s, target[s], ClearBatch, "done") /\ inUse' = inUse
      BY <2>3 DEF ClearBatchOfRows
    <3>2. \A p \in Quarters, h \in Groups : p # target[s] => rows'[p][h] = rows[p][h]
      BY <2>0, <3>1, DeleteTopTakes
    <3>. QED
      BY <2>0, <3>1, <3>2
  <2>4. CASE ReplaceClear(s)
    BY <2>4 DEF ReplaceClear
  <2>5. CASE ReplaceChunk(s)
    BY <2>5, ReplaceChunkMakes
  <2>6. CASE UseDataset(s)
    <3>1. pc[s] = "use" /\ rows' = rows /\ inUse' \in {inUse, target[s]}
      BY <2>6 DEF UseDataset
    <3>2. rows[target[s]][g] # {}
      BY <2>0, <3>1 DEF Own, Counting
    <3>. QED
      BY <3>1, <3>2
  <2>7. CASE ~(\/ DeleteGroupRows(s) \/ LoadChunk(s) \/ ClearBatchOfRows(s)
               \/ ReplaceClear(s) \/ ReplaceChunk(s) \/ UseDataset(s))
    <3>1. rows' = rows /\ inUse' = inUse
      <4>1. CASE Submit(s) \/ Fail(s)
        BY <4>1 DEF Submit, SubmitLoad, SubmitClear, SubmitReplace, SubmitUse, Fail, shared
      <4>2. CASE Step(s)
        <5>1. \/ CheckQuarter(s) \/ CreateDataset(s) \/ LogLoad(s) \/ LogRowsLoaded(s)
              \/ ReadInUse(s) \/ CountInUse(s) \/ CountLoaded(s)
              \/ ReplaceRead(s) \/ ReplaceLog(s)
          BY <2>7, <4>2 DEF Step
        <5>. QED
          BY <5>1 DEF CheckQuarter, CreateDataset, LogLoad, LogRowsLoaded, ReadInUse, CountInUse,
                      CountLoaded, ReplaceRead, ReplaceLog, shared
      <4>. QED
        BY <1>2, <4>1, <4>2
    <3>. QED
      BY <3>1
  <2>. QED
    BY <2>1, <2>2, <2>3, <2>4, <2>5, <2>6, <2>7
<1>. QED
  BY <1>1, <1>2 DEF Next

\* One request at a time, and however it ends, no group screening finds rows of
\* is lost to the switch a load makes: the check has counted every group of the
\* config in the dataset in use and found rows of each of those in the newer
\* quarter, and nothing was deleted from it since.
THEOREM NoGroupIsLost ==
  ASSUME Overlap = "none"
  PROVE  Spec => NoGroupVanishes
<1>1. Spec => []SerialInv
  BY Serial
<1>2. SerialInv /\ [Next]_vars =>
        [\A g \in Groups :
           /\ rows[inUse][g] # {}
           /\ \A s \in Requests :
                /\ pc[s] \in {"delete", "clear"} => target[s] # inUse
                /\ pc[s] \notin {"replaceClear", "useByHand"}
           => rows'[inUse'][g] # {}]_vars
  BY GroupStays
<1>. QED
  BY <1>1, <1>2, PTL DEF Spec, NoGroupVanishes

------------------------------------------------------------------------------
(* The loader implements the promise *)

\* What the promise sees before and after a step of request s, which is the only
\* one that can be loading.
LEMMA StepViewed ==
  ASSUME Overlap = "none", SerialInv, SerialInv', NEW s \in Requests, Submit(s) \/ Step(s) \/ Fail(s)
  PROVE  /\ ~Begun(s) =>
              /\ LoadingFile = None
              /\ \A q \in Quarters, g \in Groups : Held(q, g) = ContentOf(g, rows[q][g])
         /\ ~Begun(s)' =>
              /\ LoadingFile' = None
              /\ \A q \in Quarters, g \in Groups : Held(q, g)' = ContentOf(g, rows'[q][g])
         /\ Begun(s) =>
              /\ LoadingFile = file[s]
              /\ \A q \in Quarters, g \in Groups :
                   Held(q, g) = IF LoadOf(s, q, g) THEN None ELSE ContentOf(g, rows[q][g])
         /\ Begun(s)' =>
              /\ LoadingFile' = file'[s]
              /\ \A q \in Quarters, g \in Groups :
                   Held(q, g)' = IF LoadOf(s, q, g)' THEN None ELSE ContentOf(g, rows'[q][g])
<1>1. QuietView /\ LoadView
  BY Viewed DEF SerialInv, ArchiveInv
<1>2. Alone' => QuietView' /\ LoadView'
  BY Viewed, PTL
<1>3. QuietView' /\ LoadView'
  BY <1>2 DEF SerialInv, ArchiveInv
<1>4. \A r \in Requests \ {s} : pc[r] \notin Running /\ pc'[r] = pc[r]
  BY OneActs
<1>5. \A r \in Requests \ {s} : ~Begun(r) /\ ~Begun(r)'
  BY <1>4 DEF Begun, Running, LoadSteps
<1>. QED
  BY <1>1, <1>3, <1>5 DEF QuietView, LoadView

\* A step the promise does not see.
LEMMA Unseen ==
  ASSUME inUse' = inUse, LoadingFile' = LoadingFile,
         \A q \in Quarters, g \in Groups : Held(q, g)' = Held(q, g)
  PROVE  UNCHANGED <<inUse, Contents, LoadingFile>>
BY ContentsSame

\* Some rows of some groups of a quarter go: the promise's Clear.
LEMMA ClearSeen ==
  ASSUME Sources, NEW q \in Quarters, inUse' = inUse, LoadingFile = None, LoadingFile' = None,
         \A p \in Quarters, g \in Groups :
           /\ Held(p, g) = ContentOf(g, rows[p][g])
           /\ Held(p, g)' = ContentOf(g, rows'[p][g])
           /\ rows'[p][g] \subseteq rows[p][g]
           /\ p # q => rows'[p][g] = rows[p][g]
  PROVE  Promised!Clear(q)
<1>. DEFINE fewer == {g \in Groups : rows'[q][g] # rows[q][g]}
            gone == {g \in fewer : rows'[q][g] = {}}
            new == [g \in Groups |-> IF g \in gone THEN None ELSE IF g \in fewer THEN Some
                                     ELSE Contents[q][g]]
<1>1. \A g \in Groups : Contents[q][g] = Held(q, g)
  BY DEF Contents
<1>2. fewer \in SUBSET {g \in Groups : Contents[q][g] # None}
  <2>. SUFFICES ASSUME NEW g \in Groups, rows'[q][g] # rows[q][g] PROVE Contents[q][g] # None
    OBVIOUS
  <2>1. rows[q][g] # {}
    OBVIOUS
  <2>. QED
    BY <1>1, <2>1, NothingOfNone
<1>3. \A p \in Quarters, h \in Groups : Held(p, h)' = IF p = q THEN new[h] ELSE Held(p, h)
  <2>. SUFFICES ASSUME NEW p \in Quarters, NEW h \in Groups
                PROVE  Held(p, h)' = IF p = q THEN new[h] ELSE Held(p, h)
    OBVIOUS
  <2>1. CASE p # q
    BY <2>1
  <2>2. CASE p = q /\ rows'[q][h] = rows[q][h]
    BY <1>1, <2>2
  <2>3. CASE p = q /\ rows'[q][h] # rows[q][h]
    <3>1. OneSource(h, rows[q][h]) /\ rows'[q][h] \subseteq rows[q][h]
      BY DEF Sources
    <3>2. ContentOf(h, rows'[q][h]) = IF rows'[q][h] = {} THEN None ELSE Some
      BY <2>3, <3>1, PartIsSome
    <3>. QED
      BY <2>3, <3>2
  <2>. QED
    BY <2>1, <2>2, <2>3
<1>4. Contents' = [Contents EXCEPT ![q] = new]
  <2>1. new = [g \in Groups |-> new[g]]
    OBVIOUS
  <2>. HIDE DEF new
  <2>. QED
    BY <1>3, <2>1 DEF Contents
<1>5. gone \in SUBSET fewer
  OBVIOUS
<1>. QED
  BY <1>2, <1>4, <1>5 DEF Promised!Clear

\* A full import's rows come in: the promise's Refill.
LEMMA RefillSeen ==
  ASSUME SerialInv, inUse' = inUse, LoadingFile = None, LoadingFile' = None,
         \A p \in Quarters, g \in Groups :
           /\ Held(p, g) = ContentOf(g, rows[p][g])
           /\ Held(p, g)' = ContentOf(g, rows'[p][g])
           /\ p # inUse => rows'[p][g] = rows[p][g],
         \A g \in Groups :
           /\ rows'[inUse][g] \subseteq ExportAreas[g] \X {ReferenceExport}
           /\ rows[inUse][g] # {} => rows'[inUse][g] # {}
  PROVE  Promised!Refill
<1>. DEFINE first == [g \in Groups |-> IF ExportAreas[g] = {} THEN None ELSE ReferenceExport]
            filled == {g \in Groups : rows'[inUse][g] # {}}
            whole == {g \in filled : rows'[inUse][g] = ExportAreas[g] \X {ReferenceExport}}
            new == [g \in Groups |-> IF g \in whole THEN first[g] ELSE IF g \in filled THEN Some
                                     ELSE Contents[inUse][g]]
<1>0. inUse \in Quarters
  BY DEF SerialInv, ArchiveInv, TypeInv, TypeOK
<1>1. \A g \in Groups : Contents[inUse][g] = Held(inUse, g)
  BY <1>0 DEF Contents
<1>2. \A p \in Quarters, h \in Groups : Held(p, h)' = IF p = inUse THEN new[h] ELSE Held(p, h)
  <2>. SUFFICES ASSUME NEW p \in Quarters, NEW h \in Groups
                PROVE  Held(p, h)' = IF p = inUse THEN new[h] ELSE Held(p, h)
    OBVIOUS
  <2>1. CASE p # inUse
    BY <2>1
  <2>2. CASE p = inUse /\ rows'[inUse][h] = {}
    <3>1. rows[inUse][h] = {}
      BY <2>2
    <3>4. rows'[p][h] = {} /\ rows[p][h] = {}
      BY <2>2, <3>1
    <3>5. Held(p, h) = ContentOf(h, rows[p][h]) /\ Held(p, h)' = ContentOf(h, rows'[p][h])
      OBVIOUS
    <3>2. Held(p, h)' = Held(p, h)
      BY <3>4, <3>5
    <3>3. new[h] = Contents[inUse][h]
      BY <2>2
    <3>. QED
      BY <1>1, <2>2, <3>2, <3>3
  <2>3. CASE p = inUse /\ rows'[inUse][h] # {}
    <3>1. ContentOf(h, rows'[inUse][h]) =
            IF rows'[inUse][h] = ExportAreas[h] \X {ReferenceExport} THEN ReferenceExport ELSE Some
      BY <2>3, ContentOfExport
    <3>2. ExportAreas[h] # {}
      BY <2>3
    <3>. QED
      BY <2>3, <3>1, <3>2
  <2>. QED
    BY <2>1, <2>2, <2>3
<1>3. Contents' = [Contents EXCEPT ![inUse] = new]
  <2>1. new = [g \in Groups |-> new[g]]
    OBVIOUS
  <2>. HIDE DEF new
  <2>. QED
    BY <1>0, <1>2, <2>1 DEF Contents
<1>4. filled \in SUBSET Groups /\ whole \in SUBSET filled
  OBVIOUS
<1>. QED
  BY <1>3, <1>4 DEF Promised!Refill

LEMMA SourceRows ==
  ASSUME NEW A, NEW e
  PROVE  A \X {e} = {} <=> A = {}
<1>1. ASSUME NEW a \in A PROVE <<a, e>> \in A \X {e}
  OBVIOUS
<1>. QED
  BY <1>1

\* The last statement of a load, whichever it is: the promise's End.
LEMMA EndSeen ==
  ASSUME NEW f \in Files, f.areas # {}, inUse \in Quarters,
         LoadingFile = f, LoadingFile' = None,
         rows' = rows, rows[FileQuarter(f)][f.group] = FileRows(f),
         \A q \in Quarters, g \in Groups :
           /\ Held(q, g) = IF q = FileQuarter(f) /\ g = f.group THEN None ELSE ContentOf(g, rows[q][g])
           /\ Held(q, g)' = ContentOf(g, rows[q][g]),
         inUse' = IF /\ FileQuarter(f) > inUse
                     /\ \A g \in Groups : rows[inUse][g] # {} => rows[FileQuarter(f)][g] # {}
                  THEN FileQuarter(f) ELSE inUse
  PROVE  Promised!End(f)
<1>. DEFINE p == FileQuarter(f)
<1>1. p \in Quarters /\ f.group \in Groups
  BY FileFacts
<1>2. ContentOf(f.group, FileRows(f)) = f
  <2>1. FileRows(f) # {}
    BY SourceRows DEF FileRows
  <2>. QED
    BY <2>1, ContentOfFile
<1>3. Contents' = [Contents EXCEPT ![p][f.group] = f]
  <2>1. \A q \in Quarters, g \in Groups :
          Held(q, g)' = IF q = p /\ g = f.group THEN f ELSE Held(q, g)
    BY <1>2
  <2>. HIDE DEF p
  <2>. QED
    BY <1>1, <2>1, ContentsAt
<1>4. \A q \in Quarters, g \in Groups : Contents'[q][g] # None <=> rows[q][g] # {}
  <2>1. \A q \in Quarters, g \in Groups : Contents'[q][g] = ContentOf(g, rows[q][g])
    BY DEF Contents
  <2>. QED
    BY <2>1, NothingOfNone
<1>5. Promised!Ready(p, Contents') <=> \A g \in Groups : rows[inUse][g] # {} => rows[p][g] # {}
  BY <1>1, <1>4 DEF Promised!Ready
<1>. QED
  BY <1>3, <1>5 DEF Promised!End, GroupOfFile

\* A load that stops, and one whose group's last old rows go.
LEMMA StopSeen ==
  ASSUME NEW f \in Files, inUse' = inUse, LoadingFile = f, LoadingFile' = None,
         rows[FileQuarter(f)][f.group] \subseteq FileRows(f),
         \A q \in Quarters, g \in Groups :
           /\ Held(q, g) = IF q = FileQuarter(f) /\ g = f.group THEN None ELSE ContentOf(g, rows[q][g])
           /\ Held(q, g)' = ContentOf(g, rows[q][g])
  PROVE  Promised!Stop(f)
<1>. DEFINE left == ContentOf(f.group, rows[FileQuarter(f)][f.group])
<1>1. FileQuarter(f) \in Quarters /\ f.group \in Groups
  BY FileFacts
<1>2. left \in {None, Some, f}
  BY ContentOfFile
<1>3. \A q \in Quarters, g \in Groups :
        Held(q, g)' = IF q = FileQuarter(f) /\ g = f.group THEN left ELSE Held(q, g)
  OBVIOUS
<1>4. Contents' = [Contents EXCEPT ![FileQuarter(f)][f.group] = left]
  <2>. HIDE DEF left
  <2>. QED
    BY <1>1, <1>3, ContentsAt
<1>. QED
  BY <1>2, <1>4 DEF Promised!Stop, GroupOfFile

LEMMA BeginSeen ==
  ASSUME NEW f \in Files, inUse' = inUse, FileQuarter(f) >= inUse,
         LoadingFile = None, LoadingFile' = f,
         \A q \in Quarters, g \in Groups :
           Held(q, g)' = IF q = FileQuarter(f) /\ g = f.group THEN None ELSE Held(q, g)
  PROVE  Promised!Begin(f)
<1>1. FileQuarter(f) \in Quarters /\ f.group \in Groups
  BY FileFacts
<1>2. Contents' = [Contents EXCEPT ![FileQuarter(f)][f.group] = None]
  BY <1>1, ContentsAt
<1>. QED
  BY <1>2 DEF Promised!Begin, GroupOfFile

\* Where a behaviour starts.
LEMMA InitSeen == Init => Promised!Init
<1>. SUFFICES ASSUME Init PROVE Promised!Init
  OBVIOUS
<1>. DEFINE first == [g \in Groups |-> IF ExportAreas[g] = {} THEN None ELSE ReferenceExport]
<1>1. \A s \in Requests : ~Begun(s)
  BY DEF Init, Begun, LoadSteps
<1>2. LoadingFile = None /\ \A q \in Quarters, g \in Groups : Held(q, g) = ContentOf(g, rows[q][g])
  BY <1>1, Viewed DEF QuietView, Alone, Init, Running, LoadSteps, ReplaceSteps, LoadingFile, Held
<1>3. ASSUME NEW g \in Groups
      PROVE  Held(FirstQuarter, g) = first[g]
  <2>1. FirstQuarter \in Quarters
    BY DatasetsAssumption DEF DatasetsAssumption
  <2>2. rows[FirstQuarter][g] = ExportAreas[g] \X {ReferenceExport}
    BY <2>1 DEF Init
  <2>3. rows[FirstQuarter][g] = {} <=> ExportAreas[g] = {}
    BY <2>2, SourceRows
  <2>4. ContentOf(g, rows[FirstQuarter][g]) =
          IF rows[FirstQuarter][g] = {} THEN None ELSE ReferenceExport
    BY <2>2, ContentOfExport
  <2>. QED
    BY <1>2, <2>1, <2>3, <2>4
<1>4. ASSUME NEW q \in Quarters, NEW g \in Groups, q # FirstQuarter
      PROVE  Held(q, g) = None
  <2>1. rows[q][g] = {}
    BY <1>4 DEF Init
  <2>. QED
    BY <1>2, <2>1, NothingOfNone
<1>5. Contents = [q \in Quarters |-> IF q = FirstQuarter THEN first ELSE [g \in Groups |-> None]]
  <2>1. \A q \in Quarters :
          [g \in Groups |-> Held(q, g)] = IF q = FirstQuarter THEN first ELSE [g \in Groups |-> None]
    BY <1>3, <1>4
  <2>. QED
    BY <2>1 DEF Contents
<1>. QED
  BY <1>2, <1>5 DEF Promised!Init, Init

\* The steps outside loads, and those of a load that has not begun or goes on.
LEMMA StepUnseen ==
  ASSUME Overlap = "none", SerialInv, SerialInv', NEW s \in Requests,
         Submit(s) \/ Step(s) \/ Fail(s), inUse' = inUse,
         \/ ~Begun(s) /\ ~Begun(s)' /\ rows' = rows
         \/ /\ Begun(s) /\ Begun(s)' /\ file' = file /\ target' = target
            /\ \A q \in Quarters, g \in Groups : ~LoadOf(s, q, g) => rows'[q][g] = rows[q][g]
  PROVE  UNCHANGED <<inUse, Contents, LoadingFile>>
<1>1. CASE ~Begun(s) /\ ~Begun(s)' /\ rows' = rows
  <2>1. LoadingFile' = LoadingFile
    BY <1>1, StepViewed
  <2>2. \A q \in Quarters, g \in Groups : Held(q, g)' = Held(q, g)
    BY <1>1, StepViewed
  <2>. QED
    BY <2>1, <2>2, Unseen
<1>2. CASE /\ Begun(s) /\ Begun(s)' /\ file' = file /\ target' = target
           /\ \A q \in Quarters, g \in Groups : ~LoadOf(s, q, g) => rows'[q][g] = rows[q][g]
  <2>1. LoadingFile' = LoadingFile
    BY <1>2, StepViewed
  <2>2. \A q \in Quarters, g \in Groups : LoadOf(s, q, g)' <=> LoadOf(s, q, g)
    BY <1>2 DEF LoadOf
  <2>3. \A q \in Quarters, g \in Groups : Held(q, g)' = Held(q, g)
    BY <1>2, <2>2, StepViewed
  <2>. QED
    BY <2>1, <2>3, Unseen
<1>. QED
  BY <1>1, <1>2

\* A load's deletes: the promise sees a clear, and with the last the load begins.
LEMMA DeleteSeen ==
  ASSUME Overlap = "none", SerialInv, SerialInv', NEW s \in Requests, DeleteGroupRows(s)
  PROVE  Promised!Clear(target[s]) \/ Promised!Begin(file[s])
<1>1. /\ TypeInv /\ TypeOK /\ Sources /\ pc[s] = "delete" /\ Step(s)
      /\ target[s] \in Quarters /\ inUse \in Quarters /\ Quarters \subseteq Nat
      /\ file[s] \in Files /\ target[s] = FileQuarter(file[s]) /\ inUse <= target[s]
  BY RunningFacts DEF SerialInv, ArchiveInv, DeleteGroupRows, Step, LoadSteps
<1>2. /\ pc'[s] \in {"delete", "log"} /\ UNCHANGED <<inUse, file, target>>
      /\ \A q \in Quarters, g \in Groups : ~LoadOf(s, q, g) => rows'[q][g] = rows[q][g]
      /\ rows'[target[s]][file[s].group] \subseteq rows[target[s]][file[s].group]
      /\ pc'[s] = "log" => rows'[target[s]][file[s].group] = {}
  BY <1>1, DeleteIs, DeleteTakes
<1>3. ~Begun(s) /\ (Begun(s)' <=> pc'[s] = "log")
  BY <1>1, <1>2 DEF Begun, LoadSteps
<1>4. /\ LoadingFile = None
      /\ \A q \in Quarters, g \in Groups : Held(q, g) = ContentOf(g, rows[q][g])
  BY <1>1, <1>3, StepViewed
<1>5. CASE pc'[s] = "delete"
  <2>1. /\ LoadingFile' = None
        /\ \A q \in Quarters, g \in Groups : Held(q, g)' = ContentOf(g, rows'[q][g])
    BY <1>1, <1>3, <1>5, StepViewed
  <2>2. \A q \in Quarters, g \in Groups :
          rows'[q][g] \subseteq rows[q][g] /\ (q # target[s] => rows'[q][g] = rows[q][g])
    BY <1>2 DEF LoadOf
  <2>. QED
    BY <1>1, <1>2, <1>4, <2>1, <2>2, ClearSeen
<1>6. CASE pc'[s] = "log"
  <2>1. /\ LoadingFile' = file[s]
        /\ \A q \in Quarters, g \in Groups :
             Held(q, g)' = IF LoadOf(s, q, g)' THEN None ELSE ContentOf(g, rows'[q][g])
    BY <1>1, <1>2, <1>3, <1>6, StepViewed
  <2>2. \A q \in Quarters, g \in Groups :
          Held(q, g)' = IF q = FileQuarter(file[s]) /\ g = file[s].group THEN None ELSE Held(q, g)
    BY <1>1, <1>2, <1>4, <2>1 DEF LoadOf
  <2>3. FileQuarter(file[s]) >= inUse
    BY <1>1
  <2>. QED
    BY <1>1, <1>2, <1>4, <2>1, <2>2, <2>3, BeginSeen
<1>. QED
  BY <1>2, <1>5, <1>6

\* A load ends, and has either seen a group waiting or switches.
LEMMA LoadEndSeen ==
  ASSUME Overlap = "none", SerialInv, SerialInv', NEW s \in Requests,
         \/ ReadInUse(s) \/ CountLoaded(s) \/ UseDataset(s),
         Begun(s), ~Begun(s)'
  PROVE  Promised!End(file[s])
<1>0. /\ TypeOK /\ Own(s) /\ Step(s) /\ pc[s] \in LoadSteps
      /\ file[s] \in Files /\ inUse \in Quarters /\ Quarters \subseteq Nat /\ target[s] \in Quarters
      /\ target[s] = FileQuarter(file[s])
  BY RunningFacts DEF Begun, Step
<1>1. /\ pc[s] \in {"readInUse", "countLoaded", "use"} /\ pc'[s] \notin {"countInUse", "countLoaded", "use"}
      /\ rows' = rows /\ target' = target /\ file' = file
  BY DEF ReadInUse, CountLoaded, UseDataset, Moves, Begun, LoadSteps, shared
<1>2. /\ file[s].areas # {} /\ target[s] \in tables
      /\ rows[target[s]][file[s].group] = FileRows(file[s])
  BY <1>0, <1>1 DEF Own, Loading, LoadSteps
<1>3. /\ LoadingFile = file[s] /\ LoadingFile' = None
      /\ \A q \in Quarters, g \in Groups :
           /\ Held(q, g) = IF q = target[s] /\ g = file[s].group THEN None ELSE ContentOf(g, rows[q][g])
           /\ Held(q, g)' = ContentOf(g, rows[q][g])
  <2>1. /\ LoadingFile = file[s] /\ LoadingFile' = None
        /\ \A q \in Quarters, g \in Groups :
             /\ Held(q, g) = IF LoadOf(s, q, g) THEN None ELSE ContentOf(g, rows[q][g])
             /\ Held(q, g)' = ContentOf(g, rows'[q][g])
    BY <1>0, StepViewed
  <2>. QED
    BY <1>1, <2>1 DEF LoadOf
<1>4. inUse' = IF /\ target[s] > inUse
                  /\ \A g \in Groups : rows[inUse][g] # {} => rows[target[s]][g] # {}
               THEN target[s] ELSE inUse
  <2>1. CASE ReadInUse(s)
    <3>1. inUse' = inUse /\ pc'[s] = IF target[s] > inUse THEN "countInUse" ELSE "done"
      BY <1>0, <2>1 DEF ReadInUse, Moves, shared, TypeOK
    <3>2. ~(target[s] > inUse)
      BY <1>1, <3>1
    <3>. QED
      BY <3>1, <3>2
  <2>2. CASE CountLoaded(s)
    <3>1. inUse' = inUse
      BY <2>2 DEF CountLoaded, shared
    <3>2. waiting'[s] # {} /\ at[s] = Len(GroupOrder)
      BY <1>1, <2>2, CountLoadedIs
    <3>3. PICK h \in waiting'[s] : TRUE
      BY <3>2
    <3>4. h \in needed[s] /\ rows[target[s]][h] = {} /\ rows[inUse][h] # {}
      BY <2>2, CountLoadedIs
    <3>5. h \in Groups
      BY <1>0, <3>4 DEF TypeOK
    <3>. QED
      BY <3>1, <3>4, <3>5
  <2>3. CASE UseDataset(s)
    <3>1. pc[s] = "use"
      BY <1>0, <2>3 DEF UseDataset, LoadSteps
    <3>2. /\ target[s] > inUse
          /\ \A g \in Groups : rows[inUse][g] # {} => rows[target[s]][g] # {}
      BY <1>0, <3>1 DEF Own, Counting
    <3>3. inUse' = target[s]
      BY <1>2, <2>3 DEF UseDataset
    <3>. QED
      BY <3>2, <3>3
  <2>. QED
    BY <2>1, <2>2, <2>3
<1>. QED
  BY <1>0, <1>1, <1>2, <1>3, <1>4, EndSeen

LEMMA FailSeen ==
  ASSUME Overlap = "none", SerialInv, SerialInv', NEW s \in Requests, Fail(s), Begun(s)
  PROVE  Promised!Stop(file[s])
<1>0. /\ TypeOK /\ Own(s) /\ pc[s] \in LoadSteps
      /\ file[s] \in Files /\ target[s] \in Quarters
      /\ target[s] = FileQuarter(file[s])
  BY RunningFacts DEF Begun
<1>1. /\ pc'[s] = "failed" /\ inUse' = inUse /\ rows' = rows
  BY <1>0 DEF Fail, shared, TypeOK
<1>2. ~Begun(s)'
  BY <1>1 DEF Begun, LoadSteps
<1>3. rows[target[s]][file[s].group] \subseteq FileRows(file[s])
  <2>1. pc[s] \in {"log", "chunks", "logRows", "readInUse", "countInUse", "countLoaded", "use"}
    BY DEF Begun, LoadSteps
  <2>2. Taken(file[s], todo[s]) \subseteq FileRows(file[s])
    BY DEF Taken
  <2>. QED
    BY <1>0, <2>1, <2>2 DEF Own, Loading
<1>4. /\ LoadingFile = file[s] /\ LoadingFile' = None
      /\ \A q \in Quarters, g \in Groups :
           /\ Held(q, g) = IF q = target[s] /\ g = file[s].group THEN None ELSE ContentOf(g, rows[q][g])
           /\ Held(q, g)' = ContentOf(g, rows[q][g])
  BY <1>1, <1>2, StepViewed DEF LoadOf
<1>. QED
  BY <1>0, <1>1, <1>3, <1>4, StopSeen

\* Every step is one the promise allows, or one it does not see.
LEMMA StepSeen ==
  ASSUME Overlap = "none", SerialInv, SerialInv', [Next]_vars
  PROVE  [Promised!Next]_<<inUse, Contents, LoadingFile>>
<1>1. CASE UNCHANGED vars
  <2>1. LoadingFile' = LoadingFile
    BY <1>1 DEF vars, LoadingFile, Begun
  <2>2. \A q \in Quarters, g \in Groups : Held(q, g)' = Held(q, g)
    BY <1>1 DEF vars, Held, Begun
  <2>3. inUse' = inUse
    BY <1>1 DEF vars
  <2>. QED
    BY <2>1, <2>2, <2>3, Unseen
<1>2. ASSUME NEW s \in Requests, Submit(s) \/ Step(s) \/ Fail(s)
      PROVE  [Promised!Next]_<<inUse, Contents, LoadingFile>>
  <2>0. /\ TypeOK /\ Sources /\ inUse \in Quarters /\ target[s] \in Quarters
        /\ pc[s] \in LoadSteps => file[s] \in Files
    BY RunningFacts
  <2>1. CASE Submit(s)
    <3>1. /\ rows' = rows /\ inUse' = inUse
          /\ pc[s] = "idle" /\ pc'[s] \in {"check", "clear", "useByHand", "replaceClear", "refused"}
      BY <2>0, <2>1 DEF Submit, SubmitLoad, SubmitClear, SubmitReplace, SubmitUse, Idle, Moves, shared, TypeOK
    <3>2. ~Begun(s) /\ ~Begun(s)'
      BY <3>1 DEF Begun, LoadSteps
    <3>. QED
      BY <1>2, <3>1, <3>2, StepUnseen
  <2>2. CASE CheckQuarter(s) \/ CreateDataset(s) \/ ReplaceRead(s) \/ ReplaceLog(s)
    <3>1. /\ rows' = rows /\ inUse' = inUse /\ pc[s] \in {"check", "create", "replaceRead", "replaceLog"}
          /\ pc'[s] \in {"refused", "create", "delete", "replaceLog", "replaceChunks"}
      BY <2>0, <2>2 DEF CheckQuarter, CreateDataset, ReplaceRead, ReplaceLog, Moves, shared, TypeOK
    <3>2. ~Begun(s) /\ ~Begun(s)'
      BY <3>1 DEF Begun, LoadSteps
    <3>. QED
      BY <1>2, <3>1, <3>2, StepUnseen
  <2>3. CASE LogLoad(s) \/ LogRowsLoaded(s) \/ CountInUse(s)
    <3>1. /\ rows' = rows /\ UNCHANGED <<inUse, file, target>> /\ pc[s] \in {"log", "logRows", "countInUse"}
          /\ pc'[s] \in {"chunks", "readInUse", "countInUse", "countLoaded"}
      BY <2>0, <2>3 DEF LogLoad, LogRowsLoaded, CountInUse, Moves, shared, TypeOK
    <3>2. Begun(s) /\ Begun(s)'
      BY <3>1 DEF Begun, LoadSteps
    <3>. QED
      BY <1>2, <3>1, <3>2, StepUnseen
  <2>4. CASE LoadChunk(s)
    <3>1. /\ UNCHANGED <<inUse, file, target>> /\ pc[s] = "chunks" /\ pc'[s] \in {"chunks", "logRows"}
          /\ \A q \in Quarters, g \in Groups : ~LoadOf(s, q, g) => rows'[q][g] = rows[q][g]
      BY <2>4, ChunkMakes
    <3>2. Begun(s) /\ Begun(s)'
      BY <3>1 DEF Begun, LoadSteps
    <3>. QED
      BY <1>2, <3>1, <3>2, StepUnseen
  <2>5. CASE DeleteGroupRows(s)
    <3>1. Promised!Clear(target[s]) \/ Promised!Begin(file[s])
      BY <2>5, DeleteSeen
    <3>2. file[s] \in Files
      BY <2>0, <2>5 DEF DeleteGroupRows, LoadSteps
    <3>. QED
      BY <2>0, <3>1, <3>2 DEF Promised!Next
  <2>6. CASE ReadInUse(s) \/ CountLoaded(s) \/ UseDataset(s)
    <3>1. CASE Begun(s) /\ ~Begun(s)'
      <4>1. Promised!End(file[s])
        BY <2>6, <3>1, LoadEndSeen
      <4>2. file[s] \in Files
        BY <2>0, <3>1 DEF Begun
      <4>. QED
        BY <4>1, <4>2 DEF Promised!Next
    <3>2. CASE Begun(s) /\ Begun(s)'
      <4>1. /\ rows' = rows /\ UNCHANGED <<inUse, file, target>>
        BY <2>0, <2>6, <3>2 DEF ReadInUse, CountLoaded, UseDataset, Begun, LoadSteps, shared, TypeOK
      <4>. QED
        BY <1>2, <3>2, <4>1, StepUnseen
    <3>3. CASE ~Begun(s)
      <4>1. /\ UseDataset(s) /\ pc[s] = "useByHand" /\ rows' = rows /\ inUse' \in {inUse, target[s]}
        BY <2>6, <3>3 DEF ReadInUse, CountLoaded, UseDataset, Moves, Begun, LoadSteps
      <4>2. ~Begun(s)'
        BY <2>0, <4>1 DEF UseDataset, Begun, LoadSteps, TypeOK
      <4>3. CASE inUse' = inUse
        BY <1>2, <3>3, <4>1, <4>2, <4>3, StepUnseen
      <4>4. CASE inUse' = target[s]
        <5>1. LoadingFile = None /\ LoadingFile' = None
          BY <1>2, <3>3, <4>2, StepViewed
        <5>2. \A q \in Quarters, g \in Groups : Held(q, g)' = Held(q, g)
          BY <1>2, <3>3, <4>1, <4>2, StepViewed
        <5>3. Promised!Use(target[s])
          BY <4>4, <5>1, <5>2, ContentsSame DEF Promised!Use
        <5>. QED
          BY <2>0, <5>3 DEF Promised!Next
      <4>. QED
        BY <4>1, <4>3, <4>4
    <3>. QED
      BY <3>1, <3>2, <3>3
  <2>7. CASE ClearBatchOfRows(s) \/ ReplaceClear(s)
    <3>1. PICK q \in Quarters :
            /\ inUse' = inUse
            /\ pc[s] \in {"clear", "replaceClear"} /\ pc'[s] \in {"clear", "done", "replaceClear", "replaceRead"}
            /\ \A p \in Quarters, g \in Groups :
                 rows'[p][g] \subseteq rows[p][g] /\ (p # q => rows'[p][g] = rows[p][g])
      <4>1. CASE ClearBatchOfRows(s)
        BY <2>0, <4>1, DeleteTopTakes DEF ClearBatchOfRows
      <4>2. CASE ReplaceClear(s)
        BY <2>0, <4>2, DeleteTopTakes DEF ReplaceClear
      <4>. QED
        BY <2>7, <4>1, <4>2
    <3>2. ~Begun(s) /\ ~Begun(s)'
      BY <3>1 DEF Begun, LoadSteps
    <3>3. /\ LoadingFile = None /\ LoadingFile' = None
          /\ \A p \in Quarters, g \in Groups :
               Held(p, g) = ContentOf(g, rows[p][g]) /\ Held(p, g)' = ContentOf(g, rows'[p][g])
      BY <1>2, <3>2, StepViewed
    <3>4. Promised!Clear(q)
      BY <2>0, <3>1, <3>3, ClearSeen
    <3>. QED
      BY <3>4 DEF Promised!Next
  <2>8. CASE ReplaceChunk(s)
    <3>1. /\ pc[s] = "replaceChunks" /\ pc'[s] \in {"replaceChunks", "done"} /\ inUse' = inUse
          /\ \A q \in Quarters, g \in Groups : q # inUse => rows'[q][g] = rows[q][g]
          /\ \A g \in Groups :
               /\ rows'[inUse][g] \subseteq ExportAreas[g] \X {ReferenceExport}
               /\ rows[inUse][g] # {} => rows'[inUse][g] # {}
      BY <2>8, ReplaceChunkMakes
    <3>2. ~Begun(s) /\ ~Begun(s)'
      BY <3>1 DEF Begun, LoadSteps
    <3>3. /\ LoadingFile = None /\ LoadingFile' = None
          /\ \A p \in Quarters, g \in Groups :
               Held(p, g) = ContentOf(g, rows[p][g]) /\ Held(p, g)' = ContentOf(g, rows'[p][g])
      BY <1>2, <3>2, StepViewed
    <3>4. Promised!Refill
      BY <3>1, <3>3, RefillSeen
    <3>. QED
      BY <3>4 DEF Promised!Next
  <2>9. CASE Fail(s)
    <3>1. CASE Begun(s)
      <4>1. Promised!Stop(file[s]) /\ file[s] \in Files
        BY <2>0, <2>9, <3>1, FailSeen DEF Begun
      <4>. QED
        BY <4>1 DEF Promised!Next
    <3>2. CASE ~Begun(s)
      <4>1. rows' = rows /\ inUse' = inUse /\ ~Begun(s)'
        BY <2>0, <2>9 DEF Fail, shared, Begun, LoadSteps, TypeOK
      <4>. QED
        BY <1>2, <3>2, <4>1, StepUnseen
    <3>. QED
      BY <3>1, <3>2
  <2>. QED
    BY <1>2, <2>1, <2>2, <2>3, <2>4, <2>5, <2>6, <2>7, <2>8, <2>9 DEF Step
<1>. QED
  BY <1>1, <1>2 DEF Next

\* Calls made one at a time, any of which may stop at any statement, implement the
\* promise: seen group by group, a load is two steps, the old file out and the new
\* one in, and the second brings the quarter into use exactly when every group with
\* data in the dataset in use has some there. Each statement of the loader, of a
\* clear, of a full import and of the use procedure is a step of the promise or none.
THEOREM LoaderKeepsPromise ==
  ASSUME Overlap = "none"
  PROVE  Spec => KeepsPromise
<1>1. Spec => []SerialInv
  BY Serial
<1>2. Init => Promised!Init
  BY InitSeen
<1>3. SerialInv /\ SerialInv' /\ [Next]_vars => [Promised!Next]_<<inUse, Contents, LoadingFile>>
  BY StepSeen
<1>. QED
  BY <1>1, <1>2, <1>3, PTL DEF Spec, KeepsPromise, Promised!Spec

=============================================================================

---------------------------- MODULE PromotionProofs ----------------------------
(***************************************************************************)
(* Theorems about Promotion, for any groups, files, release and number of  *)
(* changes: what is promoted is what export counted, a mismatch leaves     *)
(* what screening finds as it was, and a wait has something to wait for.   *)
(*                                                                         *)
(* The steps of the pipeline are tied together by the manifest and the     *)
(* files only, so IInv follows a group's rows along them: what is logged   *)
(* (SourceInv), what the manifest says was counted (ManifestInv), which    *)
(* file was downloaded for it (FilesInv), and what of it has been loaded   *)
(* (LoadedInv). InUseInv is about the dataset in use alone.                *)
(***************************************************************************)
EXTENDS Promotion, SequenceTheorems, TLAPS

\* The dataset that is in use before the quarter is.
SeenWithout == [g \in Groups |-> IF g \in usedGroups THEN Old ELSE None]

AfterExport == ImportSteps \cup ImportFailures \cup {"promoted"}

\* A file in storage has its own name, and what a log row or the group's rows are of is
\* a file of the group's, which is in storage under its name ever after.
LoggedLoads(log) ==
  \A g \in Groups : log[g] # None =>
    /\ log[g].version.group = g
    /\ sourceBlob[log[g].version.name] # None
    /\ log[g].rowsLoaded \in {0, SourceCount[log[g].version]}

SourceInv ==
  /\ \A n \in Names : sourceBlob[n] # None => sourceBlob[n].name = n
  /\ \A n \in Names : dir[n] # None => dir[n].name = n
  /\ \A g \in Groups : sourceRows[g] \notin {None, Old, Some} => sourceRows[g].group = g
  /\ LoggedLoads(sourceLog) /\ LoggedLoads(loads)

\* Where the pipeline is in the groups, or in the manifest's files.
CursorInv ==
  /\ pc \in {"exportInUse", "exportLoads"} =>
       at = 1 /\ manifest = <<>> /\ \A g \in Groups : checked[g] = None
  /\ pc = "exportCounts" => Len(manifest) < at
  /\ pc \in {"download"} \cup AfterExport =>
       manifest # <<>> /\ Len(manifest) <= Len(GroupOrder)
  /\ pc \in {"download", "upload", "load", "loading"} => at <= Len(manifest)
  /\ pc \in ExportSteps => imports = 0
  /\ pc = "import" => imports < MaxImports

\* A manifest's file is what the group's last load loaded, as many rows as the group
\* had when it was counted, and every group that had rows then has a file.
ManifestInv ==
  /\ \A i \in DOMAIN manifest :
       LET e == manifest[i] IN
       /\ loads[e.group] # None
       /\ e.name = loads[e.group].version.name
       /\ e.rowsLoaded = loads[e.group].rowsLoaded
       /\ pc # "exportRefused" => CountOf(SourceCount, checked[e.group]) = e.rowsLoaded
  /\ \A g \in Groups : checked[g] \notin {None, Old, Some} => checked[g].group = g
  /\ pc # "exportRefused" =>
       \A g \in Groups : checked[g] # None => \E i \in DOMAIN manifest : manifest[i].group = g

\* Each file of the manifest is downloaded in its turn, and has rows if it is imported.
FilesInv ==
  /\ \A i \in DOMAIN manifest :
       pc \in AfterExport \/ (pc = "download" /\ i < at) => dir[manifest[i].name] # None
  /\ pc \in ImportSteps \ {"import"} => \A i \in DOMAIN manifest : manifest[i].rowsLoaded > 0

\* The target's rows of the i-th file's group are that file's, as many as at the source
\* if no difference was noted.
Loaded(i) ==
  LET e == manifest[i] IN
  /\ targetRows[e.group] = dir[e.name]
  /\ e.group \notin mismatched => TargetCount[dir[e.name]] = e.rowsLoaded

\* What this import has loaded stays so to its end.
LoadedInv ==
  /\ pc = "load" => \A i \in 1 .. at - 1 : Loaded(i)
  /\ pc = "loading" => \A i \in 1 .. at - 1 : manifest[i].group # manifest[at].group => Loaded(i)
  /\ pc \in {"compare", "goBack", "confirm"} => \A i \in DOMAIN manifest : Loaded(i)
  /\ pc = "confirm" => mismatched = {}

\* The dataset in use before the import, and what waits for the quarter's.
InUseInv ==
  /\ usedBefore # Quarter => seenBefore = SeenWithout
  /\ pc = "goBack" => usedBefore # Quarter
  /\ pc = "mismatch" /\ usedBefore # Quarter => targetUse # Quarter
  /\ pc = "loading" => Quarter >= targetUse
  /\ pc \in {"compare", "confirm"} =>
       targetUse = Quarter \/ \E g \in Groups : Seen[g] # None /\ targetRows[g] = None

IInv ==
  /\ TypeOK /\ SourceInv /\ CursorInv /\ ManifestInv /\ FilesInv /\ LoadedInv /\ InUseInv
  /\ WaitingHasReason

------------------------------------------------------------------------------
(* Lemmas *)

\* What the assumption says of versions.
LEMMA VersionFacts ==
  /\ \A v \in Versions : /\ v.group \in Groups /\ v.name \in Names /\ v.size \in Nat /\ v # None
                         /\ SourceCount[v] \in Nat /\ SourceCount[v] > 1 /\ TargetCount[v] \in Nat
  /\ \A v, w \in Versions : v.name = w.name => v.group = w.group
  /\ \A g \in Groups : SourceFirst[g] # None => SourceFirst[g] \in Versions /\ SourceFirst[g].group = g
BY PromotionAssumption DEF Version

\* The manifest's entries, and the group at the cursor, have their types.
LEMMA ManifestFacts ==
  ASSUME TypeOK
  PROVE  /\ Len(manifest) \in Nat /\ DOMAIN manifest = 1 .. Len(manifest)
         /\ \A i \in DOMAIN manifest :
              /\ manifest[i].group \in Groups /\ manifest[i].name \in Names
              /\ manifest[i].rowsLoaded \in Nat
         /\ Len(GroupOrder) \in Nat /\ at \in 1 .. Len(GroupOrder) /\ GroupOrder[at] \in Groups
<1>1. manifest \in Seq([group : Groups, name : Names, rowsLoaded : Nat])
  BY DEF TypeOK
<1>2. \A i \in 1 .. Len(manifest) : manifest[i] \in [group : Groups, name : Names, rowsLoaded : Nat]
  BY <1>1, ElementOfSeq
<1> QED BY <1>1, <1>2, LenProperties, PromotionAssumption DEF TypeOK

\* A file that was downloaded is one of the group the manifest has it for.
LEMMA FileOf ==
  ASSUME TypeOK, SourceInv, ManifestInv, NEW i \in DOMAIN manifest, dir[manifest[i].name] # None
  PROVE  /\ manifest[i].group \in Groups /\ manifest[i].name \in Names
         /\ dir[manifest[i].name] \in Versions
         /\ dir[manifest[i].name].group = manifest[i].group
         /\ dir[manifest[i].name].name = manifest[i].name
<1>1. manifest[i].group \in Groups /\ manifest[i].name \in Names
  BY ManifestFacts
<1>2. /\ loads[manifest[i].group].version \in Versions
      /\ manifest[i].name = loads[manifest[i].group].version.name
      /\ loads[manifest[i].group].version.group = manifest[i].group
  BY <1>1 DEF TypeOK, ManifestInv, SourceInv, LoggedLoads, LogRow
<1>3. /\ dir[manifest[i].name] \in Versions
      /\ dir[manifest[i].name].name = manifest[i].name
  BY <1>1 DEF TypeOK, SourceInv
<1> QED BY <1>1, <1>2, <1>3, VersionFacts

\* What people do at the source keeps it in order.
SourceTypes ==
  /\ sourceRows \in [Groups -> Versions \cup {None, Old, Some}]
  /\ sourceLog \in [Groups -> LogRow \cup {None}]
  /\ sourceBlob \in [Names -> Versions \cup {None}]

LEMMA SourceUploadIs ==
  ASSUME TypeOK, SourceInv, NEW v \in Versions, SourceUpload(v), UNCHANGED <<loads, dir>>
  PROVE  SourceTypes' /\ SourceInv'
BY VersionFacts DEF SourceUpload, TypeOK, SourceTypes, SourceInv, LoggedLoads, LogRow

LEMMA SourceLoadIs ==
  ASSUME TypeOK, SourceInv, NEW v \in Versions, SourceLoad(v), UNCHANGED <<loads, dir>>
  PROVE  SourceTypes' /\ SourceInv'
<1>1. /\ v.group \in Groups /\ v.name \in Names /\ SourceCount[v] \in Nat
      /\ sourceBlob' = sourceBlob /\ sourceBlob[v.name] = v /\ v # None
  BY VersionFacts DEF SourceLoad
<1>2. PICK held \in {v, None, Some} : sourceRows' = [sourceRows EXCEPT ![v.group] = held]
  BY DEF SourceLoad
<1>3. \/ sourceLog' = sourceLog
      \/ \E n \in {0, SourceCount[v]} :
            sourceLog' = [sourceLog EXCEPT ![v.group] = [version |-> v, rowsLoaded |-> n]]
  BY DEF SourceLoad
<1>4. /\ sourceRows' \in [Groups -> Versions \cup {None, Old, Some}]
      /\ \A g \in Groups : sourceRows'[g] \notin {None, Old, Some} => sourceRows'[g].group = g
  BY <1>1, <1>2 DEF TypeOK, SourceInv
<1>5. sourceLog' \in [Groups -> LogRow \cup {None}] /\ LoggedLoads(sourceLog)'
  <2>1. CASE sourceLog' = sourceLog
    BY <2>1, <1>1 DEF TypeOK, SourceInv, LoggedLoads
  <2>2. ASSUME NEW n \in {0, SourceCount[v]},
               sourceLog' = [sourceLog EXCEPT ![v.group] = [version |-> v, rowsLoaded |-> n]]
        PROVE  sourceLog' \in [Groups -> LogRow \cup {None}] /\ LoggedLoads(sourceLog)'
    <3> DEFINE row == [version |-> v, rowsLoaded |-> n]
    <3>1. row \in LogRow /\ row.version = v /\ row.rowsLoaded = n
      BY <1>1 DEF LogRow
    <3> HIDE DEF row
    <3>2. sourceLog' = [sourceLog EXCEPT ![v.group] = row]
      BY <2>2 DEF row
    <3> QED BY <3>1, <3>2, <1>1 DEF TypeOK, SourceInv, LoggedLoads
  <2> QED BY <1>3, <2>1, <2>2
<1>6. LoggedLoads(loads)'
  BY <1>1 DEF SourceInv, LoggedLoads
<1> QED BY <1>1, <1>4, <1>5, <1>6 DEF TypeOK, SourceTypes, SourceInv

\* What screening finds on a dataset other than the quarter.
LEMMA SeenElsewhere ==
  targetUse # Quarter => Seen = SeenWithout
BY DEF Seen, SeenWithout

LEMMA InitHolds == Init => IInv
<1> SUFFICES ASSUME Init PROVE IInv
  OBVIOUS
<1>1. \A n \in Names : sourceBlob[n] \in Versions \cup {None}
        /\ (sourceBlob[n] # None => sourceBlob[n].name = n)
  <2> TAKE n \in Names
  <2>1. CASE \E g \in Groups : SourceFirst[g] # None /\ SourceFirst[g].name = n
    <3>1. PICK g \in Groups : SourceFirst[g] # None /\ SourceFirst[g].name = n
      BY <2>1
    <3>2. \E v \in Versions : v.name = n /\ v = SourceFirst[v.group]
      BY <3>1, VersionFacts
    <3> QED BY <2>1, <3>2 DEF Init
  <2>2. CASE ~\E g \in Groups : SourceFirst[g] # None /\ SourceFirst[g].name = n
    BY <2>2 DEF Init
  <2> QED BY <2>1, <2>2
<1>2. \A g \in Groups : sourceLog[g] # None =>
        /\ sourceLog[g] = [version |-> SourceFirst[g], rowsLoaded |-> SourceCount[SourceFirst[g]]]
        /\ SourceFirst[g] # None /\ sourceBlob[SourceFirst[g].name] # None
  <2> SUFFICES ASSUME NEW g \in Groups, SourceFirst[g] # None
               PROVE  sourceBlob[SourceFirst[g].name] # None
    BY DEF Init
  <2> DEFINE n == SourceFirst[g].name
  <2>1. n \in Names /\ \E v \in Versions : v.name = n /\ v = SourceFirst[v.group]
    BY VersionFacts
  <2>2. sourceBlob[n] = CHOOSE v \in Versions : v.name = n /\ v = SourceFirst[v.group]
    BY <2>1 DEF Init
  <2> QED BY <2>1, <2>2, VersionFacts
<1>3. TypeOK
  <2>1. sourceLog \in [Groups -> LogRow \cup {None}]
    BY <1>2, VersionFacts DEF Init, LogRow
  <2>2. sourceRows \in [Groups -> Versions \cup {None, Old, Some}]
        /\ targetRows \in [Groups -> Versions \cup {None, Old, Some}]
    BY PromotionAssumption DEF Init
  <2>3. seenBefore \in [Groups -> Versions \cup {None, Old, Some}]
    BY <2>2 DEF Init, Seen
  <2>4. sourceBlob \in [Names -> Versions \cup {None}]
    BY <1>1 DEF Init
  <2>5. manifest \in Seq([group : Groups, name : Names, rowsLoaded : Nat])
    BY EmptySeq DEF Init
  <2>6. /\ usedGroups \in SUBSET Groups /\ targetUse \in Befores \cup {Quarter}
        /\ at \in 1..Len(GroupOrder) /\ changes \in 0..MaxChanges /\ imports \in 0..MaxImports
        /\ mismatched \subseteq Groups
    BY PromotionAssumption DEF Init
  <2> QED BY <2>1, <2>2, <2>3, <2>4, <2>5, <2>6, PromotionAssumption DEF Init, TypeOK, ExportSteps
<1>4. SourceInv
  <2>1. LoggedLoads(sourceLog)
    <3> SUFFICES ASSUME NEW g \in Groups, sourceLog[g] # None
                 PROVE  /\ sourceLog[g].version.group = g
                        /\ sourceBlob[sourceLog[g].version.name] # None
                        /\ sourceLog[g].rowsLoaded = SourceCount[sourceLog[g].version]
      BY DEF LoggedLoads
    <3>0. sourceLog[g] = [version |-> SourceFirst[g], rowsLoaded |-> SourceCount[SourceFirst[g]]]
      BY <1>2
    <3>1. sourceLog[g].version = SourceFirst[g]
          /\ sourceLog[g].rowsLoaded = SourceCount[SourceFirst[g]]
      BY <3>0
    <3> QED BY <3>1, <1>2, VersionFacts
  <2>2. LoggedLoads(loads) /\ \A n \in Names : dir[n] = None
    BY DEF Init, LoggedLoads
  <2>3. \A g \in Groups : sourceRows[g] \notin {None, Old, Some} => sourceRows[g].group = g
    BY VersionFacts DEF Init
  <2> QED BY <2>1, <2>2, <2>3, <1>1 DEF SourceInv
<1>5. CursorInv /\ ManifestInv /\ FilesInv /\ LoadedInv
  BY DEF Init, CursorInv, ManifestInv, FilesInv, LoadedInv, AfterExport, ExportSteps, ImportSteps,
         ImportFailures
<1>6. InUseInv /\ WaitingHasReason
  BY SeenElsewhere DEF Init, InUseInv, WaitingHasReason
<1> QED BY <1>3, <1>4, <1>5, <1>6 DEF IInv
------------------------------------------------------------------------------
(* Each step keeps the invariant *)

LEMMA SourceChangeKeeps == IInv /\ SourceChange => IInv'
<1> SUFFICES ASSUME IInv, SourceChange PROVE IInv'
  OBVIOUS
<1> USE DEF IInv, SourceChange, SourceUpload, SourceLoad, SourceReplace, exported, target, importing
<1>0. SourceTypes' /\ SourceInv'
  <2> HIDE DEF SourceUpload, SourceLoad, SourceReplace
  <2>1. ASSUME NEW v \in Versions, SourceUpload(v) PROVE SourceTypes' /\ SourceInv'
    BY <2>1, SourceUploadIs
  <2>2. ASSUME NEW v \in Versions, SourceLoad(v) PROVE SourceTypes' /\ SourceInv'
    BY <2>2, SourceLoadIs
  <2>3. ASSUME SourceReplace PROVE SourceTypes' /\ SourceInv'
    BY <2>3 DEF SourceReplace, TypeOK, SourceTypes, SourceInv, LoggedLoads
  <2> QED BY <2>1, <2>2, <2>3
<1>1. TypeOK'
  BY <1>0, PromotionAssumption DEF TypeOK, SourceTypes, ExportSteps, ImportSteps, ImportFailures
<1>2. SourceInv'
  BY <1>0
<1>3. CursorInv'
  BY DEF TypeOK, CursorInv, AfterExport, ExportSteps, ImportSteps, ImportFailures
<1>4. ManifestInv'
  BY DEF TypeOK, ManifestInv
<1>5. FilesInv'
  BY DEF TypeOK, FilesInv, AfterExport, ExportSteps, ImportSteps, ImportFailures
<1>6. LoadedInv'
  BY DEF TypeOK, LoadedInv, Loaded, ExportSteps, ImportSteps, ImportFailures
<1>7. InUseInv'
  BY DEF TypeOK, InUseInv, Seen, SeenWithout, ExportSteps, ImportSteps, ImportFailures
<1>8. WaitingHasReason'
  BY DEF TypeOK, WaitingHasReason, InUseInv, Seen, ExportSteps, ImportSteps, ImportFailures
<1> QED BY <1>1, <1>2, <1>3, <1>4, <1>5, <1>6, <1>7, <1>8

LEMMA ExportInUseKeeps == IInv /\ ExportInUse => IInv'
<1> SUFFICES ASSUME IInv, ExportInUse PROVE IInv'
  OBVIOUS
<1> USE DEF IInv, ExportInUse, Moves, source, exported, target, importing
<1>1. TypeOK'
  BY DEF TypeOK, ExportSteps, ImportSteps, ImportFailures
<1>2. SourceInv'
  BY DEF TypeOK, SourceInv, LoggedLoads
<1>3. CursorInv'
  BY DEF TypeOK, CursorInv, AfterExport, ExportSteps, ImportSteps, ImportFailures
<1>4. ManifestInv'
  BY DEF TypeOK, ManifestInv
<1>5. FilesInv'
  BY DEF TypeOK, FilesInv, AfterExport, ExportSteps, ImportSteps, ImportFailures
<1>6. LoadedInv'
  BY DEF TypeOK, LoadedInv, Loaded, ExportSteps, ImportSteps, ImportFailures
<1>7. InUseInv'
  BY DEF TypeOK, InUseInv, Seen, SeenWithout, ExportSteps, ImportSteps, ImportFailures
<1>8. WaitingHasReason'
  BY DEF TypeOK, WaitingHasReason, InUseInv, Seen, ExportSteps, ImportSteps, ImportFailures
<1> QED BY <1>1, <1>2, <1>3, <1>4, <1>5, <1>6, <1>7, <1>8

LEMMA ExportLoadsKeeps == IInv /\ ExportLoads => IInv'
<1> SUFFICES ASSUME IInv, ExportLoads PROVE IInv'
  OBVIOUS
<1> USE DEF IInv, ExportLoads, Moves, source, exported, target, importing
<1>1. TypeOK'
  BY DEF TypeOK, ExportSteps, ImportSteps, ImportFailures
<1>2. SourceInv'
  BY DEF TypeOK, SourceInv, LoggedLoads
<1>3. CursorInv'
  BY DEF TypeOK, CursorInv, AfterExport, ExportSteps, ImportSteps, ImportFailures
<1>4. ManifestInv'
  BY DEF TypeOK, ManifestInv, CursorInv
<1>5. FilesInv'
  BY DEF TypeOK, FilesInv, AfterExport, ExportSteps, ImportSteps, ImportFailures
<1>6. LoadedInv'
  BY DEF TypeOK, LoadedInv, Loaded, ExportSteps, ImportSteps, ImportFailures
<1>7. InUseInv'
  BY DEF TypeOK, InUseInv, Seen, SeenWithout, ExportSteps, ImportSteps, ImportFailures
<1>8. WaitingHasReason'
  BY DEF TypeOK, WaitingHasReason, InUseInv, Seen, ExportSteps, ImportSteps, ImportFailures
<1> QED BY <1>1, <1>2, <1>3, <1>4, <1>5, <1>6, <1>7, <1>8

\* What counting a group makes of the manifest: it ends export, or what was counted is
\* what the group's last load, if any, loaded.
LEMMA ExportCountIs ==
  ASSUME TypeOK, ExportCount, NEW g, g = GroupOrder[at]
  PROVE  /\ g \in Groups /\ pc = "exportCounts"
         /\ checked' = [checked EXCEPT ![g] = sourceRows[g]]
         /\ \/ pc' = "exportRefused" /\ UNCHANGED <<at, manifest>>
            \/ /\ \/ pc' = "exportCounts" /\ at' = at + 1 /\ at < Len(GroupOrder)
                  \/ pc' \in {"exportRefused", "download"} /\ at' = 1
               /\ pc' = "download" => manifest' # <<>>
               /\ \/ /\ loads[g] = None /\ CountOf(SourceCount, sourceRows[g]) = 0
                     /\ manifest' = manifest
                  \/ /\ loads[g] # None /\ loads[g].rowsLoaded = CountOf(SourceCount, sourceRows[g])
                     /\ manifest' = Append(manifest, [group |-> g, name |-> loads[g].version.name,
                                                      rowsLoaded |-> loads[g].rowsLoaded])
<1> DEFINE rows == CountOf(SourceCount, sourceRows[g])
           e == [group |-> g, name |-> loads[g].version.name, rowsLoaded |-> loads[g].rowsLoaded]
<1> HIDE DEF rows, e
<1>1. rows \in Nat /\ g \in Groups
  BY ManifestFacts, VersionFacts DEF rows, CountOf, TypeOK
<1>2. loads[g] # None => loads[g].rowsLoaded \in Nat
  BY <1>1 DEF TypeOK, LogRow
<1> QED BY <1>1, <1>2, ManifestFacts DEF ExportCount, Moves, MovesThrough, rows, e

\* No rows were counted of a group exactly when there were none.
LEMMA NoneCounted ==
  ASSUME NEW held \in Versions \cup {None, Old, Some}, CountOf(SourceCount, held) = 0
  PROVE  held = None
BY VersionFacts DEF CountOf

LEMMA ExportCountKeeps == IInv /\ ExportCount => IInv'
<1> SUFFICES ASSUME IInv, ExportCount PROVE IInv'
  OBVIOUS
<1> USE DEF IInv
<1>0. PICK g : g = GroupOrder[at]
  OBVIOUS
<1>g. g \in Groups /\ pc = "exportCounts" /\ checked' = [checked EXCEPT ![g] = sourceRows[g]]
  BY <1>0, ExportCountIs
<1>p. \/ pc' = "exportRefused" /\ UNCHANGED <<at, manifest>>
      \/ /\ \/ pc' = "exportCounts" /\ at' = at + 1 /\ at < Len(GroupOrder)
            \/ pc' \in {"exportRefused", "download"} /\ at' = 1
         /\ pc' = "download" => manifest' # <<>>
  BY <1>0, ExportCountIs
<1>a. UNCHANGED <<source, loads, dir, target, importing>>
  BY DEF ExportCount
<1>b. at \in 1 .. Len(GroupOrder) /\ Len(manifest) < at /\ Len(GroupOrder) \in Nat
  BY <1>g, ManifestFacts DEF CursorInv
<1>e. PICK e : e = [group |-> g, name |-> loads[g].version.name, rowsLoaded |-> loads[g].rowsLoaded]
  OBVIOUS
<1>k. loads[g] # None => /\ e \in [group : Groups, name : Names, rowsLoaded : Nat] /\ e.group = g
                         /\ e.name = loads[g].version.name /\ e.rowsLoaded = loads[g].rowsLoaded
  <2> SUFFICES ASSUME loads[g] # None
               PROVE  loads[g].version.name \in Names /\ loads[g].rowsLoaded \in Nat
    BY <1>e, <1>g
  <2>1. loads[g] \in LogRow
    BY <1>g DEF TypeOK
  <2> QED BY <2>1, VersionFacts DEF LogRow
<1>c. \/ UNCHANGED manifest /\ (pc' = "exportRefused" \/ CountOf(SourceCount, sourceRows[g]) = 0)
      \/ loads[g] # None /\ manifest' = Append(manifest, e)
  BY <1>0, <1>e, ExportCountIs
<1>m. pc' # "exportRefused" =>
        IF loads[g] = None THEN CountOf(SourceCount, sourceRows[g]) = 0 /\ UNCHANGED manifest
        ELSE CountOf(SourceCount, sourceRows[g]) = loads[g].rowsLoaded
  BY <1>0, ExportCountIs
<1>d. /\ Len(manifest') \in Nat /\ Len(manifest') <= Len(manifest) + 1
      /\ DOMAIN manifest' = 1 .. Len(manifest')
      /\ manifest' \in Seq([group : Groups, name : Names, rowsLoaded : Nat])
      /\ \A i \in DOMAIN manifest : i \in DOMAIN manifest' /\ manifest'[i] = manifest[i]
      /\ \A i \in DOMAIN manifest' \ DOMAIN manifest : manifest'[i] = e /\ loads[g] # None
      /\ ~UNCHANGED manifest => Len(manifest') \in DOMAIN manifest' /\ manifest'[Len(manifest')] = e
  <2>0. manifest \in Seq([group : Groups, name : Names, rowsLoaded : Nat])
        /\ Len(manifest) \in Nat /\ DOMAIN manifest = 1 .. Len(manifest)
    BY ManifestFacts DEF TypeOK
  <2>1. CASE UNCHANGED manifest
    BY <2>0, <2>1
  <2>2. CASE loads[g] # None /\ manifest' = Append(manifest, e)
    <3>1. /\ manifest' \in Seq([group : Groups, name : Names, rowsLoaded : Nat])
          /\ Len(manifest') = Len(manifest) + 1
          /\ \A i \in 1 .. Len(manifest) : manifest'[i] = manifest[i]
          /\ manifest'[Len(manifest) + 1] = e
      BY <2>0, <2>2, <1>k, AppendProperties
    <3>2. DOMAIN manifest' = 1 .. Len(manifest')
      BY <3>1, LenProperties
    <3>3. Len(manifest') \in DOMAIN manifest' /\ manifest'[Len(manifest')] = e
      BY <2>0, <3>1, <3>2
    <3>4. \A i \in DOMAIN manifest' \ DOMAIN manifest : i = Len(manifest) + 1
      BY <2>0, <3>1, <3>2
    <3>5. \A i \in DOMAIN manifest : i \in DOMAIN manifest' /\ manifest'[i] = manifest[i]
      BY <2>0, <3>1, <3>2
    <3>6. \A i \in DOMAIN manifest' \ DOMAIN manifest : manifest'[i] = e
      BY <3>1, <3>4
    <3>7. Len(manifest') \in Nat /\ Len(manifest') <= Len(manifest) + 1
      BY <2>0, <3>1
    <3> QED BY <2>2, <3>1, <3>2, <3>3, <3>5, <3>6, <3>7
  <2> QED BY <2>1, <2>2, <1>c
<1>f. ~UNCHANGED manifest => loads[g] # None /\ e.group = g
  BY <1>c, <1>k
<1>1. TypeOK'
  BY <1>a, <1>b, <1>d, <1>g, <1>p
    DEF TypeOK, source, target, importing, ExportSteps, ImportSteps, ImportFailures
<1>2. SourceInv'
  BY <1>a DEF SourceInv, LoggedLoads, source
<1>3. CursorInv'
  BY <1>a, <1>b, <1>d, <1>g, <1>p, ManifestFacts
    DEF CursorInv, importing, AfterExport, ExportSteps, ImportSteps, ImportFailures
<1>4. ManifestInv'
  <2>1. ASSUME NEW i \in DOMAIN manifest'
        PROVE  /\ loads[manifest'[i].group] # None
               /\ manifest'[i].group \in Groups
               /\ manifest'[i].name = loads[manifest'[i].group].version.name
               /\ manifest'[i].rowsLoaded = loads[manifest'[i].group].rowsLoaded
               /\ i \notin DOMAIN manifest => manifest'[i].group = g
    <3>1. CASE i \in DOMAIN manifest
      BY <3>1, <1>d, ManifestFacts DEF ManifestInv
    <3>2. CASE i \notin DOMAIN manifest
      <4>1. manifest'[i] = e /\ loads[g] # None
        BY <3>2, <1>d
      <4> QED BY <4>1, <1>k, <1>g
    <3> QED BY <3>1, <3>2
  <2>2. ASSUME NEW i \in DOMAIN manifest', pc' # "exportRefused"
        PROVE  CountOf(SourceCount, checked'[manifest'[i].group]) = manifest'[i].rowsLoaded
    <3>1. CASE manifest'[i].group = g
      <4>1. CountOf(SourceCount, sourceRows[g]) = loads[g].rowsLoaded
        BY <2>1, <2>2, <3>1, <1>m
      <4>2. checked'[g] = sourceRows[g]
        BY <1>g DEF TypeOK
      <4> QED BY <4>1, <4>2, <3>1, <2>1
    <3>2. CASE manifest'[i].group # g
      <4>1. i \in DOMAIN manifest /\ manifest'[i] = manifest[i]
        BY <2>1, <3>2, <1>d
      <4>2. checked'[manifest[i].group] = checked[manifest[i].group]
        BY <4>1, <3>2, <1>g, ManifestFacts DEF TypeOK
      <4> QED BY <4>1, <4>2, <1>g DEF ManifestInv
    <3> QED BY <3>1, <3>2
  <2>3. ASSUME NEW h \in Groups, checked'[h] \notin {None, Old, Some} PROVE checked'[h].group = h
    BY <2>3, <1>g DEF ManifestInv, SourceInv, TypeOK
  <2>4. ASSUME NEW h \in Groups, checked'[h] # None, pc' # "exportRefused"
        PROVE  \E i \in DOMAIN manifest' : manifest'[i].group = h
    <3>1. CASE h # g
      BY <2>4, <3>1, <1>d, <1>g DEF ManifestInv, TypeOK
    <3>2. CASE h = g
      <4>1. sourceRows[g] # None /\ sourceRows[g] \in Versions \cup {None, Old, Some}
        BY <2>4, <3>2, <1>g DEF TypeOK
      <4>2. loads[g] # None /\ CountOf(SourceCount, sourceRows[g]) = loads[g].rowsLoaded
        BY <4>1, <2>4, <1>m, NoneCounted
      <4>3. \E i \in DOMAIN manifest' : manifest'[i].group = g
        <5>1. CountOf(SourceCount, sourceRows[g]) # 0
          BY <4>1, NoneCounted
        <5>2. ~UNCHANGED manifest \/ pc' = "exportRefused"
          BY <5>1, <1>c
        <5> QED BY <5>2, <2>4, <1>d, <1>f
      <4> QED BY <4>3, <3>2
    <3> QED BY <3>1, <3>2
  <2> QED BY <2>1, <2>2, <2>3, <2>4, <1>a DEF ManifestInv
<1>5. FilesInv'
  <2>1. pc' \notin AfterExport /\ ~(pc' = "download" /\ \E i \in DOMAIN manifest' : i < at')
    BY <1>p, <1>d, <1>g DEF AfterExport, ImportSteps, ImportFailures
  <2>2. pc' \notin ImportSteps
    BY <2>1 DEF AfterExport
  <2> QED BY <2>1, <2>2 DEF FilesInv, AfterExport
<1>6. LoadedInv'
  BY <1>p, <1>g DEF LoadedInv
<1>7. InUseInv'
  BY <1>a, <1>p, <1>g DEF InUseInv, SeenWithout, target, importing
<1>8. WaitingHasReason'
  BY <1>p, <1>g DEF WaitingHasReason
<1> QED BY <1>1, <1>2, <1>3, <1>4, <1>5, <1>6, <1>7, <1>8

LEMMA DownloadKeeps == IInv /\ Download => IInv'
<1> SUFFICES ASSUME IInv, Download PROVE IInv'
  OBVIOUS
<1> USE DEF IInv, Download, Moves, MovesThrough, source, exported, target, importing
<1>0. /\ at \in DOMAIN manifest /\ manifest[at].name \in Names /\ manifest[at].group \in Groups
      /\ Len(manifest) \in Nat /\ DOMAIN manifest = 1 .. Len(manifest)
      /\ Len(manifest) <= Len(GroupOrder) /\ Len(GroupOrder) \in Nat /\ at \in Nat /\ manifest # <<>>
  BY ManifestFacts DEF CursorInv
<1>s. sourceBlob[manifest[at].name] # None
  BY <1>0 DEF ManifestInv, SourceInv, LoggedLoads
<1>1. TypeOK'
  BY <1>0 DEF TypeOK, ExportSteps, ImportSteps, ImportFailures
<1>2. SourceInv'
  BY DEF TypeOK, SourceInv, LoggedLoads
<1>3. CursorInv'
  <2> USE DEF CursorInv, AfterExport, ExportSteps, ImportSteps, ImportFailures
  <2>1. CASE at = Len(manifest)
    BY <1>0, <2>1, PromotionAssumption
  <2>2. CASE at # Len(manifest)
    BY <1>0, <2>2
  <2> QED BY <2>1, <2>2
<1>4. ManifestInv'
  BY DEF TypeOK, ManifestInv
<1>5. FilesInv'
  <2>1. ASSUME NEW i \in DOMAIN manifest, i <= at PROVE dir'[manifest[i].name] # None
    <3>1. CASE manifest[i].name = manifest[at].name
      BY <3>1, <1>0, <1>s DEF TypeOK
    <3>2. CASE manifest[i].name # manifest[at].name
      <4>1. i < at /\ dir'[manifest[i].name] = dir[manifest[i].name]
        BY <2>1, <3>2, <1>0, ManifestFacts DEF TypeOK
      <4> QED BY <4>1 DEF FilesInv
    <3> QED BY <3>1, <3>2
  <2>2. \A i \in DOMAIN manifest :
          pc' = "import" \/ (pc' = "download" /\ i < at') => dir'[manifest[i].name] # None
    BY <2>1, <1>0
  <2> QED BY <2>2 DEF FilesInv, AfterExport, ImportSteps, ImportFailures
<1>6. LoadedInv'
  BY DEF TypeOK, LoadedInv, Loaded, ExportSteps, ImportSteps, ImportFailures
<1>7. InUseInv'
  BY DEF TypeOK, InUseInv, Seen, SeenWithout, ExportSteps, ImportSteps, ImportFailures
<1>8. WaitingHasReason'
  BY DEF TypeOK, WaitingHasReason, InUseInv, Seen, ExportSteps, ImportSteps, ImportFailures
<1> QED BY <1>1, <1>2, <1>3, <1>4, <1>5, <1>6, <1>7, <1>8

LEMMA BeginImportKeeps == IInv /\ BeginImport => IInv'
<1> SUFFICES ASSUME IInv, BeginImport PROVE IInv'
  OBVIOUS
<1> USE DEF IInv, BeginImport, Moves, source, exported, target, importing
<1>0. imports \in Nat /\ MaxImports \in Nat /\ imports < MaxImports
      /\ Seen \in [Groups -> Versions \cup {None, Old, Some}]
  BY PromotionAssumption DEF TypeOK, CursorInv, Seen
<1>1. TypeOK'
  BY <1>0, PromotionAssumption DEF TypeOK, ExportSteps, ImportSteps, ImportFailures
<1>2. SourceInv'
  BY DEF TypeOK, SourceInv, LoggedLoads
<1>3. CursorInv'
  BY DEF TypeOK, CursorInv, AfterExport, ExportSteps, ImportSteps, ImportFailures
<1>4. ManifestInv'
  BY DEF TypeOK, ManifestInv
<1>5. FilesInv'
  <2>1. pc' = "upload" => \A i \in DOMAIN manifest : manifest[i].rowsLoaded > 0
    BY ManifestFacts
  <2> QED BY <2>1 DEF FilesInv, AfterExport, ExportSteps, ImportSteps, ImportFailures
<1>6. LoadedInv'
  BY DEF TypeOK, LoadedInv, Loaded, ExportSteps, ImportSteps, ImportFailures
<1>7. InUseInv'
  BY DEF TypeOK, InUseInv, Seen, SeenWithout, ExportSteps, ImportSteps, ImportFailures
<1>8. WaitingHasReason'
  BY DEF TypeOK, WaitingHasReason, InUseInv, Seen, ExportSteps, ImportSteps, ImportFailures
<1> QED BY <1>1, <1>2, <1>3, <1>4, <1>5, <1>6, <1>7, <1>8

LEMMA UploadKeeps == IInv /\ Upload => IInv'
<1> SUFFICES ASSUME IInv, Upload PROVE IInv'
  OBVIOUS
<1> USE DEF IInv, Upload, Moves, MovesThrough, source, exported, target, importing
<1>0. at \in DOMAIN manifest /\ dir[manifest[at].name] \in Versions
      /\ Len(manifest) \in Nat /\ DOMAIN manifest = 1 .. Len(manifest)
      /\ Len(manifest) <= Len(GroupOrder) /\ Len(GroupOrder) \in Nat /\ at \in Nat /\ manifest # <<>>
  BY ManifestFacts, FileOf DEF CursorInv, FilesInv, AfterExport, ImportSteps
<1>1. TypeOK'
  BY <1>0, VersionFacts DEF TypeOK, ExportSteps, ImportSteps, ImportFailures
<1>2. SourceInv'
  BY DEF TypeOK, SourceInv, LoggedLoads
<1>3. CursorInv'
  BY DEF TypeOK, CursorInv, AfterExport, ExportSteps, ImportSteps, ImportFailures
<1>4. ManifestInv'
  BY DEF TypeOK, ManifestInv
<1>5. FilesInv'
  BY DEF TypeOK, FilesInv, AfterExport, ExportSteps, ImportSteps, ImportFailures
<1>6. LoadedInv'
  BY DEF TypeOK, LoadedInv, Loaded, ExportSteps, ImportSteps, ImportFailures
<1>7. InUseInv'
  BY DEF TypeOK, InUseInv, Seen, SeenWithout, ExportSteps, ImportSteps, ImportFailures
<1>8. WaitingHasReason'
  BY DEF TypeOK, WaitingHasReason, InUseInv, Seen, ExportSteps, ImportSteps, ImportFailures
<1> QED BY <1>1, <1>2, <1>3, <1>4, <1>5, <1>6, <1>7, <1>8

LEMMA BeginLoadKeeps == IInv /\ BeginLoad => IInv'
<1> SUFFICES ASSUME IInv, BeginLoad PROVE IInv'
  OBVIOUS
<1> USE DEF IInv, BeginLoad, Moves, source, exported, target, importing
<1>1. TypeOK'
  BY DEF TypeOK, ExportSteps, ImportSteps, ImportFailures
<1>2. SourceInv'
  BY DEF TypeOK, SourceInv, LoggedLoads
<1>3. CursorInv'
  BY DEF TypeOK, CursorInv, AfterExport, ExportSteps, ImportSteps, ImportFailures
<1>4. ManifestInv'
  BY DEF TypeOK, ManifestInv
<1>5. FilesInv'
  BY DEF TypeOK, FilesInv, AfterExport, ExportSteps, ImportSteps, ImportFailures
<1>0. /\ at \in DOMAIN manifest /\ dir[manifest[at].name].group = manifest[at].group
      /\ manifest[at].group \in Groups /\ DOMAIN manifest = 1 .. Len(manifest) /\ at \in Nat
      /\ Len(manifest) \in Nat
  BY ManifestFacts, FileOf DEF CursorInv, FilesInv, AfterExport, ImportSteps
<1>6. LoadedInv'
  <2>1. CASE pc' = "importFailed"
    BY <2>1 DEF LoadedInv
  <2>2. CASE pc' = "loading"
    <3>1. targetRows' = [targetRows EXCEPT ![manifest[at].group] = None]
      BY <1>0, <2>2
    <3>2. ASSUME NEW i \in 1 .. at - 1, manifest[i].group # manifest[at].group PROVE Loaded(i)'
      <4>1. i \in DOMAIN manifest /\ Loaded(i)
        BY <1>0 DEF LoadedInv
      <4>2. manifest[i].group \in Groups
        BY <4>1, ManifestFacts
      <4> QED BY <4>1, <4>2, <3>1, <3>2 DEF Loaded, TypeOK
    <3> QED BY <2>2, <3>2 DEF LoadedInv
  <2> QED BY <2>1, <2>2
<1>7. InUseInv'
  <2>1. Quarter \in Nat /\ targetUse \in Nat
    BY PromotionAssumption DEF TypeOK
  <2> QED BY <2>1 DEF InUseInv, SeenWithout, ExportSteps, ImportSteps, ImportFailures
<1>8. WaitingHasReason'
  BY DEF TypeOK, WaitingHasReason, InUseInv, Seen, ExportSteps, ImportSteps, ImportFailures
<1> QED BY <1>1, <1>2, <1>3, <1>4, <1>5, <1>6, <1>7, <1>8

LEMMA EndLoadKeeps == IInv /\ EndLoad => IInv'
<1> SUFFICES ASSUME IInv, EndLoad PROVE IInv'
  OBVIOUS
<1> USE DEF IInv, EndLoad, Moves, source, exported, target, importing
<1> DEFINE v == dir[manifest[at].name]
           g == manifest[at].group
           ready == Quarter > targetUse /\ \A h \in Groups : Seen[h] # None => targetRows'[h] # None
<1>0. /\ at \in DOMAIN manifest /\ v \in Versions /\ v.group = g /\ v # None
      /\ g \in Groups /\ DOMAIN manifest = 1 .. Len(manifest) /\ at \in Nat
      /\ Len(manifest) \in Nat /\ Len(manifest) <= Len(GroupOrder) /\ Len(GroupOrder) \in Nat
      /\ manifest # <<>>
  BY ManifestFacts, FileOf, VersionFacts DEF CursorInv, FilesInv, AfterExport, ImportSteps
<1>r. /\ targetRows' = [targetRows EXCEPT ![g] = v]
      /\ targetUse' = IF ready THEN Quarter ELSE targetUse
      /\ mismatched' = IF TargetCount[v] = manifest[at].rowsLoaded THEN mismatched
                       ELSE mismatched \cup {g}
  BY <1>0
<1>m. \/ pc' = "load" /\ at' = at + 1 /\ at # Len(manifest)
      \/ pc' = "compare" /\ at' = 1 /\ at = Len(manifest)
  BY <1>0
<1> HIDE DEF v, g, ready, EndLoad
<1>1. TypeOK'
  <2>1. at' \in 1 .. Len(GroupOrder) /\ pc' \in ImportSteps
    BY <1>0, <1>m DEF ImportSteps
  <2>2. /\ targetRows' \in [Groups -> Versions \cup {None, Old, Some}]
        /\ targetUse' \in Befores \cup {Quarter} /\ mismatched' \subseteq Groups
    BY <1>0, <1>r DEF TypeOK
  <2> QED BY <2>1, <2>2 DEF EndLoad, TypeOK
<1> USE DEF EndLoad
<1>2. SourceInv'
  BY DEF TypeOK, SourceInv, LoggedLoads
<1>3. CursorInv'
  BY DEF TypeOK, CursorInv, AfterExport, ExportSteps, ImportSteps, ImportFailures
<1>4. ManifestInv'
  BY DEF TypeOK, ManifestInv
<1>5. FilesInv'
  BY DEF TypeOK, FilesInv, AfterExport, ExportSteps, ImportSteps, ImportFailures
<1>6. LoadedInv'
  <2>1. ASSUME NEW i \in 1 .. at PROVE Loaded(i)'
    <3>1. i \in DOMAIN manifest /\ manifest[i].group \in Groups
      BY <1>0, ManifestFacts
    <3>2. CASE manifest[i].group = g
      <4>1. dir[manifest[i].name] \in Versions /\ dir[manifest[i].name].group = g
        BY <3>1, <3>2, FileOf DEF FilesInv, AfterExport, ImportSteps
      <4>2. dir[manifest[i].name] = v /\ manifest[i].rowsLoaded = manifest[at].rowsLoaded
        BY <3>1, <3>2, <1>0 DEF ManifestInv, g, v
      <4> QED BY <4>1, <4>2, <3>1, <3>2, <1>0, <1>r DEF Loaded, TypeOK
    <3>3. CASE manifest[i].group # g
      <4>1. i \in 1 .. at - 1 /\ Loaded(i)
        BY <3>3, <1>0 DEF LoadedInv, g
      <4>2. targetRows'[manifest[i].group] = targetRows[manifest[i].group]
            /\ (manifest[i].group \in mismatched => manifest[i].group \in mismatched')
        BY <3>1, <3>3, <1>r DEF TypeOK
      <4> QED BY <4>1, <4>2 DEF Loaded
    <3> QED BY <3>2, <3>3
  <2> QED BY <2>1, <1>m, <1>0 DEF LoadedInv
<1>7. InUseInv'
  <2>1. Quarter \in Nat /\ targetUse \in Nat /\ Quarter >= targetUse
    BY PromotionAssumption DEF TypeOK, InUseInv
  <2>2. targetUse' = Quarter \/ \E h \in Groups : Seen'[h] # None /\ targetRows'[h] = None
    <3> SUFFICES ASSUME targetUse' # Quarter
                 PROVE  \E h \in Groups : Seen'[h] # None /\ targetRows'[h] = None
      OBVIOUS
    <3>1. targetUse' = targetUse /\ targetUse # Quarter /\ ~ready
      BY <1>r
    <3>2. Quarter > targetUse /\ Seen' = Seen
      BY <3>1, <2>1 DEF Seen
    <3> QED BY <3>1, <3>2 DEF ready
  <2> QED BY <2>2 DEF InUseInv, SeenWithout, ExportSteps, ImportSteps, ImportFailures
<1>8. WaitingHasReason'
  BY DEF TypeOK, WaitingHasReason, InUseInv, Seen, ExportSteps, ImportSteps, ImportFailures
<1> QED BY <1>1, <1>2, <1>3, <1>4, <1>5, <1>6, <1>7, <1>8

LEMMA CompareKeeps == IInv /\ Compare => IInv'
<1> SUFFICES ASSUME IInv, Compare PROVE IInv'
  OBVIOUS
<1> USE DEF IInv, Compare, Moves, source, exported, target, importing
<1>1. TypeOK'
  BY DEF TypeOK, ExportSteps, ImportSteps, ImportFailures
<1>2. SourceInv'
  BY DEF TypeOK, SourceInv, LoggedLoads
<1>3. CursorInv'
  BY DEF TypeOK, CursorInv, AfterExport, ExportSteps, ImportSteps, ImportFailures
<1>4. ManifestInv'
  BY DEF TypeOK, ManifestInv
<1>5. FilesInv'
  BY DEF TypeOK, FilesInv, AfterExport, ExportSteps, ImportSteps, ImportFailures
<1>6. LoadedInv'
  BY DEF TypeOK, LoadedInv, Loaded, ExportSteps, ImportSteps, ImportFailures
<1>7. InUseInv'
  BY DEF TypeOK, InUseInv, Seen, SeenWithout, ExportSteps, ImportSteps, ImportFailures
<1>8. WaitingHasReason'
  BY DEF TypeOK, WaitingHasReason, InUseInv, Seen, ExportSteps, ImportSteps, ImportFailures
<1> QED BY <1>1, <1>2, <1>3, <1>4, <1>5, <1>6, <1>7, <1>8

LEMMA GoBackKeeps == IInv /\ GoBack => IInv'
<1> SUFFICES ASSUME IInv, GoBack PROVE IInv'
  OBVIOUS
<1> USE DEF IInv, GoBack, Moves, source, exported, target, importing
<1>1. TypeOK'
  BY DEF TypeOK, ExportSteps, ImportSteps, ImportFailures
<1>2. SourceInv'
  BY DEF TypeOK, SourceInv, LoggedLoads
<1>3. CursorInv'
  BY DEF TypeOK, CursorInv, AfterExport, ExportSteps, ImportSteps, ImportFailures
<1>4. ManifestInv'
  BY DEF TypeOK, ManifestInv
<1>5. FilesInv'
  BY DEF TypeOK, FilesInv, AfterExport, ExportSteps, ImportSteps, ImportFailures
<1>6. LoadedInv'
  BY DEF TypeOK, LoadedInv, Loaded, ExportSteps, ImportSteps, ImportFailures
<1>7. InUseInv'
  BY DEF TypeOK, InUseInv, Seen, SeenWithout, ExportSteps, ImportSteps, ImportFailures
<1>8. WaitingHasReason'
  BY DEF TypeOK, WaitingHasReason, InUseInv, Seen, ExportSteps, ImportSteps, ImportFailures
<1> QED BY <1>1, <1>2, <1>3, <1>4, <1>5, <1>6, <1>7, <1>8

LEMMA ConfirmKeeps == IInv /\ Confirm => IInv'
<1> SUFFICES ASSUME IInv, Confirm PROVE IInv'
  OBVIOUS
<1> USE DEF IInv, Confirm, Moves, source, exported, target, importing
<1>1. TypeOK'
  BY DEF TypeOK, ExportSteps, ImportSteps, ImportFailures
<1>2. SourceInv'
  BY DEF TypeOK, SourceInv, LoggedLoads
<1>3. CursorInv'
  BY DEF TypeOK, CursorInv, AfterExport, ExportSteps, ImportSteps, ImportFailures
<1>4. ManifestInv'
  BY DEF TypeOK, ManifestInv
<1>5. FilesInv'
  BY DEF TypeOK, FilesInv, AfterExport, ExportSteps, ImportSteps, ImportFailures
<1>6. LoadedInv'
  BY DEF TypeOK, LoadedInv, Loaded, ExportSteps, ImportSteps, ImportFailures
<1>7. InUseInv'
  BY DEF TypeOK, InUseInv, Seen, SeenWithout, ExportSteps, ImportSteps, ImportFailures
<1>8. WaitingHasReason'
  BY DEF TypeOK, WaitingHasReason, InUseInv, Seen, ExportSteps, ImportSteps, ImportFailures
<1> QED BY <1>1, <1>2, <1>3, <1>4, <1>5, <1>6, <1>7, <1>8

LEMMA FailKeeps == IInv /\ Fail => IInv'
<1> SUFFICES ASSUME IInv, Fail PROVE IInv'
  OBVIOUS
<1> USE DEF IInv, Fail, source, exported, target, importing
<1>1. TypeOK'
  BY DEF TypeOK, ExportSteps, ImportSteps, ImportFailures
<1>2. SourceInv'
  BY DEF TypeOK, SourceInv, LoggedLoads
<1>3. CursorInv'
  BY DEF TypeOK, CursorInv, AfterExport, ExportSteps, ImportSteps, ImportFailures
<1>4. ManifestInv'
  BY DEF TypeOK, ManifestInv, ExportSteps, ImportSteps
<1>5. FilesInv'
  BY DEF TypeOK, FilesInv, AfterExport, ExportSteps, ImportSteps, ImportFailures
<1>6. LoadedInv'
  BY DEF TypeOK, LoadedInv, Loaded, ExportSteps, ImportSteps, ImportFailures
<1>7. InUseInv'
  BY DEF TypeOK, InUseInv, Seen, SeenWithout, ExportSteps, ImportSteps, ImportFailures
<1>8. WaitingHasReason'
  BY DEF TypeOK, WaitingHasReason, InUseInv, Seen, ExportSteps, ImportSteps, ImportFailures
<1> QED BY <1>1, <1>2, <1>3, <1>4, <1>5, <1>6, <1>7, <1>8

LEMMA ImportAgainKeeps == IInv /\ ImportAgain => IInv'
<1> SUFFICES ASSUME IInv, ImportAgain PROVE IInv'
  OBVIOUS
<1> USE DEF IInv, ImportAgain, source, exported, target, importing
<1>1. TypeOK'
  BY DEF TypeOK, ExportSteps, ImportSteps, ImportFailures
<1>2. SourceInv'
  BY DEF TypeOK, SourceInv, LoggedLoads
<1>3. CursorInv'
  BY DEF TypeOK, CursorInv, AfterExport, ExportSteps, ImportSteps, ImportFailures
<1>4. ManifestInv'
  BY DEF TypeOK, ManifestInv, ImportFailures
<1>5. FilesInv'
  BY DEF TypeOK, FilesInv, AfterExport, ExportSteps, ImportSteps, ImportFailures
<1>6. LoadedInv'
  BY DEF TypeOK, LoadedInv, Loaded, ExportSteps, ImportSteps, ImportFailures
<1>7. InUseInv'
  BY DEF TypeOK, InUseInv, Seen, SeenWithout, ExportSteps, ImportSteps, ImportFailures
<1>8. WaitingHasReason'
  BY DEF TypeOK, WaitingHasReason, InUseInv, Seen, ExportSteps, ImportSteps, ImportFailures
<1> QED BY <1>1, <1>2, <1>3, <1>4, <1>5, <1>6, <1>7, <1>8

LEMMA Inductive == IInv /\ [Next]_vars => IInv'
<1> SUFFICES ASSUME IInv, [Next]_vars PROVE IInv'
  OBVIOUS
<1>1. CASE Pipeline
  BY <1>1, ExportInUseKeeps, ExportLoadsKeeps, ExportCountKeeps, DownloadKeeps, BeginImportKeeps,
     UploadKeeps, BeginLoadKeeps, EndLoadKeeps, CompareKeeps, GoBackKeeps, ConfirmKeeps DEF Pipeline
<1>2. CASE SourceChange \/ Fail \/ ImportAgain
  BY <1>2, SourceChangeKeeps, FailKeeps, ImportAgainKeeps
<1>3. CASE UNCHANGED vars
  BY <1>3 DEF vars, IInv, TypeOK, SourceInv, LoggedLoads, CursorInv, ManifestInv, FilesInv, LoadedInv,
              Loaded, InUseInv, WaitingHasReason, Seen, SeenWithout
<1> QED BY <1>1, <1>2, <1>3 DEF Next

------------------------------------------------------------------------------
(* Theorems *)

\* Every step of the pipeline, and whatever is done at the source meanwhile,
\* keeps each variable to its kind.
THEOREM TypeCorrect == Spec => []TypeOK
<1>1. IInv => TypeOK
  BY DEF IInv
<1> QED BY <1>1, InitHolds, Inductive, PTL DEF Spec

\* A promotion that says it succeeded leaves the target on the quarter, and of
\* each group export found rows of it has those of the file that was downloaded,
\* as many as export counted: what the row checks of both jobs come to, however
\* often the source changed and whichever loads failed and were run again.
PromotedAsCounted ==
  pc = "promoted" =>
    /\ targetUse = Quarter
    /\ \A g \in Groups : checked[g] # None =>
         /\ targetRows[g] \in Versions /\ targetRows[g].group = g
         /\ TargetCount[targetRows[g]] = CountOf(SourceCount, checked[g])
         /\ checked[g] \in Versions /\ checked[g].group = g

LEMMA ConfirmedAsCounted ==
  ASSUME IInv, Confirm, pc' = "promoted"
  PROVE  PromotedAsCounted'
<1>1. pc = "confirm" /\ targetUse = Quarter /\ UNCHANGED <<targetUse, targetRows, checked>>
  BY DEF Confirm, Moves, target, exported
<1>2. TypeOK /\ SourceInv /\ ManifestInv /\ FilesInv /\ LoadedInv /\ mismatched = {}
  BY <1>1 DEF IInv, LoadedInv
<1>3. ASSUME NEW g \in Groups, checked[g] # None
      PROVE  /\ targetRows[g] \in Versions /\ targetRows[g].group = g
             /\ TargetCount[targetRows[g]] = CountOf(SourceCount, checked[g])
             /\ checked[g] \in Versions /\ checked[g].group = g
  <2>1. PICK i \in DOMAIN manifest : manifest[i].group = g
    BY <1>1, <1>2, <1>3 DEF ManifestInv
  <2>2. /\ dir[manifest[i].name] \in Versions /\ dir[manifest[i].name].group = g
        /\ manifest[i].rowsLoaded > 0
    BY <1>1, <1>2, <2>1, FileOf DEF FilesInv, AfterExport, ImportSteps
  <2>3. targetRows[g] = dir[manifest[i].name]
        /\ TargetCount[targetRows[g]] = manifest[i].rowsLoaded
    BY <1>1, <1>2, <2>1 DEF LoadedInv, Loaded
  <2>4. CountOf(SourceCount, checked[g]) = manifest[i].rowsLoaded
    BY <1>1, <1>2, <2>1 DEF ManifestInv
  <2>5. manifest[i].rowsLoaded > 1
    <3>1. loads[g] \in LogRow /\ loads[g].rowsLoaded = manifest[i].rowsLoaded
          /\ loads[g].rowsLoaded \in {0, SourceCount[loads[g].version]}
      BY <1>2, <2>1, <1>3 DEF ManifestInv, SourceInv, LoggedLoads, TypeOK
    <3> QED BY <3>1, <2>2, VersionFacts DEF LogRow
  <2>6. checked[g] \in Versions /\ checked[g] \notin {None, Old, Some}
    BY <2>4, <2>5, <1>2, <1>3 DEF CountOf, TypeOK
  <2>7. checked[g].group = g
    BY <2>6, <1>2, <1>3 DEF ManifestInv
  <2> QED BY <2>2, <2>3, <2>4, <2>6, <2>7
<1> QED BY <1>1, <1>3 DEF PromotedAsCounted

\* Only the last check of importQuarter says so, and nothing changes afterwards.
LEMMA OnlyConfirmed ==
  ASSUME IInv, [Next]_vars, pc' = "promoted"
  PROVE  Confirm \/ UNCHANGED vars
BY DEF Next, Pipeline, ExportInUse, ExportLoads, ExportCount, Download, BeginImport, Upload, BeginLoad,
       EndLoad, Compare, GoBack, SourceChange, Fail, ImportAgain, Moves, MovesThrough, ExportSteps,
       ImportSteps, ImportFailures

\* The counts are what promotion ties a group's rows to, for any releases.
THEOREM PromotedRowsAreCounted == Spec => []PromotedAsCounted
<1>1. Init => PromotedAsCounted
  BY DEF Init, PromotedAsCounted
<1>2. IInv /\ PromotedAsCounted /\ [Next]_vars => PromotedAsCounted'
  <2> SUFFICES ASSUME IInv, PromotedAsCounted, [Next]_vars PROVE PromotedAsCounted'
    OBVIOUS
  <2>1. CASE pc' # "promoted"
    BY <2>1 DEF PromotedAsCounted
  <2>2. CASE pc' = "promoted"
    <3>1. CASE Confirm
      BY <2>2, <3>1, ConfirmedAsCounted
    <3>2. CASE UNCHANGED vars
      BY <3>2 DEF vars, PromotedAsCounted
    <3> QED BY <2>2, <3>1, <3>2, OnlyConfirmed
  <2> QED BY <2>1, <2>2
<1> QED BY <1>1, <1>2, InitHolds, Inductive, PTL DEF Spec

\* Where no two versions of a group's files load the same number of rows, with
\* the source's release or the target's, what a promotion leaves in use is the
\* very rows that were there when export counted: the row counts of its two jobs
\* are all that says so.
THEOREM PromotedWasChecked ==
  ASSUME \A v, w \in Versions : v.group = w.group /\ TargetCount[v] = SourceCount[w] => v = w
  PROVE  Spec => []PromotedIsChecked
<1>1. TypeOK /\ PromotedAsCounted => PromotedIsChecked
  <2> SUFFICES ASSUME TypeOK, PromotedAsCounted, pc = "promoted", NEW g \in Groups, checked[g] # None
               PROVE  targetRows[g] = checked[g]
    BY DEF PromotedIsChecked, PromotedAsCounted
  <2>1. /\ targetRows[g] \in Versions /\ targetRows[g].group = g
        /\ TargetCount[targetRows[g]] = CountOf(SourceCount, checked[g])
        /\ checked[g] \in Versions /\ checked[g].group = g
    BY DEF PromotedAsCounted
  <2>2. CountOf(SourceCount, checked[g]) = SourceCount[checked[g]]
    BY <2>1, PromotionAssumption DEF CountOf
  <2> QED BY <2>1, <2>2
<1> QED BY <1>1, TypeCorrect, PromotedRowsAreCounted, PTL

\* However import fails and is run again, a promotion that a different number of
\* rows ends, on a target that used another quarter, leaves what screening finds
\* there as it was: switchedBack undoes the switch the loads made, and the loads
\* touch no other dataset.
THEOREM MismatchLeavesInUse == Spec => []MismatchGoesBack
<1>1. IInv => MismatchGoesBack
  BY SeenElsewhere DEF IInv, InUseInv, MismatchGoesBack
<1> QED BY <1>1, InitHolds, Inductive, PTL DEF Spec

\* A promotion is left waiting only for a group in use the quarter has no rows of.
THEOREM WaitsForSomething == Spec => []WaitingHasReason
<1>1. IInv => WaitingHasReason
  BY DEF IInv
<1> QED BY <1>1, InitHolds, Inductive, PTL DEF Spec

=============================================================================

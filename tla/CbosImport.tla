------------------------------ MODULE CbosImport ------------------------------
(***************************************************************************)
(* Case boundaries from CBOS, the back office. CBOS keeps every version of *)
(* a boundary and publishes an event when it saves one; a subscriber takes *)
(* the events one at a time and imports that case's boundaries again, and  *)
(* an admin's page imports every case's (app/cbos). An import lists the    *)
(* files through the Python function, fetches each, and merges what it got *)
(* into case_boundary, where a row is a case and a file name; the pages    *)
(* then pick each case's newest row.                                       *)
(*                                                                         *)
(* A version is known by what the listing says of it and by what its first *)
(* feature is stamped with, which only its fetch brings: a name and a date *)
(* that stand in where the listing's name is missing, and for its date. A  *)
(* geometry is left out but for whether it can be stored, and so are a     *)
(* case's stage, which only rides along, and a name that is blank.         *)
(***************************************************************************)
EXTENDS Naturals, Sequences, FiniteSets, SequencesExt

CONSTANTS
  Cases,
  Documents,     \* numbers, in the order the listing has them
  CaseOf,        \* the case each document is of
  FileNames,     \* the names a document's versions may have
  Titles,        \* what a case may be called: numbers, in their order
  BatchSize,     \* DEFAULT_LOAD_BATCH_SIZE
  MaxDelivery,   \* max_delivery_count of the subscription
  Uploads,       \* what may be uploaded in CBOS: [document, name, stamp, good]
  MaxSaves,    \* bound: changes in CBOS, and other documents' events
  MaxImports,    \* bound: imports an admin begins
  CbosMayFail,   \* may a step of an import fail?
  Missing        \* no such thing: a name, a date or a case

\* The properties of a version's first feature, where it has them.
Stamp == [name : FileNames \cup {Missing}, date : Nat \cup {Missing}]

\* The listing has its documents in some order, and no file is called what one is for
\* its document alone.
ASSUME CbosAssumption ==
  /\ Missing \notin Cases \cup FileNames
  /\ Documents \subseteq Nat /\ FileNames \cap Documents = {}
  /\ CaseOf \in [Documents -> Cases] /\ Titles # {}
  /\ Uploads \subseteq [document : Documents, name : FileNames \cup {Missing}, stamp : Stamp,
                         good : BOOLEAN]
  /\ BatchSize \in Nat \ {0} /\ MaxDelivery \in Nat \ {0}
  /\ MaxSaves \in Nat /\ MaxImports \in Nat

VARIABLES
  cbos,     \* the files CBOS lists
  deleted,  \* the documents deleted there
  title,    \* each case's title there
  saves,    \* how much has changed there
  events,   \* the subscription's messages
  table,    \* case_boundary: <<case, name>> |-> [file, title]
  imp,      \* the subscriber's import and the admin's
  begun,    \* how many the admin has begun
  excused   \* the cases something happened to that no later import has made up for

cbosVars == <<cbos, deleted, title, saves, events, table, imp, begun, excused>>
inCbos == <<cbos, deleted, title, saves>>

File == [document : Documents, version : 1..MaxSaves, name : FileNames \cup {Missing},
         at : 0..MaxSaves, stamp : Stamp, good : BOOLEAN]
Case(f) == CaseOf[f.document]

\* A message is of a case's boundary, or of any other document.
Event == [case : Cases \cup {Missing}, status : {"waiting", "locked", "done", "dead"},
          tries : 0..MaxDelivery]

Importers == {"subscriber", "admin"}

\* An import: where it is, the cases it is of and the event that asked for it; the
\* files it listed, each with its name, and the cases' titles then; those it has
\* yet to fetch, the rows it is to load in the order they came, and what failed.
\* current: since it listed, nothing changed in CBOS and nobody else has loaded;
\* crossed: somebody else has.
Idle == [pc |-> "idle", scope |-> {}, event |-> 0, named |-> <<>>, titles |-> <<>>, todo |-> {},
         got |-> <<>>, failures |-> {}, current |-> FALSE, crossed |-> FALSE]

CbosInit ==
  /\ cbos = {} /\ deleted = {} /\ title \in [Cases -> {CHOOSE t \in Titles : TRUE}] /\ saves = 0
  /\ events = <<>> /\ table = <<>>
  /\ imp = [i \in Importers |-> Idle] /\ begun = 0
  /\ excused = {}

-----------------------------------------------------------------------------
(* What happens in CBOS *)

Changed(c) == imp' = [i \in Importers |-> [imp[i] EXCEPT !.current = @ /\ c \notin imp[i].scope]]

Publish(c) == events' = Append(events, [case |-> c, status |-> "waiting", tries |-> 0])

\* Its job converts a ZIP, of the last one's name or another: a version, and an
\* event. Without a .prj file the coordinates are not longitude and latitude.
AddVersion(upload, at) ==
  LET d == upload.document
      versions == Cardinality({f \in cbos : f.document = d})
  IN
  /\ saves < MaxSaves /\ d \notin deleted
  /\ cbos' = cbos \cup {[document |-> d, version |-> versions + 1, name |-> upload.name, at |-> at,
                         stamp |-> upload.stamp, good |-> upload.good]}
  /\ saves' = saves + 1
  /\ Publish(CaseOf[d]) /\ Changed(CaseOf[d])
  /\ UNCHANGED <<deleted, title, table, begun, excused>>

\* No event says so: the subscription passes only Create and Update.
DeleteDocument(d) ==
  /\ saves < MaxSaves /\ \E f \in cbos : f.document = d
  /\ cbos' = {f \in cbos : f.document # d} /\ deleted' = deleted \cup {d}
  /\ saves' = saves + 1
  /\ excused' = excused \cup {CaseOf[d]} /\ Changed(CaseOf[d])
  /\ UNCHANGED <<title, events, table, begun>>

Rename(c, t) ==
  /\ saves < MaxSaves /\ t # title[c]
  /\ title' = [title EXCEPT ![c] = t] /\ saves' = saves + 1 /\ Changed(c)
  /\ UNCHANGED <<cbos, deleted, events, table, begun, excused>>

PublishOther ==
  /\ saves < MaxSaves
  /\ saves' = saves + 1 /\ Publish(Missing)
  /\ UNCHANGED <<cbos, deleted, title, table, imp, begun, excused>>

-----------------------------------------------------------------------------
(* An import *)

\* Newest first, as distinctFileNames sorts the listing.
Newer(f, g) ==
  \/ f.at > g.at
  \/ f.at = g.at /\ f.version > g.version
  \/ f.at = g.at /\ f.version = g.version /\ f.document < g.document

\* The newest of a name keeps it. An older one is named for its version as well, and
\* for its document too where a newer one of the name was named for that version.
distinctFileNames(files) ==
  LET Taken(f) == \E g \in files : Case(g) = Case(f) /\ g.name = f.name /\ Newer(g, f)
      VersionTaken(f) ==
        \E g \in files : /\ Case(g) = Case(f) /\ g.name = f.name /\ g.version = f.version
                        /\ Newer(g, f) /\ Taken(g)
  IN [f \in {f \in files : f.name # Missing} |->
        IF ~Taken(f) THEN <<f.name>>
        ELSE IF ~VersionTaken(f) THEN <<f.name, f.version>>
        ELSE <<f.name, f.version, f.document>>]

\* A version the listing has no name for is called what it is stamped with, which
\* nothing tells apart from the listing's names, or for its document alone.
boundaryId(named, f) ==
  <<Case(f), IF f.name # Missing THEN named[f]
             ELSE IF f.stamp.name # Missing THEN <<f.stamp.name>> ELSE <<f.document>>>>

\* The page's date of a row: the stamped one, whenever CBOS converted the file.
receivedDate(f) == IF f.stamp.date # Missing THEN f.stamp.date ELSE f.at

toCaseBoundaryFromCbos(i, f) ==
  [id |-> boundaryId(imp[i].named, f), row |-> [file |-> f, title |-> imp[i].titles[Case(f)]]]

\* The case an event is about, if it is about a boundary.
boundaryCaseReference(e) == events[e].case

Settled(e, status) == events' = [events EXCEPT ![e].status = status]

\* The message goes back to be tried again, and at last to the dead-letter queue.
Redelivered(e) ==
  LET tries == events[e].tries + 1
  IN /\ events' = [events EXCEPT ![e].tries = tries,
                     ![e].status = IF tries >= MaxDelivery THEN "dead" ELSE "waiting"]
     /\ excused' = IF tries >= MaxDelivery THEN excused \cup {events[e].case} ELSE excused

\* buildCbosEventHandler, one event at a time.
TakeEvent(e) ==
  LET c == boundaryCaseReference(e)
  IN /\ imp["subscriber"].pc = "idle"
     /\ e \in DOMAIN events /\ events[e].status = "waiting"
     /\ IF c = Missing THEN Settled(e, "done") /\ UNCHANGED imp
        ELSE /\ Settled(e, "locked")
             /\ imp' = [imp EXCEPT !["subscriber"] =
                          [Idle EXCEPT !.pc = "list", !.scope = {c}, !.event = e]]
     /\ UNCHANGED <<inCbos, table, begun, excused>>

RunImportFromCbos ==
  /\ imp["admin"].pc = "idle" /\ begun < MaxImports
  /\ begun' = begun + 1
  /\ imp' = [imp EXCEPT !["admin"] = [Idle EXCEPT !.pc = "list", !.scope = Cases]]
  /\ UNCHANGED <<inCbos, events, table, excused>>

\* listCbosBoundaryFiles; the function asks CBOS's database.
List(i) ==
  LET files == {f \in cbos : Case(f) \in imp[i].scope}
  IN /\ imp[i].pc = "list"
     /\ imp' = [imp EXCEPT ![i] =
          [@ EXCEPT !.pc = IF files = {} THEN "end" ELSE "fetch", !.named = distinctFileNames(files),
             !.titles = title, !.todo = files, !.current = TRUE, !.crossed = FALSE]]
     /\ UNCHANGED <<inCbos, events, table, begun, excused>>

FetchMutant(i, f) ==
  /\ imp[i].pc = "fetch" /\ f \in imp[i].todo
  /\ \/ /\ f.good /\ f \in cbos
        /\ imp' = [imp EXCEPT ![i] =
             [@ EXCEPT !.got = Append(@, toCaseBoundaryFromCbos(i, f)), !.todo = @ \ {f},
                !.pc = IF imp[i].todo = {f} THEN "load" ELSE @]]
     \/ ~f.good /\ UNCHANGED imp
  /\ UNCHANGED <<inCbos, events, table, begun, excused>>

\* What an import is once a file is fetched: got and failures are as they are then.
FetchedTo(m, f, got, failures) ==
  [m EXCEPT !.got = got, !.failures = failures, !.todo = m.todo \ {f},
     !.pc = IF m.todo # {f} THEN m.pc ELSE IF got = <<>> THEN "end" ELSE "load"]

\* One file's answer comes, in any order, or does not, or cannot be stored.
Fetch(i, f) ==
  LET m == imp[i]
  IN /\ m.pc = "fetch" /\ f \in m.todo
     /\ \/ /\ f.good /\ f \in cbos
           /\ imp' = [imp EXCEPT ![i] =
                FetchedTo(m, f, Append(m.got, toCaseBoundaryFromCbos(i, f)), m.failures)]
        \/ /\ ~f.good \/ f \notin cbos \/ CbosMayFail
           /\ imp' = [imp EXCEPT ![i] = FetchedTo(m, f, m.got, m.failures \cup {f})]
     /\ UNCHANGED <<inCbos, events, table, begun, excused>>

\* s.slice, up to n or to its end.
Slice(s, m, n) == SubSeq(s, m, IF n < Len(s) THEN n ELSE Len(s))

\* One MERGE of loadCaseBoundaries: of rows with one id the last is kept.
Merged(rows, batch) ==
  LET Of(id) == {k \in DOMAIN batch : batch[k].id = id}
      LastOf(id) == CHOOSE k \in Of(id) : \A l \in Of(id) : l <= k
  IN [id \in DOMAIN rows \cup {b.id : b \in ToSet(batch)} |->
        IF Of(id) = {} THEN rows[id] ELSE batch[LastOf(id)].row]

Load(i) ==
  LET batch == Slice(imp[i].got, 1, BatchSize)
      rest == Slice(imp[i].got, BatchSize + 1, Len(imp[i].got))
  IN /\ imp[i].pc = "load"
     /\ table' = Merged(table, batch)
     /\ imp' = [j \in Importers |->
          IF j = i THEN [imp[i] EXCEPT !.got = rest, !.pc = IF rest = <<>> THEN "end" ELSE @]
          ELSE [imp[j] EXCEPT !.current = FALSE, !.crossed = TRUE]]
     /\ excused' = IF imp[i].crossed THEN excused \cup {b.id[1] : b \in ToSet(batch)} ELSE excused
     /\ UNCHANGED <<inCbos, events, begun>>

\* The import's result: the message is completed, or its lock was lost meanwhile.
End(i) ==
  LET missed == {f \in imp[i].failures : f.good}
      lost == {Case(f) : f \in missed}
  IN /\ imp[i].pc = "end"
     /\ imp' = [imp EXCEPT ![i] = Idle]
     /\ \/ /\ IF i = "subscriber" THEN Settled(imp[i].event, "done") ELSE UNCHANGED events
           /\ excused' = IF imp[i].current /\ missed = {} THEN excused \ imp[i].scope
                         ELSE excused \cup lost
        \/ /\ i = "subscriber" /\ CbosMayFail
           /\ Redelivered(imp[i].event)
     /\ UNCHANGED <<inCbos, table, begun>>

ImportFailsMutant(i) ==
  /\ CbosMayFail /\ imp[i].pc # "idle"
  /\ imp' = [imp EXCEPT ![i] = Idle]
  /\ IF i = "subscriber" THEN Settled(imp[i].event, "done") ELSE UNCHANGED events
  /\ UNCHANGED <<inCbos, table, begun, excused>>

\* The files cannot be listed, a MERGE fails, or the app stops: it is as far as it got.
ImportFails(i) ==
  /\ CbosMayFail /\ imp[i].pc # "idle"
  /\ imp' = [imp EXCEPT ![i] = Idle]
  /\ IF i = "subscriber" THEN Redelivered(imp[i].event) ELSE UNCHANGED <<events, excused>>
  /\ UNCHANGED <<inCbos, table, begun>>

ImportStep(i) ==
  \/ List(i) \/ Load(i) \/ End(i) \/ ImportFails(i)
  \/ \E f \in imp[i].todo : Fetch(i, f)

CbosNext ==
  \/ \E upload \in Uploads, at \in {saves, saves + 1} : AddVersion(upload, at)
  \/ \E d \in Documents : DeleteDocument(d)
  \/ \E c \in Cases, t \in Titles : Rename(c, t)
  \/ PublishOther
  \/ \E e \in DOMAIN events : TakeEvent(e)
  \/ RunImportFromCbos
  \/ \E i \in Importers : ImportStep(i)

\* The subscriber takes what waits and its import goes on: every call it makes has
\* a timeout. Nothing makes an admin import, or CBOS change.
CbosFairness ==
  WF_cbosVars(\/ \E e \in DOMAIN events : TakeEvent(e)
              \/ List("subscriber") \/ Load("subscriber") \/ End("subscriber")
              \/ \E f \in imp["subscriber"].todo : Fetch("subscriber", f))

CbosSpec == CbosInit /\ [][CbosNext]_cbosVars /\ CbosFairness

-----------------------------------------------------------------------------
(* Properties *)

FilesOf(c) == {f \in cbos : Case(f) = c}

\* The good versions of its case that an import merges into one row with a version:
\* itself, and any other only if one of the two came without a name.
Sharing(named, f) ==
  {g \in FilesOf(Case(f)) : /\ g.good /\ boundaryId(named, g) = boundaryId(named, f)
                            /\ g = f \/ Missing \in {g.name, f.name}}

\* No import of the case is under way, and no event of it waits.
AtRest(c) ==
  /\ \A i \in Importers : c \notin imp[i].scope
  /\ \A e \in DOMAIN events : events[e].case = c => events[e].status \notin {"waiting", "locked"}

\* Every variable has a value of its kind, and a row is of its case.
CbosTypeOK ==
  /\ cbos \subseteq File /\ deleted \subseteq Documents
  /\ title \in [Cases -> Titles] /\ saves \in 0..MaxSaves
  /\ events \in Seq(Event) /\ excused \subseteq Cases /\ begun \in 0..MaxImports
  /\ \A id \in DOMAIN table : table[id].file \in File /\ Case(table[id].file) = id[1]
  /\ \A i \in Importers :
       /\ imp[i].pc \in {"idle", "list", "fetch", "load", "end"}
       /\ imp[i].todo \cup imp[i].failures \subseteq File
       /\ imp[i].pc = "load" => imp[i].todo = {} /\ imp[i].got # <<>>

\* The subscriber "keeps case boundaries in step with CBOS": once a case is at rest,
\* every version of it that can be stored is in the row its present name gives it, and
\* the newest of a name in the row of that name - whatever was delivered twice, failed
\* and was tried again, or came while an import was under way. Named versions never
\* take each other's rows. One without a name may take a named one's, where it is
\* stamped with its name, or lose its own to it, whichever an import loads last; and
\* versions without names share one. Excused is what no event makes up for: a dead
\* letter, a deletion, a file that could not be fetched, and an import whose listing
\* another's rows had overtaken.
KeptInStep ==
  \A c \in Cases : AtRest(c) /\ c \notin excused =>
    LET named == distinctFileNames(FilesOf(c))
    IN \A f \in FilesOf(c) : f.good =>
         /\ boundaryId(named, f) \in DOMAIN table
         /\ table[boundaryId(named, f)].file \in Sharing(named, f)
         /\ f.name # Missing /\ (\A g \in FilesOf(c) : g.name = f.name => ~Newer(g, f))
              => boundaryId(named, f) = <<c, <<f.name>>>>

\* An event is dealt with, one way or the other: its boundaries imported, or its
\* message dead.
EveryEventEnds ==
  \A e \in 1..MaxSaves :
    (e \in DOMAIN events /\ events[e].status = "waiting")
      ~> (e \in DOMAIN events /\ events[e].status \in {"done", "dead"})

=============================================================================

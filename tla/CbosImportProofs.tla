---------------------------- MODULE CbosImportProofs ----------------------------
(***************************************************************************)
(* Theorems about CbosImport, for any cases, documents and uploads, and    *)
(* any number of imports, saves and redeliveries: its variables have their *)
(* types, and a case at rest is in step with CBOS.                         *)
(***************************************************************************)
EXTENDS CaseSearch, FiniteSetTheorems, SequenceTheorems, WellFoundedInduction, TLAPS

------------------------------------------------------------------------------
(* The names of a case's files *)

LEMMA FileFields ==
  ASSUME NEW f \in File
  PROVE  /\ f = [document |-> f.document, version |-> f.version, name |-> f.name, at |-> f.at,
                 stamp |-> f.stamp, good |-> f.good]
         /\ f.document \in Documents /\ f.document \in Nat /\ f.at \in Nat
         /\ f.version \in Nat /\ f.version \in 1 .. MaxSaves
         /\ f.name \in FileNames \cup {Missing} /\ f.good \in BOOLEAN
         /\ f.stamp.name \in FileNames \cup {Missing} /\ receivedDate(f) \in Nat
         /\ Case(f) \in Cases
<1>1. /\ f = [document |-> f.document, version |-> f.version, name |-> f.name, at |-> f.at,
              stamp |-> f.stamp, good |-> f.good]
      /\ f.document \in Documents /\ f.version \in 1 .. MaxSaves /\ f.name \in FileNames \cup {Missing}
      /\ f.at \in 0 .. MaxSaves /\ f.good \in BOOLEAN /\ f.stamp \in Stamp
  BY DEF File
<1>2. MaxSaves \in Nat /\ f.document \in Nat /\ CaseOf[f.document] \in Cases
  BY <1>1, CbosAssumption
<1>3. f.stamp.name \in FileNames \cup {Missing} /\ f.stamp.date \in Nat \cup {Missing}
  BY <1>1 DEF Stamp
<1>4. receivedDate(f) \in Nat
  BY <1>1, <1>2, <1>3 DEF receivedDate
<1> QED BY <1>1, <1>2, <1>3, <1>4 DEF Case

\* A case's names are by its own files, whichever others are listed with them.
LEMMA NamesAreLocal ==
  ASSUME NEW F, NEW G, NEW c, \A f : Case(f) = c => (f \in F <=> f \in G)
  PROVE  \A f : Case(f) = c =>
           /\ f \in DOMAIN distinctFileNames(F) <=> f \in DOMAIN distinctFileNames(G)
           /\ f \in DOMAIN distinctFileNames(F) => distinctFileNames(F)[f] = distinctFileNames(G)[f]
<1> DEFINE Taken(files, f) == \E g \in files : Case(g) = Case(f) /\ g.name = f.name /\ Newer(g, f)
           VersionTaken(files, f) ==
             \E g \in files : /\ Case(g) = Case(f) /\ g.name = f.name /\ g.version = f.version
                              /\ Newer(g, f) /\ Taken(files, g)
<1>1. \A f : Case(f) = c => (Taken(F, f) <=> Taken(G, f))
  OBVIOUS
<1>2. \A f : Case(f) = c => (VersionTaken(F, f) <=> VersionTaken(G, f))
  BY <1>1
<1> QED BY <1>1, <1>2 DEF distinctFileNames

LEMMA NamesAre ==
  ASSUME NEW F, F \subseteq File
  PROVE  /\ DOMAIN distinctFileNames(F) = {f \in F : f.name # Missing}
         /\ distinctFileNames(F) \in [{f \in F : f.name # Missing} -> RowNames]
<1>1. \A f \in F : f.name # Missing =>
        f.name \in FileNames /\ f.version \in 1 .. MaxSaves /\ f.document \in Documents
  BY FileFields
<1>2. \A f \in F : f.name # Missing =>
        /\ <<f.name>> \in RowNames /\ <<f.name, f.version>> \in RowNames
        /\ <<f.name, f.version, f.document>> \in RowNames
  BY <1>1 DEF RowNames
<1> QED BY <1>2 DEF distinctFileNames

\* Files are told apart by their document and version.
Apart(F) == \A f, g \in F : f.document = g.document /\ f.version = g.version => f = g

LEMMA OneIsNewer ==
  ASSUME NEW F, F \subseteq File, Apart(F), NEW f \in F, NEW g \in F, f # g
  PROVE  Newer(f, g) \/ Newer(g, f)
<1>1. /\ f.document \in Nat /\ f.version \in Nat /\ f.at \in Nat
      /\ g.document \in Nat /\ g.version \in Nat /\ g.at \in Nat
  BY FileFields
<1>2. f.document # g.document \/ f.version # g.version
  BY DEF Apart
<1> QED BY <1>1, <1>2 DEF Newer

\* No two files of a case that have names are called the same.
LEMMA NamesApart ==
  ASSUME NEW F, F \subseteq File, Apart(F),
         NEW f \in DOMAIN distinctFileNames(F), NEW g \in DOMAIN distinctFileNames(F),
         Case(f) = Case(g), distinctFileNames(F)[f] = distinctFileNames(F)[g]
  PROVE  f = g
<1> DEFINE Taken(h) == \E k \in F : Case(k) = Case(h) /\ k.name = h.name /\ Newer(k, h)
           VersionTaken(h) ==
             \E k \in F : /\ Case(k) = Case(h) /\ k.name = h.name /\ k.version = h.version
                          /\ Newer(k, h) /\ Taken(k)
           Name(h) == IF ~Taken(h) THEN <<h.name>>
                      ELSE IF ~VersionTaken(h) THEN <<h.name, h.version>>
                      ELSE <<h.name, h.version, h.document>>
<1>1. f \in F /\ g \in F /\ distinctFileNames(F)[f] = Name(f) /\ distinctFileNames(F)[g] = Name(g)
  BY DEF distinctFileNames
<1>2. SUFFICES ASSUME f # g PROVE FALSE
  OBVIOUS
<1>3. Newer(f, g) \/ Newer(g, f)
  BY <1>1, <1>2, OneIsNewer
<1>4. \A h : /\ Name(h)[1] = h.name
             /\ Taken(h) => Name(h)[2] = h.version
             /\ Taken(h) /\ VersionTaken(h) => Name(h)[3] = h.document
             /\ Len(Name(h)) = IF ~Taken(h) THEN 1 ELSE IF ~VersionTaken(h) THEN 2 ELSE 3
  <2> TAKE h
  <2> HIDE DEF Taken, VersionTaken
  <2> QED OBVIOUS
<1>5. Name(f) = Name(g)
  BY <1>1
<1> HIDE DEF Name
<1>6. f.name = g.name
  BY <1>4, <1>5
<1>7. (Taken(f) <=> Taken(g)) /\ (Taken(f) => (VersionTaken(f) <=> VersionTaken(g)))
  <2> HIDE DEF Taken, VersionTaken
  <2> QED BY <1>4, <1>5
<1>8. CASE ~Taken(f)
  <2>1. ~Newer(g, f) /\ ~Newer(f, g)
    BY <1>1, <1>6, <1>7, <1>8
  <2> QED BY <1>3, <2>1
<1>9. CASE Taken(f) /\ ~VersionTaken(f)
  <2>1. f.version = g.version
    BY <1>4, <1>5, <1>7, <1>9
  <2>2. ~Newer(g, f) /\ ~Newer(f, g)
    BY <1>1, <1>6, <1>7, <1>9, <2>1
  <2> QED BY <1>3, <2>2
<1>10. CASE Taken(f) /\ VersionTaken(f)
  <2>1. f.version = g.version /\ f.document = g.document
    <3> HIDE DEF Taken, VersionTaken
    <3> QED BY <1>4, <1>5, <1>7, <1>10
  <2> QED BY <1>1, <1>2, <2>1 DEF Apart
<1> QED BY <1>8, <1>9, <1>10

LEMMA NewestKeepsItsName ==
  ASSUME NEW F, NEW f \in F, f.name # Missing,
         \A g \in F : Case(g) = Case(f) /\ g.name = f.name => ~Newer(g, f)
  PROVE  distinctFileNames(F)[f] = <<f.name>>
BY DEF distinctFileNames

------------------------------------------------------------------------------
(* An import, its events and its rows *)

FileRow == [id : RowIds, row : [file : File, title : Titles]]

FilesIn(got) == {got[k].row.file : k \in DOMAIN got}

NoTitles == <<>>

Import ==
  [pc : {"idle", "list", "fetch", "load", "end"}, scope : SUBSET Cases, event : Nat,
   named : UNION {[F -> RowNames] : F \in SUBSET File}, titles : [Cases -> Titles] \cup {NoTitles},
   todo : SUBSET File, got : Seq(FileRow), failures : SUBSET File, current : BOOLEAN, crossed : BOOLEAN]

\* A row's id is of the file it is made of, which can be stored.
RowIs(m, r) == r.row.file.good /\ r.id = boundaryId(m.named, r.row.file)

\* An import has nothing before it has listed, and at its end nothing is left of what
\* it did; what it has is of its cases and has a name, or is to be given one.
WellFormed(m) ==
  /\ m \in Import
  /\ m.pc = "idle" => m.scope = {}
  /\ m.pc \in {"idle", "list"} => m.todo = {} /\ m.got = <<>> /\ m.failures = {}
  /\ m.pc \in {"fetch", "load", "end"} => m.titles \in [Cases -> Titles]
  /\ m.pc \in {"load", "end"} => m.todo = {}
  /\ m.pc = "load" => m.got # <<>>
  /\ m.pc = "end" => m.got = <<>>
  /\ \A f \in m.todo \cup m.failures \cup FilesIn(m.got) :
       Case(f) \in m.scope /\ (f.name # Missing => f \in DOMAIN m.named)
  /\ \A f \in DOMAIN m.named : f.name # Missing /\ Case(f) \in m.scope
  /\ \A k \in DOMAIN m.got : RowIs(m, m.got[k])

\* What CBOS lists is told apart by document and version, of which there are no more
\* than changes there.
CbosInv ==
  /\ cbos \subseteq File /\ IsFiniteSet(cbos) /\ Apart(cbos)
  /\ \A f \in cbos : f.version <= Cardinality({g \in cbos : g.document = f.document})
  /\ Cardinality(cbos) <= saves
  /\ deleted \subseteq Documents /\ title \in [Cases -> Titles]
  /\ saves \in 0 .. MaxSaves /\ begun \in 0 .. MaxImports
  /\ excused \subseteq Cases

EventsInv ==
  /\ events \in Seq(Event)
  /\ \A e \in DOMAIN events : events[e].status \in {"waiting", "locked"} => events[e].tries < MaxDelivery

RowsInv ==
  /\ IsFiniteSet(DOMAIN table)
  /\ \A id \in DOMAIN table :
       id \in RowIds /\ table[id].file \in File /\ table[id].title \in Titles /\ Case(table[id].file) = id[1]

\* The subscriber's import is of the event it has locked, the admin's of every case.
IsOf(i, m, messages) ==
  m.pc # "idle" =>
    IF i = "admin" THEN m.scope = Cases
    ELSE /\ m.event \in DOMAIN messages /\ messages[m.event].status = "locked"
         /\ messages[m.event].case \in Cases /\ m.scope = {messages[m.event].case}

ImportsInv ==
  /\ imp \in [Importers -> Import]
  /\ \A i \in Importers : WellFormed(imp[i]) /\ IsOf(i, imp[i], events)

TypedInv == CbosInv /\ EventsInv /\ RowsInv /\ ImportsInv

LEMMA TypedIsTyped == TypedInv => CbosTypeOK
<1> SUFFICES ASSUME TypedInv PROVE CbosTypeOK
  OBVIOUS
<1>1. ASSUME NEW i \in Importers
      PROVE  /\ imp[i].pc \in {"idle", "list", "fetch", "load", "end"}
             /\ imp[i].todo \cup imp[i].failures \subseteq File
             /\ imp[i].pc = "load" => imp[i].todo = {} /\ imp[i].got # <<>>
  BY DEF TypedInv, ImportsInv, WellFormed, Import
<1> QED BY <1>1 DEF TypedInv, CbosTypeOK, CbosInv, EventsInv, RowsInv

LEMMA BeginsIdle == WellFormed(Idle) /\ Idle.pc = "idle"
<1>1. <<>> \in Seq(FileRow) /\ DOMAIN <<>> = {} /\ FilesIn(<<>>) = {}
  BY DEF FilesIn
<1>2. <<>> \in UNION {[F -> RowNames] : F \in SUBSET File}
  <2>1. <<>> \in [{} -> RowNames]
    OBVIOUS
  <2> QED BY <2>1
<1>3. Idle \in Import
  BY <1>1, <1>2 DEF Idle, Import, NoTitles
<1> QED BY <1>1, <1>3 DEF Idle, WellFormed

LEMMA InitTyped == CbosInit => TypedInv
<1> SUFFICES ASSUME CbosInit PROVE TypedInv
  OBVIOUS
<1>1. CbosInv
  <2>1. IsFiniteSet({}) /\ Cardinality({}) = 0
    BY FS_EmptySet
  <2>2. title \in [Cases -> Titles]
    BY CbosAssumption DEF CbosInit
  <2> QED BY <2>1, <2>2, CbosAssumption DEF CbosInit, CbosInv, Apart
<1>2. EventsInv /\ RowsInv
  <2>1. DOMAIN table = {} /\ IsFiniteSet({})
    BY FS_EmptySet DEF CbosInit
  <2> QED BY <2>1 DEF CbosInit, EventsInv, RowsInv
<1>3. ImportsInv
  BY BeginsIdle DEF CbosInit, ImportsInv, Importers, WellFormed, IsOf
<1> QED BY <1>1, <1>2, <1>3 DEF TypedInv

------------------------------------------------------------------------------
(* Each step keeps the types: what happens in CBOS *)

LEMMA AddVersionKeepsCbos ==
  ASSUME CbosInv, NEW upload \in Uploads, NEW at \in {saves, saves + 1}, AddVersion(upload, at)
  PROVE  /\ CbosInv'
         /\ CaseOf[upload.document] \in Cases
         /\ \E f \in File : cbos' = cbos \cup {f} /\ Case(f) = CaseOf[upload.document]
<1> DEFINE d == upload.document
           own == {g \in cbos : g.document = d}
           new == [document |-> d, version |-> Cardinality(own) + 1, name |-> upload.name, at |-> at,
                   stamp |-> upload.stamp, good |-> upload.good]
<1>1. /\ upload.document \in Documents /\ upload.name \in FileNames \cup {Missing}
      /\ upload.stamp \in Stamp /\ upload.good \in BOOLEAN
      /\ MaxSaves \in Nat /\ CaseOf[d] \in Cases
  BY CbosAssumption
<1>2. /\ saves \in Nat /\ saves < MaxSaves /\ saves' = saves + 1 /\ cbos' = cbos \cup {new}
      /\ UNCHANGED <<deleted, title, begun, excused>>
  BY <1>1 DEF AddVersion, CbosInv
<1>3. IsFiniteSet(own) /\ Cardinality(own) \in Nat /\ Cardinality(cbos) \in Nat /\ Cardinality(own) <= Cardinality(cbos)
  BY FS_Subset, FS_CardinalityType DEF CbosInv
<1>4. Cardinality(cbos) <= saves
  BY DEF CbosInv
<1>5. new \in File /\ new.document = d /\ new.version = Cardinality(own) + 1 /\ Case(new) = CaseOf[d]
  <2>1. new.version \in 1 .. MaxSaves /\ new.at \in 0 .. MaxSaves
    BY <1>1, <1>2, <1>3, <1>4
  <2> QED BY <1>1, <2>1 DEF File, Case
<1> HIDE DEF new
<1>6. \A f \in own : f.version \in Nat /\ f.version <= Cardinality(own)
  BY FileFields DEF CbosInv
<1>7. new \notin cbos
  BY <1>3, <1>5, <1>6
<1>8. IsFiniteSet(cbos') /\ Cardinality(cbos') = Cardinality(cbos) + 1
  BY <1>2, <1>7, FS_AddElement DEF CbosInv
<1>9. Apart(cbos')
  BY <1>2, <1>3, <1>5, <1>6 DEF Apart, CbosInv
<1>10. ASSUME NEW f \in cbos'
       PROVE  f.version <= Cardinality({g \in cbos' : g.document = f.document})
  <2>1. CASE f.document = d
    <3>1. {g \in cbos' : g.document = f.document} = own \cup {new}
      BY <1>2, <1>5, <2>1
    <3>2. Cardinality(own \cup {new}) = Cardinality(own) + 1
      BY <1>3, <1>7, FS_AddElement
    <3>3. f \in own \/ f = new
      BY <1>2, <2>1
    <3>4. f.version <= Cardinality(own) + 1
      <4> HIDE DEF own
      <4> QED BY <1>3, <1>5, <1>6, <3>3
    <3> QED BY <3>1, <3>2, <3>4
  <2>2. CASE f.document # d
    <3>1. {g \in cbos' : g.document = f.document} = {g \in cbos : g.document = f.document} /\ f \in cbos
      BY <1>2, <1>5, <2>2
    <3> QED BY <3>1 DEF CbosInv
  <2> QED BY <2>1, <2>2
<1>11. Cardinality(cbos') <= saves' /\ saves' \in 0 .. MaxSaves
  BY <1>1, <1>2, <1>3, <1>4, <1>8
<1>12. CbosInv'
  BY <1>2, <1>5, <1>8, <1>9, <1>10, <1>11 DEF CbosInv
<1> QED BY <1>1, <1>2, <1>5, <1>12

LEMMA DeleteKeepsCbos ==
  ASSUME CbosInv, NEW d \in Documents, DeleteDocument(d)
  PROVE  CbosInv' /\ CaseOf[d] \in Cases
<1>1. /\ cbos' = {f \in cbos : f.document # d} /\ deleted' = deleted \cup {d} /\ saves < MaxSaves
      /\ saves' = saves + 1 /\ excused' = excused \cup {CaseOf[d]} /\ UNCHANGED <<title, begun>>
  BY DEF DeleteDocument
<1>2. IsFiniteSet(cbos') /\ Cardinality(cbos') \in Nat /\ Cardinality(cbos') <= Cardinality(cbos)
      /\ Cardinality(cbos) \in Nat
  BY <1>1, FS_Subset, FS_CardinalityType DEF CbosInv
<1>3. \A f \in cbos' : {g \in cbos' : g.document = f.document} = {g \in cbos : g.document = f.document}
  BY <1>1
<1>4. \A f \in cbos' : f.version <= Cardinality({g \in cbos' : g.document = f.document})
  BY <1>1, <1>3 DEF CbosInv
<1>5. CaseOf[d] \in Cases /\ MaxSaves \in Nat
  BY CbosAssumption
<1>6. Apart(cbos') /\ Cardinality(cbos') <= saves' /\ saves' \in 0 .. MaxSaves
  BY <1>1, <1>2, <1>5 DEF Apart, CbosInv
<1> QED BY <1>1, <1>2, <1>4, <1>5, <1>6 DEF CbosInv

\* An event's being added leaves those there are.
LEMMA PublishKeeps ==
  ASSUME EventsInv, NEW c \in Cases \cup {Missing}, Publish(c)
  PROVE  /\ EventsInv'
         /\ \A e \in DOMAIN events : e \in DOMAIN events' /\ events'[e] = events[e]
         /\ \E e \in DOMAIN events' : events'[e].case = c /\ events'[e].status = "waiting"
         /\ \A e \in DOMAIN events' : e \in DOMAIN events \/ events'[e].case = c
<1> DEFINE event == [case |-> c, status |-> "waiting", tries |-> 0]
<1>1. event \in Event /\ event.tries < MaxDelivery
  BY CbosAssumption DEF Event
<1>2. events' = Append(events, event) /\ events \in Seq(Event)
  BY DEF Publish, EventsInv
<1> HIDE DEF event
<1>3. /\ events' \in Seq(Event) /\ Len(events) \in Nat /\ DOMAIN events = 1 .. Len(events)
      /\ DOMAIN events' = 1 .. Len(events) + 1 /\ events'[Len(events) + 1] = event
      /\ \A e \in 1 .. Len(events) : events'[e] = events[e]
  BY <1>1, <1>2
<1>4. Len(events) + 1 \in DOMAIN events'
  BY <1>3
<1>5. \A e \in DOMAIN events' : e \in DOMAIN events \/ e = Len(events) + 1
  BY <1>3
<1>6. EventsInv'
  BY <1>1, <1>3, <1>5 DEF EventsInv
<1> QED BY <1>3, <1>4, <1>5, <1>6 DEF event

\* What an import has and has yet to do.
SameWork(m, n) ==
  /\ n.pc = m.pc /\ n.scope = m.scope /\ n.event = m.event /\ n.named = m.named /\ n.titles = m.titles
  /\ n.todo = m.todo /\ n.got = m.got /\ n.failures = m.failures

\* Whether an import is current, or crossed, is no part of its form.
LEMMA Reformed ==
  ASSUME NEW m, WellFormed(m), NEW n \in Import, SameWork(m, n)
  PROVE  WellFormed(n)
BY DEF WellFormed, RowIs, SameWork

EventsStay == \A e \in DOMAIN events : e \in DOMAIN events' /\ events'[e] = events[e]

LEMMA ImportersAre == Importers = {"subscriber", "admin"} /\ "subscriber" # "admin"
BY DEF Importers

\* A change in CBOS leaves the imports what they were, but for being current.
LEMMA ChangedKeeps ==
  ASSUME ImportsInv, NEW c \in Cases, Changed(c), EventsStay
  PROVE  /\ ImportsInv'
         /\ \A i \in Importers :
              /\ SameWork(imp[i], imp'[i]) /\ imp'[i].crossed = imp[i].crossed
              /\ imp'[i].current = (imp[i].current /\ c \notin imp[i].scope)
<1>1. \A i \in Importers : /\ WellFormed(imp[i]) /\ imp[i].current \in BOOLEAN /\ imp[i].crossed \in BOOLEAN
                           /\ imp'[i] = [imp[i] EXCEPT !.current = imp[i].current /\ c \notin imp[i].scope]
  BY DEF ImportsInv, Import, Changed
<1>2. ASSUME NEW i \in Importers
      PROVE  /\ SameWork(imp[i], imp'[i]) /\ imp'[i].crossed = imp[i].crossed
             /\ imp'[i].current = (imp[i].current /\ c \notin imp[i].scope)
             /\ WellFormed(imp'[i])
  <2> DEFINE b == imp[i].current /\ c \notin imp[i].scope
  <2>1. b \in BOOLEAN /\ WellFormed(imp[i]) /\ imp[i] \in Import
    BY <1>1 DEF WellFormed
  <2>2. imp'[i] = [imp[i] EXCEPT !.current = b]
    BY <1>1
  <2> HIDE DEF b
  <2>3. /\ imp'[i] \in Import /\ SameWork(imp[i], imp'[i])
        /\ imp'[i].current = b /\ imp'[i].crossed = imp[i].crossed
    BY <2>1, <2>2 DEF Import, SameWork
  <2> QED BY <2>1, <2>3, Reformed DEF b
<1>3. imp' \in [Importers -> Import]
  <2>1. \A i \in Importers : imp'[i] \in Import
    BY <1>2 DEF WellFormed
  <2> QED BY <2>1 DEF Changed
<1>4. ImportsInv'
  BY <1>2, <1>3 DEF ImportsInv, SameWork, EventsStay, IsOf
<1> QED BY <1>2, <1>4

\* A message's new status, and its being tried again.
LEMMA SettledIs ==
  ASSUME EventsInv, NEW e \in DOMAIN events, NEW status \in {"locked", "done"}, Settled(e, status),
         status = "locked" => events[e].status = "waiting"
  PROVE  /\ EventsInv' /\ DOMAIN events' = DOMAIN events
         /\ \A x \in DOMAIN events : events'[x].case = events[x].case
         /\ \A x \in DOMAIN events \ {e} : events'[x] = events[x]
         /\ events'[e].status = status
<1>1. events \in Seq(Event) /\ events[e] \in Event /\ events' = [events EXCEPT ![e].status = status]
  BY DEF Settled, EventsInv
<1>2. /\ events'[e] = [events[e] EXCEPT !.status = status] /\ DOMAIN events' = DOMAIN events
      /\ \A x \in DOMAIN events \ {e} : events'[x] = events[x]
  BY <1>1
<1>3. /\ events'[e] \in Event /\ events'[e].status = status /\ events'[e].case = events[e].case
      /\ events'[e].tries = events[e].tries
  BY <1>1, <1>2 DEF Event
<1>4. events' \in Seq(Event)
  BY <1>1, <1>3
<1>5. EventsInv'
  BY <1>2, <1>3, <1>4 DEF EventsInv
<1> QED BY <1>2, <1>3, <1>5

LEMMA RedeliveredIs ==
  ASSUME EventsInv, NEW e \in DOMAIN events, events[e].status = "locked", Redelivered(e)
  PROVE  /\ EventsInv' /\ DOMAIN events' = DOMAIN events
         /\ \A x \in DOMAIN events : events'[x].case = events[x].case
         /\ \A x \in DOMAIN events \ {e} : events'[x] = events[x]
         /\ \/ events'[e].status = "waiting" /\ excused' = excused
            \/ events'[e].status = "dead" /\ excused' = excused \cup {events[e].case}
<1> DEFINE tries == events[e].tries + 1
           status == IF tries >= MaxDelivery THEN "dead" ELSE "waiting"
<1>1. /\ events \in Seq(Event) /\ events[e] \in Event /\ events[e].tries < MaxDelivery
      /\ events' = [events EXCEPT ![e].tries = tries, ![e].status = status]
      /\ excused' = IF tries >= MaxDelivery THEN excused \cup {events[e].case} ELSE excused
  BY DEF Redelivered, EventsInv
<1>2. tries \in 0 .. MaxDelivery /\ status \in {"dead", "waiting"} /\ MaxDelivery \in Nat
      /\ (status = "waiting" => tries < MaxDelivery)
  BY <1>1, CbosAssumption DEF Event
<1>3. /\ events'[e] = [events[e] EXCEPT !.tries = tries, !.status = status] /\ DOMAIN events' = DOMAIN events
      /\ \A x \in DOMAIN events \ {e} : events'[x] = events[x]
  <2> HIDE DEF tries, status
  <2> QED BY <1>1
<1>4. /\ events'[e] \in Event /\ events'[e].status = status /\ events'[e].case = events[e].case
      /\ events'[e].tries = tries
  <2> HIDE DEF tries, status
  <2> QED BY <1>1, <1>2, <1>3 DEF Event
<1>5. events' \in Seq(Event)
  <2>1. events' = [events EXCEPT ![e] = events'[e]]
    <3> HIDE DEF tries, status
    <3> QED BY <1>1, <1>3
  <2> QED BY <1>1, <1>4, <2>1
<1>6. EventsInv'
  BY <1>2, <1>3, <1>4, <1>5 DEF EventsInv
<1> QED BY <1>1, <1>3, <1>4, <1>6

------------------------------------------------------------------------------
(* ... and what an import does *)

\* One import goes from what it was to n.
LEMMA OneGoesOn ==
  ASSUME ImportsInv, NEW i \in Importers, NEW n, WellFormed(n), IsOf(i, n, events'),
         imp' = [imp EXCEPT ![i] = n],
         \A j \in Importers \ {i} : IsOf(j, imp[j], events')
  PROVE  /\ ImportsInv' /\ imp'[i] = n
         /\ \A j \in Importers \ {i} : imp'[j] = imp[j]
<1>1. imp \in [Importers -> Import] /\ n \in Import
  BY DEF ImportsInv, WellFormed
<1>2. imp' \in [Importers -> Import] /\ imp'[i] = n /\ \A j \in Importers \ {i} : imp'[j] = imp[j]
  BY <1>1
<1>3. \A j \in Importers : WellFormed(imp'[j]) /\ IsOf(j, imp'[j], events')
  BY <1>2 DEF ImportsInv
<1> QED BY <1>2, <1>3 DEF ImportsInv

\* An import begins: of a case, for an event, or of all.
BegunFor(scope, e) == [Idle EXCEPT !.pc = "list", !.scope = scope, !.event = e]
BegunOf(scope) == [Idle EXCEPT !.pc = "list", !.scope = scope]

LEMMA BegunIs ==
  ASSUME NEW n \in Import, n.pc = "list",
         n.named = <<>> /\ n.todo = {} /\ n.got = <<>> /\ n.failures = {}
  PROVE  WellFormed(n)
<1>1. DOMAIN n.got = {} /\ DOMAIN n.named = {} /\ FilesIn(n.got) = {}
  BY DEF FilesIn
<1> QED BY <1>1 DEF WellFormed

LEMMA IdleHasNothing ==
  /\ Idle \in Import /\ Idle.current = FALSE /\ Idle.crossed = FALSE
  /\ Idle.named = <<>> /\ Idle.todo = {} /\ Idle.got = <<>> /\ Idle.failures = {}
<1>1. Idle \in Import
  BY BeginsIdle DEF WellFormed
<1> QED BY <1>1 DEF Idle

LEMMA BegunForIs ==
  ASSUME NEW scope \in SUBSET Cases, NEW e \in Nat
  PROVE  /\ WellFormed(BegunFor(scope, e)) /\ BegunFor(scope, e).pc = "list"
         /\ BegunFor(scope, e).scope = scope /\ BegunFor(scope, e).event = e
         /\ BegunFor(scope, e).current = FALSE /\ BegunFor(scope, e).crossed = FALSE
<1> DEFINE n == BegunFor(scope, e)
<1>1. n = [Idle EXCEPT !.pc = "list", !.scope = scope, !.event = e]
  BY DEF BegunFor
<1> HIDE DEF n
<1>2. /\ n \in Import /\ n.pc = "list" /\ n.scope = scope /\ n.event = e
      /\ n.current = FALSE /\ n.crossed = FALSE
      /\ n.named = <<>> /\ n.todo = {} /\ n.got = <<>> /\ n.failures = {}
  BY <1>1, IdleHasNothing DEF Import
<1>3. WellFormed(n)
  BY <1>2, BegunIs
<1> QED BY <1>2, <1>3 DEF n

LEMMA BegunOfIs ==
  /\ WellFormed(BegunOf(Cases)) /\ BegunOf(Cases).pc = "list" /\ BegunOf(Cases).scope = Cases
  /\ BegunOf(Cases).current = FALSE /\ BegunOf(Cases).crossed = FALSE
<1> DEFINE n == BegunOf(Cases)
<1>1. n = [Idle EXCEPT !.pc = "list", !.scope = Cases]
  BY DEF BegunOf
<1> HIDE DEF n
<1>2. /\ n \in Import /\ n.pc = "list" /\ n.scope = Cases /\ n.current = FALSE /\ n.crossed = FALSE
      /\ n.named = <<>> /\ n.todo = {} /\ n.got = <<>> /\ n.failures = {}
  BY <1>1, IdleHasNothing DEF Import
<1>3. WellFormed(n)
  BY <1>2, BegunIs
<1> QED BY <1>2, <1>3 DEF n

LEMMA TakeEventKeepsTypes ==
  ASSUME TypedInv, NEW e \in DOMAIN events, TakeEvent(e)
  PROVE  /\ TypedInv'
         /\ DOMAIN events' = DOMAIN events /\ \A x \in DOMAIN events \ {e} : events'[x] = events[x]
         /\ \A j \in Importers \ {"subscriber"} : imp'[j] = imp[j]
         /\ imp["subscriber"].pc = "idle"
         /\ \/ events[e].case = Missing /\ imp' = imp
            \/ events[e].case \in Cases /\ imp'["subscriber"].pc = "list"
               /\ imp'["subscriber"].scope = {events[e].case}
<1>1. /\ imp["subscriber"].pc = "idle" /\ events[e].status = "waiting"
      /\ UNCHANGED <<inCbos, table, begun, excused>>
  BY DEF TakeEvent, boundaryCaseReference
<1>2. CbosInv' /\ RowsInv'
  BY <1>1 DEF TypedInv, inCbos, CbosInv, RowsInv
<1>3. events[e].case \in Cases \cup {Missing} /\ e \in Nat
  <2>1. events \in Seq(Event)
    BY DEF TypedInv, EventsInv
  <2>2. events[e] \in Event /\ e \in Nat
    BY <2>1
  <2> QED BY <2>2 DEF Event
<1>4. CASE events[e].case = Missing
  <2>1. Settled(e, "done") /\ imp' = imp
    BY <1>4 DEF TakeEvent, boundaryCaseReference
  <2>2. EventsInv' /\ DOMAIN events' = DOMAIN events /\ \A x \in DOMAIN events \ {e} : events'[x] = events[x]
    BY <2>1, SettledIs DEF TypedInv
  <2>3. ImportsInv'
    BY <1>1, <2>1, <2>2 DEF TypedInv, ImportsInv, IsOf, Importers
  <2> QED BY <1>1, <1>2, <1>4, <2>1, <2>2, <2>3 DEF TypedInv
<1>5. CASE events[e].case # Missing
  <2> DEFINE n == BegunFor({events[e].case}, e)
  <2>1. Settled(e, "locked") /\ imp' = [imp EXCEPT !["subscriber"] = n] /\ events[e].case \in Cases
    BY <1>3, <1>5 DEF TakeEvent, boundaryCaseReference, BegunFor
  <2>2. /\ EventsInv' /\ DOMAIN events' = DOMAIN events
        /\ events'[e].status = "locked" /\ events'[e].case = events[e].case
        /\ \A x \in DOMAIN events \ {e} : events'[x] = events[x]
    BY <1>1, <2>1, SettledIs DEF TypedInv
  <2>3. WellFormed(n) /\ n.pc = "list" /\ n.scope = {events[e].case} /\ n.event = e
    <3>1. {events[e].case} \in SUBSET Cases
      BY <2>1
    <3> QED BY <1>3, <3>1, BegunForIs
  <2> HIDE DEF n
  <2>4. IsOf("subscriber", n, events')
    <3>1. e \in DOMAIN events' /\ events'[e].status = "locked" /\ events'[e].case \in Cases
      BY <2>1, <2>2
    <3>2. n.event = e /\ n.scope = {events'[e].case} /\ "subscriber" # "admin"
      BY <2>2, <2>3
    <3> QED BY <3>1, <3>2 DEF IsOf
  <2>5. \A j \in Importers \ {"subscriber"} : IsOf(j, imp[j], events')
    BY DEF TypedInv, ImportsInv, IsOf, Importers
  <2>6. /\ ImportsInv' /\ imp'["subscriber"] = n
        /\ \A j \in Importers \ {"subscriber"} : imp'[j] = imp[j]
    BY <2>1, <2>3, <2>4, <2>5, ImportersAre, OneGoesOn DEF TypedInv
  <2> QED BY <1>1, <1>2, <2>1, <2>2, <2>3, <2>6 DEF TypedInv
<1> QED BY <1>4, <1>5

LEMMA RunImportKeepsTypes ==
  ASSUME TypedInv, RunImportFromCbos
  PROVE  /\ TypedInv'
         /\ imp["admin"].pc = "idle" /\ imp'["admin"].pc = "list" /\ imp'["subscriber"] = imp["subscriber"]
<1> DEFINE n == BegunOf(Cases)
<1>1. /\ imp["admin"].pc = "idle" /\ begun < MaxImports /\ begun' = begun + 1
      /\ imp' = [imp EXCEPT !["admin"] = n] /\ UNCHANGED <<inCbos, events, table, excused>>
  BY DEF RunImportFromCbos, BegunOf
<1>2. CbosInv' /\ EventsInv' /\ RowsInv'
  <2>1. begun' \in 0 .. MaxImports
    BY <1>1, CbosAssumption DEF TypedInv, CbosInv
  <2> QED BY <1>1, <2>1 DEF TypedInv, inCbos, CbosInv, EventsInv, RowsInv
<1>3. Cases \in SUBSET Cases /\ 0 \in Nat
  OBVIOUS
<1>4. WellFormed(n) /\ n.pc = "list" /\ n.scope = Cases
  BY BegunOfIs
<1> HIDE DEF n
<1>5. IsOf("admin", n, events')
  BY <1>4 DEF IsOf
<1>6. \A j \in Importers \ {"admin"} : IsOf(j, imp[j], events')
  BY <1>1 DEF TypedInv, ImportsInv
<1>7. ImportsInv' /\ imp'["admin"] = n /\ \A j \in Importers \ {"admin"} : imp'[j] = imp[j]
  BY <1>1, <1>4, <1>5, <1>6, ImportersAre, OneGoesOn DEF TypedInv
<1> QED BY <1>1, <1>2, <1>4, <1>7, ImportersAre DEF TypedInv

\* Listing: the files of an import's cases.
Listing(i) == {f \in cbos : Case(f) \in imp[i].scope}

LEMMA ListKeepsTypes ==
  ASSUME TypedInv, NEW i \in Importers, List(i)
  PROVE  /\ TypedInv' /\ imp[i].pc = "list"
         /\ cbos' = cbos /\ events' = events /\ table' = table /\ excused' = excused
         /\ \A j \in Importers \ {i} : imp'[j] = imp[j]
         /\ imp'[i].pc = IF Listing(i) = {} THEN "end" ELSE "fetch"
         /\ imp'[i].scope = imp[i].scope /\ imp'[i].event = imp[i].event
         /\ imp'[i].named = distinctFileNames(Listing(i)) /\ imp'[i].todo = Listing(i)
         /\ imp'[i].got = <<>> /\ imp'[i].failures = {}
         /\ imp'[i].current = TRUE /\ imp'[i].crossed = FALSE
<1> DEFINE names == distinctFileNames(Listing(i))
           files == Listing(i)
           n == [imp[i] EXCEPT !.pc = IF files = {} THEN "end" ELSE "fetch", !.named = names,
                   !.titles = title, !.todo = files, !.current = TRUE, !.crossed = FALSE]
<1>1. /\ imp[i].pc = "list" /\ imp' = [imp EXCEPT ![i] = n]
      /\ UNCHANGED <<cbos, deleted, title, saves, events, table, begun, excused>>
  BY DEF List, Listing, inCbos
<1>2. CbosInv' /\ EventsInv' /\ RowsInv'
  BY <1>1 DEF TypedInv, CbosInv, EventsInv, RowsInv
<1>3. files \subseteq File /\ title \in [Cases -> Titles] /\ \A f \in files : Case(f) \in imp[i].scope
  BY DEF TypedInv, CbosInv, Listing
<1>4. DOMAIN names = {f \in files : f.name # Missing} /\ names \in [{f \in files : f.name # Missing} -> RowNames]
  BY <1>3, NamesAre
<1>5. names \in UNION {[F -> RowNames] : F \in SUBSET File}
  <2>1. {f \in files : f.name # Missing} \in SUBSET File
    BY <1>3
  <2> QED BY <1>4, <2>1
<1>6. imp[i] \in Import /\ imp[i].got = <<>> /\ imp[i].failures = {} /\ WellFormed(imp[i])
  BY <1>1 DEF TypedInv, ImportsInv, WellFormed
<1> HIDE DEF names, files
<1>7. /\ n \in Import /\ n.pc = IF files = {} THEN "end" ELSE "fetch"
      /\ n.scope = imp[i].scope /\ n.event = imp[i].event /\ n.named = names /\ n.todo = files
      /\ n.titles = title /\ n.got = <<>> /\ n.failures = {} /\ n.current = TRUE /\ n.crossed = FALSE
  BY <1>3, <1>5, <1>6 DEF Import
<1> HIDE DEF n
<1>8. WellFormed(n)
  <2>1. DOMAIN n.got = {} /\ FilesIn(n.got) = {}
    BY <1>7 DEF FilesIn
  <2> QED BY <1>3, <1>4, <1>7, <2>1 DEF WellFormed
<1>9. IsOf(i, n, events') /\ \A j \in Importers \ {i} : IsOf(j, imp[j], events')
  BY <1>1, <1>7 DEF TypedInv, ImportsInv, IsOf
<1>10. ImportsInv' /\ imp'[i] = n /\ \A j \in Importers \ {i} : imp'[j] = imp[j]
  BY <1>1, <1>8, <1>9, OneGoesOn DEF TypedInv
<1> QED BY <1>1, <1>2, <1>7, <1>10 DEF TypedInv, names, files

LEMMA FilesGrow ==
  ASSUME NEW got \in Seq(FileRow), NEW r \in FileRow
  PROVE  /\ Append(got, r) \in Seq(FileRow) /\ Append(got, r) # <<>>
         /\ FilesIn(Append(got, r)) = FilesIn(got) \cup {r.row.file}
         /\ \A k \in DOMAIN Append(got, r) : Append(got, r)[k] = r \/ (k \in DOMAIN got /\ Append(got, r)[k] = got[k])
<1> DEFINE more == Append(got, r)
<1>1. /\ more \in Seq(FileRow) /\ Len(got) \in Nat /\ DOMAIN got = 1 .. Len(got)
      /\ DOMAIN more = 1 .. Len(got) + 1 /\ more[Len(got) + 1] = r
      /\ \A k \in 1 .. Len(got) : more[k] = got[k]
  OBVIOUS
<1> HIDE DEF more
<1>2. \A k \in DOMAIN more : k = Len(got) + 1 \/ k \in DOMAIN got
  BY <1>1
<1>3. Len(got) + 1 \in DOMAIN more /\ \A k \in DOMAIN got : k \in DOMAIN more
  BY <1>1
<1>4. FilesIn(more) = FilesIn(got) \cup {r.row.file}
  BY <1>1, <1>2, <1>3 DEF FilesIn
<1>5. more # <<>>
  BY <1>3
<1> QED BY <1>1, <1>2, <1>4, <1>5 DEF more

\* What an import m is once it has fetched f.
Fetched(m, f, n) ==
  /\ WellFormed(n)
  /\ n.scope = m.scope /\ n.event = m.event /\ n.named = m.named
  /\ n.current = m.current /\ n.crossed = m.crossed
  /\ n.todo = m.todo \ {f}
  /\ n.pc = IF m.todo # {f} THEN "fetch" ELSE IF n.got = <<>> THEN "end" ELSE "load"
  /\ n.failures \cup FilesIn(n.got) = m.failures \cup FilesIn(m.got) \cup {f}

LEMMA FetchedIs ==
  ASSUME NEW m, WellFormed(m), m.pc = "fetch", NEW f \in m.todo, NEW got, NEW failures, NEW r,
         \/ /\ r \in FileRow /\ RowIs(m, r) /\ r.row.file = f
            /\ got = Append(m.got, r) /\ failures = m.failures
         \/ got = m.got /\ failures = m.failures \cup {f}
  PROVE  Fetched(m, f, FetchedTo(m, f, got, failures))
<1> DEFINE n == FetchedTo(m, f, got, failures)
<1>1. m \in Import /\ f \in File /\ m.todo \subseteq File /\ m.failures \subseteq File /\ m.got \in Seq(FileRow)
  BY DEF WellFormed, Import
<1>2. got \in Seq(FileRow) /\ failures \in SUBSET File
  <2>1. CASE r \in FileRow /\ got = Append(m.got, r) /\ failures = m.failures
    BY <1>1, <2>1, FilesGrow
  <2>2. CASE got = m.got /\ failures = m.failures \cup {f}
    BY <1>1, <2>2
  <2> QED BY <2>1, <2>2
<1>3. /\ FilesIn(got) \cup failures = FilesIn(m.got) \cup m.failures \cup {f}
      /\ \A k \in DOMAIN got : RowIs(m, got[k])
  <2>1. CASE /\ r \in FileRow /\ RowIs(m, r) /\ r.row.file = f
             /\ got = Append(m.got, r) /\ failures = m.failures
    <3>1. FilesIn(got) = FilesIn(m.got) \cup {f}
      BY <1>1, <2>1, FilesGrow
    <3>2. \A k \in DOMAIN got : got[k] = r \/ (k \in DOMAIN m.got /\ got[k] = m.got[k])
      BY <1>1, <2>1, FilesGrow
    <3>3. \A k \in DOMAIN m.got : RowIs(m, m.got[k])
      BY DEF WellFormed
    <3>4. \A k \in DOMAIN got : RowIs(m, got[k])
      BY <2>1, <3>2, <3>3
    <3> QED BY <2>1, <3>1, <3>4
  <2>2. CASE got = m.got /\ failures = m.failures \cup {f}
    BY <2>2 DEF WellFormed
  <2> QED BY <2>1, <2>2
<1>4. /\ n \in Import
      /\ n.got = got /\ n.failures = failures /\ n.todo = m.todo \ {f}
      /\ n.pc = IF m.todo # {f} THEN "fetch" ELSE IF got = <<>> THEN "end" ELSE "load"
      /\ n.scope = m.scope /\ n.event = m.event /\ n.named = m.named /\ n.titles = m.titles
      /\ n.current = m.current /\ n.crossed = m.crossed
  BY <1>1, <1>2 DEF Import, FetchedTo
<1> HIDE DEF n
<1>5. WellFormed(n)
  <2>1. /\ m.titles \in [Cases -> Titles]
        /\ \A g \in m.todo \cup m.failures \cup FilesIn(m.got) :
             Case(g) \in m.scope /\ (g.name # Missing => g \in DOMAIN m.named)
        /\ \A g \in DOMAIN m.named : g.name # Missing /\ Case(g) \in m.scope
    BY DEF WellFormed
  <2>2. \A g \in n.todo \cup n.failures \cup FilesIn(n.got) : g \in m.todo \cup m.failures \cup FilesIn(m.got)
    BY <1>3, <1>4
  <2>3. \A k \in DOMAIN n.got : RowIs(n, n.got[k])
    BY <1>3, <1>4 DEF RowIs
  <2>4. /\ n.pc \in {"load", "end"} => n.todo = {}
        /\ n.pc = "load" => n.got # <<>>
        /\ n.pc = "end" => n.got = <<>>
        /\ n.pc \notin {"idle", "list"}
    BY <1>4
  <2>5. \A g \in n.todo \cup n.failures \cup FilesIn(n.got) :
          Case(g) \in n.scope /\ (g.name # Missing => g \in DOMAIN n.named)
    BY <1>4, <2>1, <2>2
  <2> QED BY <1>4, <2>1, <2>3, <2>4, <2>5 DEF WellFormed
<1>6. Fetched(m, f, n)
  BY <1>3, <1>4, <1>5 DEF Fetched
<1> QED BY <1>6 DEF n

LEMMA FetchKeepsTypes ==
  ASSUME TypedInv, NEW i \in Importers, NEW f \in imp[i].todo, Fetch(i, f)
  PROVE  /\ TypedInv' /\ imp[i].pc = "fetch"
         /\ cbos' = cbos /\ events' = events /\ table' = table /\ excused' = excused
         /\ \A j \in Importers \ {i} : imp'[j] = imp[j]
         /\ imp'[i].scope = imp[i].scope /\ imp'[i].event = imp[i].event /\ imp'[i].named = imp[i].named
         /\ imp'[i].current = imp[i].current /\ imp'[i].crossed = imp[i].crossed
         /\ imp'[i].todo = imp[i].todo \ {f}
         /\ imp'[i].pc = IF imp[i].todo # {f} THEN "fetch" ELSE IF imp'[i].got = <<>> THEN "end" ELSE "load"
         /\ imp'[i].failures \cup FilesIn(imp'[i].got) = imp[i].failures \cup FilesIn(imp[i].got) \cup {f}
<1> DEFINE r == toCaseBoundaryFromCbos(i, f)
<1>1. /\ imp[i].pc = "fetch" /\ UNCHANGED <<cbos, deleted, title, saves, events, table, begun, excused>>
  BY DEF Fetch, inCbos
<1>2. CbosInv' /\ EventsInv' /\ RowsInv'
  BY <1>1 DEF TypedInv, CbosInv, EventsInv, RowsInv
<1>3. WellFormed(imp[i]) /\ IsOf(i, imp[i], events)
  BY DEF TypedInv, ImportsInv
<1>4. r \in FileRow /\ (f.good => RowIs(imp[i], r)) /\ r.row.file = f
  <2> DEFINE name == IF f.name # Missing THEN imp[i].named[f]
                     ELSE IF f.stamp.name # Missing THEN <<f.stamp.name>> ELSE <<f.document>>
             t == imp[i].titles[Case(f)]
  <2>1. f \in File /\ imp[i] \in Import
    BY <1>3 DEF WellFormed, Import
  <2>2. /\ <<f.document>> \in RowNames /\ Case(f) \in Cases
        /\ f.stamp.name # Missing => <<f.stamp.name>> \in RowNames
    BY <2>1, FileFields DEF RowNames
  <2>3. t \in Titles
    BY <1>1, <1>3, <2>2 DEF WellFormed
  <2>4. f.name # Missing => imp[i].named[f] \in RowNames
    <3>1. imp[i].named \in UNION {[F -> RowNames] : F \in SUBSET File}
      BY <2>1 DEF Import
    <3>2. PICK F \in SUBSET File : imp[i].named \in [F -> RowNames]
      BY <3>1
    <3>3. f.name # Missing => f \in DOMAIN imp[i].named
      BY <1>3 DEF WellFormed
    <3> QED BY <3>2, <3>3
  <2>5. name \in RowNames
    BY <2>2, <2>4
  <2>6. r = [id |-> <<Case(f), name>>, row |-> [file |-> f, title |-> t]]
    BY DEF toCaseBoundaryFromCbos, boundaryId
  <2>7. (f.good => RowIs(imp[i], r)) /\ r.row.file = f
    BY DEF toCaseBoundaryFromCbos, RowIs
  <2> HIDE DEF name, t, r
  <2>8. r \in FileRow
    BY <2>1, <2>2, <2>3, <2>5, <2>6 DEF FileRow, RowIds
  <2> QED BY <2>7, <2>8
<1>5. PICK got, failures :
        /\ \/ f.good /\ got = Append(imp[i].got, r) /\ failures = imp[i].failures
           \/ got = imp[i].got /\ failures = imp[i].failures \cup {f}
        /\ imp' = [imp EXCEPT ![i] = FetchedTo(imp[i], f, got, failures)]
  <2> HIDE DEF r
  <2>1. \/ f.good /\ imp' = [imp EXCEPT ![i] = FetchedTo(imp[i], f, Append(imp[i].got, r), imp[i].failures)]
        \/ imp' = [imp EXCEPT ![i] = FetchedTo(imp[i], f, imp[i].got, imp[i].failures \cup {f})]
    BY DEF Fetch, r
  <2> QED BY <2>1
<1> HIDE DEF r
<1> DEFINE n == FetchedTo(imp[i], f, got, failures)
<1>6. /\ WellFormed(n)
      /\ n.scope = imp[i].scope /\ n.event = imp[i].event /\ n.named = imp[i].named
      /\ n.current = imp[i].current /\ n.crossed = imp[i].crossed
      /\ n.todo = imp[i].todo \ {f}
      /\ n.pc = IF imp[i].todo # {f} THEN "fetch" ELSE IF n.got = <<>> THEN "end" ELSE "load"
      /\ n.failures \cup FilesIn(n.got) = imp[i].failures \cup FilesIn(imp[i].got) \cup {f}
  <2>1. \/ /\ r \in FileRow /\ RowIs(imp[i], r) /\ r.row.file = f
           /\ got = Append(imp[i].got, r) /\ failures = imp[i].failures
        \/ got = imp[i].got /\ failures = imp[i].failures \cup {f}
    BY <1>4, <1>5
  <2>2. Fetched(imp[i], f, n)
    BY <1>1, <1>3, <2>1, FetchedIs
  <2> HIDE DEF n
  <2> QED BY <2>2 DEF Fetched
<1>7. imp' = [imp EXCEPT ![i] = n]
  BY <1>5
<1> HIDE DEF n
<1>8. IsOf(i, n, events') /\ \A j \in Importers \ {i} : IsOf(j, imp[j], events')
  BY <1>1, <1>6 DEF TypedInv, ImportsInv, IsOf
<1>9. ImportsInv' /\ imp'[i] = n /\ \A j \in Importers \ {i} : imp'[j] = imp[j]
  BY <1>6, <1>7, <1>8, OneGoesOn DEF TypedInv
<1> QED BY <1>1, <1>2, <1>6, <1>9 DEF TypedInv

\* The rows a MERGE takes, and those it leaves.
Batch(got) == Slice(got, 1, BatchSize)
Rest(got) == Slice(got, BatchSize + 1, Len(got))

LEMMA BatchIs ==
  ASSUME NEW S, NEW s \in Seq(S)
  PROVE  /\ Batch(s) \in Seq(S) /\ Rest(s) \in Seq(S)
         /\ \A k \in DOMAIN Batch(s) : k \in DOMAIN s /\ Batch(s)[k] = s[k]
         /\ \A k \in DOMAIN Rest(s) : k + BatchSize \in DOMAIN s /\ Rest(s)[k] = s[k + BatchSize]
         /\ \A k \in DOMAIN s : k \in DOMAIN Batch(s) \/ k - BatchSize \in DOMAIN Rest(s)
<1> DEFINE b == BatchSize
           len == Len(s)
           last == IF b < len THEN b ELSE len
           batch == SubSeq(s, 1, last)
           rest == SubSeq(s, b + 1, len)
<1>1. b \in Nat /\ b >= 1 /\ len \in Nat /\ DOMAIN s = 1 .. len /\ \A k \in 1 .. len : s[k] \in S
  BY CbosAssumption
<1>2. Batch(s) = batch /\ Rest(s) = rest
  BY <1>1 DEF Batch, Rest, Slice
<1>3. last \in Nat /\ last <= len /\ last <= b /\ (last = b \/ last = len)
  BY <1>1
<1> HIDE DEF b, len, last
<1>4. /\ batch \in Seq(S) /\ Len(batch) = last
      /\ \A k \in 1 .. last : batch[k] = s[k]
  <2>1. /\ batch \in Seq(S) /\ Len(batch) = IF 1 <= last THEN last - 1 + 1 ELSE 0
        /\ \A k \in 1 .. last - 1 + 1 : batch[k] = s[1 + k - 1]
    <3>1. 1 \in Int /\ last \in Int /\ \A k \in 1 .. last : s[k] \in S
      BY <1>1, <1>3
    <3> QED BY <3>1, SubSeqProperties
  <2> HIDE DEF batch
  <2>2. last - 1 + 1 = last /\ \A k \in 1 .. last : 1 + k - 1 = k
    BY <1>3
  <2>3. Len(batch) = last
    BY <1>3, <2>1
  <2> QED BY <2>1, <2>2, <2>3
<1>5. /\ rest \in Seq(S) /\ Len(rest) = IF b + 1 <= len THEN len - b ELSE 0
      /\ \A k \in 1 .. len - b : rest[k] = s[k + b]
  <2>1. /\ rest \in Seq(S) /\ Len(rest) = IF b + 1 <= len THEN len - (b + 1) + 1 ELSE 0
        /\ \A k \in 1 .. len - (b + 1) + 1 : rest[k] = s[(b + 1) + k - 1]
    <3>1. b + 1 \in Int /\ len \in Int /\ \A k \in b + 1 .. len : s[k] \in S
      BY <1>1
    <3> QED BY <3>1, SubSeqProperties
  <2> HIDE DEF rest
  <2>2. len - (b + 1) + 1 = len - b /\ \A k \in 1 .. len - b : (b + 1) + k - 1 = k + b
    BY <1>1
  <2> QED BY <1>1, <2>1, <2>2
<1> HIDE DEF batch, rest
<1>6. DOMAIN batch = 1 .. last /\ \A k \in 1 .. last : k \in 1 .. len
  BY <1>1, <1>3, <1>4
<1>7. DOMAIN rest = 1 .. (IF b + 1 <= len THEN len - b ELSE 0)
  BY <1>1, <1>5
<1>8. \A k \in DOMAIN rest : k \in 1 .. len - b /\ k + b \in 1 .. len
  BY <1>1, <1>7
<1>9. \A k \in 1 .. len : k \in 1 .. last \/ k - b \in DOMAIN rest
  BY <1>1, <1>3, <1>7
<1> QED BY <1>1, <1>2, <1>4, <1>5, <1>6, <1>8, <1>9 DEF b

\* What is loaded and what is left are what there was.
LEMMA BatchHolds ==
  ASSUME NEW s \in Seq(FileRow)
  PROVE  /\ Batch(s) \in Seq(FileRow) /\ Rest(s) \in Seq(FileRow)
         /\ FilesIn(s) = FilesIn(Batch(s)) \cup FilesIn(Rest(s))
         /\ \A k \in DOMAIN Batch(s) : k \in DOMAIN s /\ Batch(s)[k] = s[k]
         /\ \A k \in DOMAIN Rest(s) : \E l \in DOMAIN s : Rest(s)[k] = s[l]
<1>1. /\ Batch(s) \in Seq(FileRow) /\ Rest(s) \in Seq(FileRow)
      /\ \A k \in DOMAIN Batch(s) : k \in DOMAIN s /\ Batch(s)[k] = s[k]
      /\ \A k \in DOMAIN Rest(s) : k + BatchSize \in DOMAIN s /\ Rest(s)[k] = s[k + BatchSize]
      /\ \A k \in DOMAIN s : k \in DOMAIN Batch(s) \/ k - BatchSize \in DOMAIN Rest(s)
  BY BatchIs
<1>2. \A k \in DOMAIN s : k \in Nat /\ BatchSize \in Nat /\ (k - BatchSize) + BatchSize = k
  <2>1. \A k \in DOMAIN s : k \in Nat /\ BatchSize \in Nat
    BY CbosAssumption
  <2> QED BY <2>1
<1>3. \A k \in DOMAIN Rest(s) : \E l \in DOMAIN s : Rest(s)[k] = s[l]
  BY <1>1
<1>4. \A k \in DOMAIN s : \/ k \in DOMAIN Batch(s) /\ s[k] = Batch(s)[k]
                          \/ k - BatchSize \in DOMAIN Rest(s) /\ s[k] = Rest(s)[k - BatchSize]
  BY <1>1, <1>2
<1>5. \A f : f \in FilesIn(s) <=> f \in FilesIn(Batch(s)) \/ f \in FilesIn(Rest(s))
  BY <1>1, <1>3, <1>4 DEF FilesIn
<1> QED BY <1>1, <1>3, <1>5

LEMMA LeastNumber ==
  ASSUME NEW S, S \subseteq Nat, S # {}
  PROVE  \E x \in S : \A y \in S : x <= y
<1> DEFINE R == OpToRel(<, Nat)
<1>1. PICK x \in S : \A y \in S : <<y, x>> \notin R
  <2> HIDE DEF R
  <2> QED BY NatLessThanWellFounded, WFMin DEF R
<1>2. ASSUME NEW y \in S PROVE x <= y
  <2>1. x \in Nat /\ y \in Nat
    OBVIOUS
  <2>2. ~(y < x)
    BY <1>1, <2>1 DEF OpToRel
  <2> QED BY <2>1, <2>2
<1> QED BY <1>2

\* Of a sequence's places that have something, one is the last.
LEMMA LastPlace ==
  ASSUME NEW S, NEW s \in Seq(S), NEW P \in SUBSET DOMAIN s, P # {}
  PROVE  \E k \in P : \A l \in P : l <= k
<1> DEFINE n == Len(s)
           left == {n - k : k \in P}
<1>1. n \in Nat /\ \A k \in P : k \in Nat /\ n - k \in Nat
  OBVIOUS
<1>2. PICK x \in left : \A y \in left : x <= y
  <2>1. left \subseteq Nat /\ left # {}
    BY <1>1
  <2> HIDE DEF left
  <2> QED BY <2>1, LeastNumber
<1>3. PICK k \in P : x = n - k
  OBVIOUS
<1>4. ASSUME NEW l \in P PROVE l <= k
  <2>1. n - k <= n - l
    BY <1>2, <1>3
  <2> QED BY <1>1, <2>1
<1> QED BY <1>4

\* A MERGE leaves the rows its batch has none of, and keeps one of its rows for each id.
LEMMA MergedIs ==
  ASSUME NEW rows, NEW batch \in Seq(FileRow), NEW id
  PROVE  /\ id \in DOMAIN Merged(rows, batch) <=> id \in DOMAIN rows \/ \E k \in DOMAIN batch : batch[k].id = id
         /\ id \in DOMAIN rows /\ (\A k \in DOMAIN batch : batch[k].id # id) => Merged(rows, batch)[id] = rows[id]
         /\ (\E k \in DOMAIN batch : batch[k].id = id)
              => \E k \in DOMAIN batch : batch[k].id = id /\ Merged(rows, batch)[id] = batch[k].row
<1> DEFINE Of(x) == {k \in DOMAIN batch : batch[k].id = x}
           LastOf(x) == CHOOSE k \in Of(x) : \A l \in Of(x) : l <= k
           ids == {b.id : b \in ToSet(batch)}
<1>1. Merged(rows, batch) = [x \in DOMAIN rows \cup ids |-> IF Of(x) = {} THEN rows[x] ELSE batch[LastOf(x)].row]
  BY DEF Merged
<1>2. Of(id) # {} => LastOf(id) \in DOMAIN batch /\ batch[LastOf(id)].id = id
  <2> SUFFICES ASSUME Of(id) # {} PROVE LastOf(id) \in DOMAIN batch /\ batch[LastOf(id)].id = id
    OBVIOUS
  <2>1. Of(id) \in SUBSET DOMAIN batch
    OBVIOUS
  <2>2. \E k \in Of(id) : \A l \in Of(id) : l <= k
    <3> HIDE DEF Of
    <3> QED BY <2>1, LastPlace
  <2>3. LastOf(id) \in Of(id)
    <3> HIDE DEF Of
    <3> QED BY <2>2
  <2> HIDE DEF LastOf
  <2> QED BY <2>3
<1>3. id \in ids <=> \E k \in DOMAIN batch : batch[k].id = id
  BY DEF ToSet
<1>4. Of(id) = {} <=> \A k \in DOMAIN batch : batch[k].id # id
  OBVIOUS
<1> HIDE DEF Of, LastOf, ids
<1>5. /\ id \in DOMAIN Merged(rows, batch) <=> id \in DOMAIN rows \cup ids
      /\ id \in DOMAIN rows \cup ids =>
           Merged(rows, batch)[id] = IF Of(id) = {} THEN rows[id] ELSE batch[LastOf(id)].row
  BY <1>1
<1> QED BY <1>2, <1>3, <1>4, <1>5

LEMMA MergeKeepsRows ==
  ASSUME RowsInv, NEW batch \in Seq(FileRow), NEW m, \A k \in DOMAIN batch : RowIs(m, batch[k]),
         table' = Merged(table, batch)
  PROVE  RowsInv'
<1> DEFINE RowFits(id, row) ==
             id \in RowIds /\ row.file \in File /\ row.title \in Titles /\ Case(row.file) = id[1]
<1>1. ASSUME NEW k \in DOMAIN batch
      PROVE  RowFits(batch[k].id, batch[k].row)
  <2>1. batch[k] \in FileRow /\ RowIs(m, batch[k])
    OBVIOUS
  <2>2. batch[k].id \in RowIds /\ batch[k].row.file \in File /\ batch[k].row.title \in Titles
    BY <2>1 DEF FileRow
  <2>3. batch[k].id[1] = Case(batch[k].row.file)
    BY <2>1 DEF RowIs, boundaryId
  <2> QED BY <2>2, <2>3
<1>2. \A id \in DOMAIN table : RowFits(id, table[id])
  BY DEF RowsInv
<1> HIDE DEF RowFits
<1>3. ASSUME NEW id \in DOMAIN table'
      PROVE  RowFits(id, table'[id])
  <2>1. id \in DOMAIN Merged(table, batch) /\ table'[id] = Merged(table, batch)[id]
    OBVIOUS
  <2>2. \/ \E k \in DOMAIN batch : batch[k].id = id /\ Merged(table, batch)[id] = batch[k].row
        \/ id \in DOMAIN table /\ Merged(table, batch)[id] = table[id]
    BY <2>1, MergedIs
  <2> QED BY <1>1, <1>2, <2>1, <2>2
<1>4. IsFiniteSet(DOMAIN table')
  <2> DEFINE ids == {b.id : b \in ToSet(batch)}
             idAt == [k \in DOMAIN batch |-> batch[k].id]
  <2>1. DOMAIN table' = DOMAIN table \cup ids
    BY DEF Merged
  <2>2. Len(batch) \in Nat /\ DOMAIN batch = 1 .. Len(batch)
    OBVIOUS
  <2>3. IsFiniteSet(DOMAIN batch)
    BY <2>2, FS_Interval
  <2>4. \A x : x \in ids <=> \E k \in DOMAIN batch : x = batch[k].id
    BY DEF ToSet
  <2>5. idAt \in Surjection(DOMAIN batch, ids)
    <3> HIDE DEF ids
    <3> QED BY <2>4 DEF Surjection
  <2>6. IsFiniteSet(ids)
    <3> HIDE DEF ids, idAt
    <3> QED BY <2>3, <2>5, FS_Surjection
  <2> HIDE DEF ids
  <2> QED BY <2>1, <2>6, FS_Union DEF RowsInv
<1> QED BY <1>3, <1>4 DEF RowsInv, RowFits

\* A MERGE by i, and what it is to the others.
LEMMA LoadKeepsTypes ==
  ASSUME TypedInv, NEW i \in Importers, Load(i)
  PROVE  /\ TypedInv' /\ imp[i].pc = "load"
         /\ cbos' = cbos /\ events' = events /\ table' = Merged(table, Batch(imp[i].got))
         /\ excused' = IF imp[i].crossed THEN excused \cup {b.id[1] : b \in ToSet(Batch(imp[i].got))} ELSE excused
         /\ \A j \in Importers \ {i} : SameWork(imp[j], imp'[j]) /\ imp'[j].current = FALSE /\ imp'[j].crossed = TRUE
         /\ imp'[i].scope = imp[i].scope /\ imp'[i].event = imp[i].event /\ imp'[i].named = imp[i].named
         /\ imp'[i].current = imp[i].current /\ imp'[i].crossed = imp[i].crossed
         /\ imp'[i].todo = {} /\ imp'[i].failures = imp[i].failures /\ imp'[i].got = Rest(imp[i].got)
         /\ imp'[i].pc = IF imp'[i].got = <<>> THEN "end" ELSE "load"
<1> DEFINE batch == Batch(imp[i].got)
           rest == Rest(imp[i].got)
           n == [imp[i] EXCEPT !.got = rest, !.pc = IF rest = <<>> THEN "end" ELSE imp[i].pc]
<1>1. /\ imp[i].pc = "load"
      /\ table' = Merged(table, batch)
      /\ imp' = [j \in Importers |-> IF j = i THEN n ELSE [imp[j] EXCEPT !.current = FALSE, !.crossed = TRUE]]
      /\ excused' = IF imp[i].crossed THEN excused \cup {b.id[1] : b \in ToSet(batch)} ELSE excused
      /\ UNCHANGED <<cbos, deleted, title, saves, events, begun>>
  BY DEF Load, Batch, Rest, inCbos
<1>2. /\ WellFormed(imp[i]) /\ imp[i] \in Import /\ imp[i].got \in Seq(FileRow) /\ imp[i].todo = {}
      /\ \A k \in DOMAIN imp[i].got : RowIs(imp[i], imp[i].got[k])
  BY <1>1 DEF TypedInv, ImportsInv, WellFormed, Import
<1>3. /\ batch \in Seq(FileRow) /\ rest \in Seq(FileRow)
      /\ FilesIn(rest) \subseteq FilesIn(imp[i].got)
      /\ \A k \in DOMAIN batch : RowIs(imp[i], batch[k])
      /\ \A k \in DOMAIN rest : RowIs(imp[i], rest[k])
  <2> HIDE DEF batch, rest
  <2>1. /\ batch \in Seq(FileRow) /\ rest \in Seq(FileRow)
        /\ FilesIn(imp[i].got) = FilesIn(batch) \cup FilesIn(rest)
        /\ \A k \in DOMAIN batch : k \in DOMAIN imp[i].got /\ batch[k] = imp[i].got[k]
        /\ \A k \in DOMAIN rest : \E l \in DOMAIN imp[i].got : rest[k] = imp[i].got[l]
    BY <1>2, BatchHolds DEF batch, rest
  <2> QED BY <1>2, <2>1
<1> HIDE DEF batch, rest
<1>4. RowsInv'
  BY <1>1, <1>3, MergeKeepsRows DEF TypedInv
<1>5. CbosInv' /\ EventsInv'
  <2>1. \A b \in ToSet(batch) : b.id[1] \in Cases
    <3>1. \A k \in DOMAIN batch : batch[k] \in FileRow
      BY <1>3
    <3>2. \A k \in DOMAIN batch : batch[k].id[1] \in Cases
      BY <3>1 DEF FileRow, RowIds
    <3> QED BY <3>2 DEF ToSet
  <2>2. excused' \subseteq Cases
    BY <1>1, <2>1 DEF TypedInv, CbosInv
  <2> QED BY <1>1, <2>2 DEF TypedInv, CbosInv, EventsInv
<1>6. /\ n \in Import
      /\ n.scope = imp[i].scope /\ n.event = imp[i].event /\ n.named = imp[i].named /\ n.titles = imp[i].titles
      /\ n.current = imp[i].current /\ n.crossed = imp[i].crossed
      /\ n.todo = {} /\ n.failures = imp[i].failures /\ n.got = rest
      /\ n.pc = IF rest = <<>> THEN "end" ELSE "load"
  BY <1>1, <1>2, <1>3 DEF Import
<1> HIDE DEF n
<1>7. WellFormed(n)
  <2>1. /\ imp[i].titles \in [Cases -> Titles]
        /\ \A g \in imp[i].failures \cup FilesIn(imp[i].got) :
             Case(g) \in imp[i].scope /\ (g.name # Missing => g \in DOMAIN imp[i].named)
        /\ \A g \in DOMAIN imp[i].named : g.name # Missing /\ Case(g) \in imp[i].scope
    BY <1>1, <1>2 DEF WellFormed
  <2>2. \A k \in DOMAIN n.got : RowIs(n, n.got[k])
    BY <1>3, <1>6 DEF RowIs
  <2>3. \A g \in n.todo \cup n.failures \cup FilesIn(n.got) :
          Case(g) \in n.scope /\ (g.name # Missing => g \in DOMAIN n.named)
    BY <1>3, <1>6, <2>1
  <2> QED BY <1>6, <2>1, <2>2, <2>3 DEF WellFormed
<1>8. ASSUME NEW j \in Importers \ {i}
      PROVE  /\ SameWork(imp[j], imp'[j]) /\ imp'[j].current = FALSE /\ imp'[j].crossed = TRUE
             /\ WellFormed(imp'[j])
  <2>1. WellFormed(imp[j]) /\ imp[j] \in Import
    BY DEF TypedInv, ImportsInv, WellFormed
  <2>2. imp'[j] = [imp[j] EXCEPT !.current = FALSE, !.crossed = TRUE]
    BY <1>1
  <2>3. /\ imp'[j] \in Import /\ SameWork(imp[j], imp'[j])
        /\ imp'[j].current = FALSE /\ imp'[j].crossed = TRUE
    BY <2>1, <2>2 DEF Import, SameWork
  <2> QED BY <2>1, <2>3, Reformed
<1>9. imp'[i] = n
  BY <1>1
<1>10. ImportsInv'
  <2>1. imp' \in [Importers -> Import]
    <3>1. \A j \in Importers : imp'[j] \in Import
      BY <1>7, <1>8, <1>9 DEF WellFormed
    <3> QED BY <1>1, <3>1
  <2>2. \A j \in Importers : WellFormed(imp'[j])
    BY <1>7, <1>8, <1>9
  <2>3. IsOf(i, imp'[i], events')
    BY <1>1, <1>6, <1>9 DEF TypedInv, ImportsInv, IsOf
  <2>4. \A j \in Importers \ {i} : IsOf(j, imp'[j], events')
    <3> TAKE j \in Importers \ {i}
    <3>1. IsOf(j, imp[j], events) /\ SameWork(imp[j], imp'[j])
      BY <1>8 DEF TypedInv, ImportsInv
    <3> QED BY <1>1, <3>1 DEF IsOf, SameWork
  <2> QED BY <2>1, <2>2, <2>3, <2>4 DEF ImportsInv
<1> QED BY <1>1, <1>4, <1>5, <1>6, <1>8, <1>9, <1>10 DEF TypedInv, batch, rest

Waiting(c) == \E e \in DOMAIN events : events[e].case = c /\ events[e].status = "waiting"

\* What waits goes on waiting.
EventsKept == \A c : Waiting(c) => Waiting(c)'

\* The event of the subscriber's import is tried again, or is a dead letter.
Returned(i) ==
  IF i = "subscriber"
  THEN \E c \in Cases : /\ imp[i].scope = {c}
                        /\ \/ Waiting(c)' /\ excused' = excused
                           \/ excused' = excused \cup {c}
  ELSE events' = events /\ excused' = excused

Missed(i) == {f \in imp[i].failures : f.good}

\* An import is over: its event is what became of it.
LEMMA ImportIsOver ==
  ASSUME TypedInv, NEW i \in Importers, imp[i].pc # "idle", imp' = [imp EXCEPT ![i] = Idle],
         UNCHANGED <<inCbos, table, begun>>,
         \/ i = "subscriber" /\ Redelivered(imp[i].event)
         \/ i = "admin" /\ events' = events
         \/ i = "subscriber" /\ Settled(imp[i].event, "done"),
         excused' \subseteq Cases
  PROVE  /\ TypedInv' /\ EventsKept
         /\ imp'[i] = Idle /\ \A j \in Importers \ {i} : imp'[j] = imp[j]
         /\ i = "subscriber" /\ Redelivered(imp[i].event) => Returned(i)
<1> DEFINE e == imp[i].event
<1>1. WellFormed(imp[i]) /\ IsOf(i, imp[i], events) /\ EventsInv
  BY DEF TypedInv, ImportsInv
<1>2. i = "subscriber" => /\ e \in DOMAIN events /\ events[e].status = "locked"
                          /\ events[e].case \in Cases /\ imp[i].scope = {events[e].case}
  BY <1>1 DEF IsOf
<1> HIDE DEF e
<1>3. /\ EventsInv' /\ DOMAIN events' = DOMAIN events
      /\ \A x \in DOMAIN events : events'[x].case = events[x].case
      /\ \A x \in DOMAIN events : (x = e /\ i = "subscriber") \/ events'[x] = events[x]
  <2>1. CASE i = "subscriber" /\ Redelivered(imp[i].event)
    BY <1>1, <1>2, <2>1, RedeliveredIs DEF e
  <2>2. CASE i = "admin" /\ events' = events
    BY <1>1, <2>2 DEF EventsInv
  <2>3. CASE i = "subscriber" /\ Settled(imp[i].event, "done")
    BY <1>1, <1>2, <2>3, SettledIs DEF e
  <2> QED BY <2>1, <2>2, <2>3
<1>4. EventsKept
  BY <1>2, <1>3 DEF EventsKept, Waiting
<1>5. i = "subscriber" /\ Redelivered(imp[i].event) => Returned(i)
  <2> SUFFICES ASSUME i = "subscriber", Redelivered(imp[i].event) PROVE Returned(i)
    OBVIOUS
  <2>1. \/ events'[e].status = "waiting" /\ excused' = excused
        \/ excused' = excused \cup {events[e].case}
    BY <1>1, <1>2, RedeliveredIs DEF e
  <2>2. e \in DOMAIN events' /\ events'[e].case = events[e].case
    BY <1>2, <1>3
  <2> QED BY <1>2, <2>1, <2>2 DEF Returned, Waiting
<1>6. CbosInv' /\ RowsInv'
  BY DEF TypedInv, CbosInv, RowsInv, inCbos
<1>7. IsOf(i, Idle, events')
  BY BeginsIdle DEF IsOf
<1>8. \A j \in Importers \ {i} : IsOf(j, imp[j], events')
  <2> TAKE j \in Importers \ {i}
  <2>1. IsOf(j, imp[j], events)
    BY DEF TypedInv, ImportsInv
  <2>2. CASE j = "admin"
    BY <2>1, <2>2 DEF IsOf
  <2>3. CASE j # "admin"
    <3>1. j = "subscriber" /\ i = "admin"
      BY <2>3, ImportersAre
    <3>2. \A x \in DOMAIN events : events'[x] = events[x]
      BY <1>3, <3>1
    <3> QED BY <1>3, <2>1, <3>2 DEF IsOf
  <2> QED BY <2>2, <2>3
<1>9. ImportsInv' /\ imp'[i] = Idle /\ \A j \in Importers \ {i} : imp'[j] = imp[j]
  BY <1>7, <1>8, BeginsIdle, OneGoesOn DEF TypedInv
<1> QED BY <1>3, <1>4, <1>5, <1>6, <1>9 DEF TypedInv

LEMMA EndKeepsTypes ==
  ASSUME TypedInv, NEW i \in Importers, End(i)
  PROVE  /\ TypedInv' /\ EventsKept /\ imp[i].pc = "end"
         /\ cbos' = cbos /\ table' = table
         /\ imp'[i] = Idle /\ \A j \in Importers \ {i} : imp'[j] = imp[j]
         /\ \/ i = "subscriber" /\ Returned(i)
            \/ imp[i].current /\ Missed(i) = {} /\ excused' = excused \ imp[i].scope
            \/ ~(imp[i].current /\ Missed(i) = {}) /\ excused' = excused \cup {Case(f) : f \in Missed(i)}
<1>1. /\ imp[i].pc = "end" /\ imp' = [imp EXCEPT ![i] = Idle] /\ UNCHANGED <<inCbos, table, begun>>
      /\ \/ /\ IF i = "subscriber" THEN Settled(imp[i].event, "done") ELSE UNCHANGED events
            /\ excused' = IF imp[i].current /\ Missed(i) = {} THEN excused \ imp[i].scope
                          ELSE excused \cup {Case(f) : f \in Missed(i)}
         \/ i = "subscriber" /\ Redelivered(imp[i].event)
  BY DEF End, Missed
<1>2. excused \subseteq Cases
  BY DEF TypedInv, CbosInv
<1>3. CASE i = "subscriber" /\ Redelivered(imp[i].event)
  <2>1. excused' \subseteq Cases
    <3>1. imp[i].event \in DOMAIN events /\ events[imp[i].event].case \in Cases
      BY <1>1, <1>3 DEF TypedInv, ImportsInv, IsOf
    <3> QED BY <1>2, <1>3, <3>1 DEF Redelivered
  <2> QED BY <1>1, <1>3, <2>1, ImportIsOver DEF inCbos
<1>4. CASE /\ IF i = "subscriber" THEN Settled(imp[i].event, "done") ELSE UNCHANGED events
           /\ excused' = IF imp[i].current /\ Missed(i) = {} THEN excused \ imp[i].scope
                         ELSE excused \cup {Case(f) : f \in Missed(i)}
  <2>1. {Case(f) : f \in Missed(i)} \subseteq Cases
    <3>1. Missed(i) \subseteq File
      BY DEF Missed, TypedInv, ImportsInv, WellFormed, Import
    <3> QED BY <3>1, FileFields
  <2>2. excused' \subseteq Cases
    BY <1>2, <1>4, <2>1
  <2>3. \/ i = "admin" /\ events' = events
        \/ i = "subscriber" /\ Settled(imp[i].event, "done")
    BY <1>4, ImportersAre
  <2>4. imp[i].pc # "idle"
    BY <1>1
  <2>5. /\ TypedInv' /\ EventsKept
        /\ imp'[i] = Idle /\ \A j \in Importers \ {i} : imp'[j] = imp[j]
    BY <1>1, <2>2, <2>3, <2>4, ImportIsOver
  <2> QED BY <1>1, <1>4, <2>5 DEF inCbos
<1> QED BY <1>1, <1>3, <1>4

LEMMA FailureKeepsTypes ==
  ASSUME TypedInv, NEW i \in Importers, ImportFails(i)
  PROVE  /\ TypedInv' /\ EventsKept /\ Returned(i)
         /\ cbos' = cbos /\ table' = table
         /\ imp'[i] = Idle /\ \A j \in Importers \ {i} : imp'[j] = imp[j]
<1>1. /\ imp[i].pc # "idle" /\ imp' = [imp EXCEPT ![i] = Idle] /\ UNCHANGED <<inCbos, table, begun>>
      /\ IF i = "subscriber" THEN Redelivered(imp[i].event) ELSE UNCHANGED <<events, excused>>
  BY DEF ImportFails
<1>2. excused' \subseteq Cases
  <2>1. excused \subseteq Cases
    BY DEF TypedInv, CbosInv
  <2>2. CASE i = "subscriber"
    <3>1. imp[i].event \in DOMAIN events /\ events[imp[i].event].case \in Cases
      BY <1>1, <2>2 DEF TypedInv, ImportsInv, IsOf
    <3> QED BY <1>1, <2>1, <2>2, <3>1 DEF Redelivered
  <2>3. CASE i # "subscriber"
    BY <1>1, <2>1, <2>3
  <2> QED BY <2>2, <2>3
<1>3. \/ i = "subscriber" /\ Redelivered(imp[i].event)
      \/ i = "admin" /\ events' = events /\ excused' = excused
  BY <1>1, ImportersAre
<1>4. /\ TypedInv' /\ EventsKept
      /\ imp'[i] = Idle /\ \A j \in Importers \ {i} : imp'[j] = imp[j]
      /\ i = "subscriber" /\ Redelivered(imp[i].event) => Returned(i)
  BY <1>1, <1>2, <1>3, ImportIsOver
<1> QED BY <1>1, <1>3, <1>4, ImportersAre DEF Returned, inCbos

------------------------------------------------------------------------------
(* ... and so does each change in CBOS *)

\* The files of a case are what they were.
SameFiles(c) == \A f : Case(f) = c => (f \in cbos <=> f \in cbos')

\* What an import has is the same, and it is no more current, nor less crossed.
Unmoved(i) ==
  /\ SameWork(imp[i], imp'[i])
  /\ imp'[i].current => imp[i].current
  /\ imp[i].crossed => imp'[i].crossed

\* A change to c: an event, a case excused, or nothing that the files are part of.
ChangeTo(c) ==
  /\ table' = table /\ EventsKept
  /\ \A i \in Importers : Unmoved(i) /\ ~(imp'[i].current /\ c \in imp[i].scope)
  /\ \A d \in Cases \ {c} : SameFiles(d)
  /\ excused \subseteq excused'
  /\ \/ Waiting(c)'
     \/ c \in excused'
     \/ cbos' = cbos

LEMMA EventsStayKept ==
  ASSUME EventsStay
  PROVE  EventsKept
BY DEF EventsStay, EventsKept, Waiting

LEMMA AddVersionIs ==
  ASSUME TypedInv, NEW upload \in Uploads, NEW at \in {saves, saves + 1}, AddVersion(upload, at)
  PROVE  TypedInv' /\ ChangeTo(CaseOf[upload.document])
<1> DEFINE c == CaseOf[upload.document]
<1>1. /\ Publish(c) /\ Changed(c) /\ table' = table /\ excused' = excused
  BY DEF AddVersion
<1>2. /\ CbosInv' /\ c \in Cases
      /\ \E f \in File : cbos' = cbos \cup {f} /\ Case(f) = c
  BY AddVersionKeepsCbos DEF TypedInv
<1> HIDE DEF c
<1>3. EventsInv' /\ EventsStay /\ Waiting(c)'
  BY <1>1, <1>2, PublishKeeps DEF TypedInv, EventsStay, Waiting
<1>4. /\ ImportsInv'
      /\ \A i \in Importers :
           /\ SameWork(imp[i], imp'[i]) /\ imp'[i].crossed = imp[i].crossed
           /\ imp'[i].current = (imp[i].current /\ c \notin imp[i].scope)
  BY <1>1, <1>2, <1>3, ChangedKeeps DEF TypedInv
<1>5. RowsInv'
  BY <1>1 DEF TypedInv, RowsInv
<1>6. \A d \in Cases \ {c} : SameFiles(d)
  BY <1>2 DEF SameFiles
<1>7. \A i \in Importers : Unmoved(i) /\ ~(imp'[i].current /\ c \in imp[i].scope)
  BY <1>4 DEF Unmoved
<1>8. ChangeTo(c)
  BY <1>1, <1>3, <1>6, <1>7, EventsStayKept DEF ChangeTo
<1> QED BY <1>2, <1>3, <1>4, <1>5, <1>8 DEF TypedInv, c

LEMMA DeleteDocumentIs ==
  ASSUME TypedInv, NEW d \in Documents, DeleteDocument(d)
  PROVE  TypedInv' /\ ChangeTo(CaseOf[d])
<1> DEFINE c == CaseOf[d]
<1>1. /\ cbos' = {f \in cbos : f.document # d} /\ excused' = excused \cup {c} /\ Changed(c)
      /\ UNCHANGED <<title, events, table, begun>>
  BY DEF DeleteDocument
<1>2. CbosInv' /\ c \in Cases
  BY DeleteKeepsCbos DEF TypedInv
<1>3. \A f \in cbos : Case(f) # c => f \in cbos'
  BY <1>1 DEF Case
<1> HIDE DEF c
<1>4. EventsInv' /\ EventsStay /\ RowsInv'
  BY <1>1 DEF TypedInv, EventsInv, EventsStay, RowsInv
<1>5. /\ ImportsInv'
      /\ \A i \in Importers :
           /\ SameWork(imp[i], imp'[i]) /\ imp'[i].crossed = imp[i].crossed
           /\ imp'[i].current = (imp[i].current /\ c \notin imp[i].scope)
  BY <1>1, <1>2, <1>4, ChangedKeeps DEF TypedInv
<1>6. \A x \in Cases \ {c} : SameFiles(x)
  BY <1>1, <1>3 DEF SameFiles
<1>7. \A i \in Importers : Unmoved(i) /\ ~(imp'[i].current /\ c \in imp[i].scope)
  BY <1>5 DEF Unmoved
<1>8. ChangeTo(c)
  BY <1>1, <1>4, <1>6, <1>7, EventsStayKept DEF ChangeTo
<1> QED BY <1>2, <1>4, <1>5, <1>8 DEF TypedInv, c

LEMMA RenameIs ==
  ASSUME TypedInv, NEW c \in Cases, NEW t \in Titles, Rename(c, t)
  PROVE  TypedInv' /\ ChangeTo(c)
<1>1. /\ saves < MaxSaves /\ title' = [title EXCEPT ![c] = t] /\ saves' = saves + 1 /\ Changed(c)
      /\ UNCHANGED <<cbos, deleted, events, table, begun, excused>>
  BY DEF Rename
<1>2. CbosInv'
  <2>1. saves' \in 0 .. MaxSaves /\ Cardinality(cbos) \in Nat
        /\ (Cardinality(cbos) <= saves => Cardinality(cbos) <= saves')
    BY <1>1, FS_CardinalityType, CbosAssumption DEF TypedInv, CbosInv
  <2>2. title' \in [Cases -> Titles]
    BY <1>1 DEF TypedInv, CbosInv
  <2> QED BY <1>1, <2>1, <2>2 DEF TypedInv, CbosInv, Apart
<1>3. EventsInv' /\ EventsStay /\ RowsInv'
  BY <1>1 DEF TypedInv, EventsInv, EventsStay, RowsInv
<1>4. /\ ImportsInv'
      /\ \A i \in Importers :
           /\ SameWork(imp[i], imp'[i]) /\ imp'[i].crossed = imp[i].crossed
           /\ imp'[i].current = (imp[i].current /\ c \notin imp[i].scope)
  BY <1>1, <1>3, ChangedKeeps DEF TypedInv
<1>5. \A i \in Importers : Unmoved(i) /\ ~(imp'[i].current /\ c \in imp[i].scope)
  BY <1>4 DEF Unmoved
<1>6. ChangeTo(c)
  BY <1>1, <1>3, <1>5, EventsStayKept DEF ChangeTo, SameFiles
<1> QED BY <1>2, <1>3, <1>4, <1>6 DEF TypedInv

LEMMA PublishOtherIs ==
  ASSUME TypedInv, PublishOther
  PROVE  TypedInv' /\ ChangeTo(Missing)
<1>1. /\ saves < MaxSaves /\ saves' = saves + 1 /\ Publish(Missing)
      /\ UNCHANGED <<cbos, deleted, title, table, imp, begun, excused>>
  BY DEF PublishOther
<1>2. CbosInv'
  <2>1. saves' \in 0 .. MaxSaves /\ Cardinality(cbos) \in Nat
        /\ (Cardinality(cbos) <= saves => Cardinality(cbos) <= saves')
    BY <1>1, FS_CardinalityType, CbosAssumption DEF TypedInv, CbosInv
  <2> QED BY <1>1, <2>1 DEF TypedInv, CbosInv, Apart
<1>3. EventsInv' /\ EventsStay
  BY <1>1, PublishKeeps DEF TypedInv, EventsStay
<1>4. RowsInv'
  BY <1>1 DEF TypedInv, RowsInv
<1>5. ImportsInv'
  BY <1>1, <1>3 DEF TypedInv, ImportsInv, IsOf, EventsStay
<1>6. \A i \in Importers : Unmoved(i) /\ ~(imp'[i].current /\ Missing \in imp[i].scope)
  <2> TAKE i \in Importers
  <2>1. imp[i].scope \subseteq Cases
    BY DEF TypedInv, ImportsInv, Import
  <2> QED BY <1>1, <2>1, CbosAssumption DEF Unmoved, SameWork
<1>7. ChangeTo(Missing)
  BY <1>1, <1>3, <1>6, EventsStayKept DEF ChangeTo, SameFiles
<1> QED BY <1>2, <1>3, <1>4, <1>5, <1>7 DEF TypedInv

\* Every step keeps the types.
LEMMA TypedKept == TypedInv /\ [CbosNext]_cbosVars => TypedInv'
<1> SUFFICES ASSUME TypedInv, [CbosNext]_cbosVars PROVE TypedInv'
  OBVIOUS
<1>1. ASSUME NEW upload \in Uploads, NEW at \in {saves, saves + 1}, AddVersion(upload, at) PROVE TypedInv'
  BY <1>1, AddVersionIs
<1>2. ASSUME NEW d \in Documents, DeleteDocument(d) PROVE TypedInv'
  BY <1>2, DeleteDocumentIs
<1>3. ASSUME NEW c \in Cases, NEW t \in Titles, Rename(c, t) PROVE TypedInv'
  BY <1>3, RenameIs
<1>4. CASE PublishOther
  BY <1>4, PublishOtherIs
<1>5. ASSUME NEW e \in DOMAIN events, TakeEvent(e) PROVE TypedInv'
  BY <1>5, TakeEventKeepsTypes
<1>6. CASE RunImportFromCbos
  BY <1>6, RunImportKeepsTypes
<1>7. ASSUME NEW i \in Importers, ImportStep(i) PROVE TypedInv'
  BY <1>7, ListKeepsTypes, LoadKeepsTypes, EndKeepsTypes, FailureKeepsTypes, FetchKeepsTypes DEF ImportStep
<1>8. CASE UNCHANGED cbosVars
  BY <1>8 DEF cbosVars, TypedInv, CbosInv, Apart, EventsInv, RowsInv, ImportsInv, IsOf
<1> QED BY <1>1, <1>2, <1>3, <1>4, <1>5, <1>6, <1>7, <1>8 DEF CbosNext

\* Every variable of the CBOS import has a value of its kind, and each row is of its case.
THEOREM CbosIsTyped == CbosSpec => []CbosTypeOK
<1>1. CbosSpec => []TypedInv
  BY InitTyped, TypedKept, PTL DEF CbosSpec
<1> QED BY <1>1, TypedIsTyped, PTL

------------------------------------------------------------------------------
(* A case in step: what is kept of it, what an import carries, what mends it *)

\* What is to be kept of a case, and whether the row its name gives it has it, or one
\* that shares that row.
Names == distinctFileNames(cbos)
Kept(c) == {f \in FilesOf(c) : f.good}
Right(f) == LET id == boundaryId(Names, f) IN id \in DOMAIN table /\ table[id].file \in Sharing(Names, f)
InStep(c) == \A f \in Kept(c) : Right(f)

\* An import that has listed; whether its names of c's files are still theirs, and what
\* it has of c is still there - all that is kept of c, while it fetches; and whether it
\* has, or the table has, everything kept of c.
HasListed(i) == imp[i].pc \in {"fetch", "load", "end"}
InHand(i) == imp[i].todo \cup imp[i].failures \cup FilesIn(imp[i].got)
Fresh(i, c) ==
  /\ \A f \in cbos : Case(f) = c /\ f.name # Missing => imp[i].named[f] = Names[f]
  /\ \A f \in InHand(i) : Case(f) = c => f \in cbos
  /\ imp[i].pc = "fetch" => Kept(c) \subseteq InHand(i)
Carried(i, c) == \A f \in Kept(c) : f \in InHand(i) \/ (imp[i].pc # "fetch" /\ Right(f))

\* An import that will have c in step, or c excused, when it ends.
Mending(i, c) ==
  /\ c \in imp[i].scope
  /\ \/ imp[i].pc = "list"
     \/ imp[i].pc \in {"fetch", "load"} /\ Fresh(i, c)
     \/ imp[i].pc = "end" /\ Kept(c) \subseteq imp[i].failures

Other(i) == IF i = "admin" THEN "subscriber" ELSE "admin"

\* If i's listing of c is out of date, there is something that makes up for it: an event,
\* the subscriber's import, or c's being excused for as long as nothing ends that.
Awaited(i, c) ==
  \/ Waiting(c)
  \/ Kept(c) = {}
  \/ c \in excused /\ (HasListed(Other(i)) /\ imp[Other(i)].current /\ c \in imp[Other(i)].scope => Mending(Other(i), c))
  \/ i = "admin" /\ Mending("subscriber", c)

\* An import that nothing has come after has everything kept of its cases.
CurrentOf(i, c) == HasListed(i) /\ imp[i].current /\ c \in imp[i].scope => Fresh(i, c) /\ Carried(i, c)

\* What no one has loaded over is fresh, or is made up for.
StaleOf(i, c) ==
  c \in imp[i].scope /\ imp[i].pc \in {"fetch", "load"} /\ ~imp[i].crossed => Fresh(i, c) \/ Awaited(i, c)

\* The subscriber's import has c, and will have it in step.
BeingMended(c) ==
  LET m == imp["subscriber"]
  IN /\ c \in m.scope
     /\ \/ m.pc = "list"
        \/ m.pc = "fetch" /\ Fresh("subscriber", c)
        \/ m.pc = "load" /\ Fresh("subscriber", c) /\ (m.crossed \/ Carried("subscriber", c))
        \/ m.pc = "end" /\ Carried("subscriber", c)

\* A case is in step, or it is excused, an event of it waits, or it is being mended.
StepOf(c) == c \in excused \/ Waiting(c) \/ InStep(c) \/ BeingMended(c)

CaseInv(c) == /\ \A i \in Importers : CurrentOf(i, c) /\ StaleOf(i, c)
              /\ StepOf(c)

InStepInv == /\ TypedInv
             /\ \A c \in Cases : CaseInv(c)

LEMMA InStepBegins == CbosInit => InStepInv
<1> SUFFICES ASSUME CbosInit PROVE InStepInv
  OBVIOUS
<1>1. \A i \in Importers : imp[i].pc = "idle" /\ imp[i].scope = {}
  BY DEF CbosInit, Idle
<1>2. \A i \in Importers : \A c : CurrentOf(i, c) /\ StaleOf(i, c)
  BY <1>1 DEF CurrentOf, StaleOf, HasListed
<1>3. \A c : StepOf(c)
  BY DEF CbosInit, StepOf, InStep, Kept, FilesOf
<1> QED BY <1>2, <1>3, InitTyped DEF InStepInv, CaseInv

\* The names of a case's files, and who shares a row, are by those files alone.
LEMMA NamesOfItsOwn ==
  ASSUME NEW F, NEW G, NEW c, \A f : Case(f) = c => (f \in F <=> f \in G), NEW f \in F, Case(f) = c
  PROVE  boundaryId(distinctFileNames(F), f) = boundaryId(distinctFileNames(G), f)
<1>1. f.name # Missing => f \in DOMAIN distinctFileNames(F)
  BY DEF distinctFileNames
<1>2. \A g : Case(g) = c =>
        /\ g \in DOMAIN distinctFileNames(F) <=> g \in DOMAIN distinctFileNames(G)
        /\ g \in DOMAIN distinctFileNames(F) => distinctFileNames(F)[g] = distinctFileNames(G)[g]
  BY NamesAreLocal
<1> QED BY <1>1, <1>2 DEF boundaryId

\* A case at rest that is not excused is in step, so its newest file has its own name.
LEMMA InStepIsKept == InStepInv => KeptInStep
<1> SUFFICES ASSUME InStepInv,
                    NEW c \in Cases, AtRest(c), c \notin excused,
                    NEW f \in FilesOf(c), f.good
             PROVE  LET named == distinctFileNames(FilesOf(c))
                    IN /\ boundaryId(named, f) \in DOMAIN table
                       /\ table[boundaryId(named, f)].file \in Sharing(named, f)
                       /\ f.name # Missing /\ (\A g \in FilesOf(c) : g.name = f.name => ~Newer(g, f))
                            => boundaryId(named, f) = <<c, <<f.name>>>>
  BY DEF KeptInStep
<1> DEFINE named == distinctFileNames(FilesOf(c))
<1>1. ~Waiting(c) /\ ~BeingMended(c)
  BY ImportersAre DEF AtRest, Waiting, BeingMended
<1>2. Right(f)
  BY <1>1 DEF InStepInv, CaseInv, StepOf, InStep, Kept
<1>3. f \in cbos /\ Case(f) = c
  BY DEF FilesOf
<1>4. \A g \in FilesOf(c) : boundaryId(named, g) = boundaryId(Names, g)
  <2>1. \A g : Case(g) = c => (g \in FilesOf(c) <=> g \in cbos)
    BY DEF FilesOf
  <2>2. \A g \in FilesOf(c) : Case(g) = c
    BY DEF FilesOf
  <2> QED BY <2>1, <2>2, NamesOfItsOwn DEF Names
<1>5. boundaryId(named, f) = boundaryId(Names, f) /\ Sharing(named, f) = Sharing(Names, f)
  <2> HIDE DEF named
  <2> QED BY <1>3, <1>4 DEF Sharing
<1>6. ASSUME f.name # Missing, \A g \in FilesOf(c) : g.name = f.name => ~Newer(g, f)
      PROVE  boundaryId(named, f) = <<c, <<f.name>>>>
  <2>1. named[f] = <<f.name>>
    BY <1>6, NewestKeepsItsName
  <2> HIDE DEF named
  <2> QED BY <1>3, <1>6, <2>1 DEF boundaryId
<1> QED BY <1>2, <1>5, <1>6 DEF Right

------------------------------------------------------------------------------
(* What a step leaves of a case it does not reach *)

RightsKept(c) == \A f \in Kept(c) : Right(f) => Right(f)'

\* An import that has nothing to do with c need not be the same.
SameImport(i, c) == c \in imp[i].scope \/ c \in imp'[i].scope => Unmoved(i)

LEMMA KeptSame ==
  ASSUME NEW c, SameFiles(c)
  PROVE  Kept(c)' = Kept(c)
BY DEF SameFiles, Kept, FilesOf

LEMMA RightSame ==
  ASSUME NEW c, SameFiles(c), table' = table
  PROVE  RightsKept(c)
<1> SUFFICES ASSUME NEW f \in Kept(c), Right(f) PROVE Right(f)'
  BY DEF RightsKept
<1>1. \A g \in FilesOf(c) : Case(g) = c /\ g \in cbos /\ boundaryId(Names', g) = boundaryId(Names, g)
  <2>1. \A g : Case(g) = c => (g \in cbos <=> g \in cbos')
    BY DEF SameFiles
  <2>2. \A g \in FilesOf(c) : g \in cbos /\ Case(g) = c
    BY DEF FilesOf
  <2> QED BY <2>1, <2>2, NamesOfItsOwn DEF Names
<1>2. f \in FilesOf(c) /\ FilesOf(c)' = FilesOf(c)
  BY DEF Kept, FilesOf, SameFiles
<1>3. Sharing(Names, f)' = Sharing(Names, f)
  <2>1. FilesOf(Case(f))' = FilesOf(Case(f)) /\ Case(f) = c
    BY <1>1, <1>2
  <2> QED BY <1>1, <1>2, <2>1 DEF Sharing
<1> QED BY <1>1, <1>2, <1>3 DEF Right

LEMMA NamesSame ==
  ASSUME NEW c, SameFiles(c)
  PROVE  \A f : Case(f) = c =>
           /\ f \in DOMAIN distinctFileNames(cbos') <=> f \in DOMAIN distinctFileNames(cbos)
           /\ f \in DOMAIN distinctFileNames(cbos) => distinctFileNames(cbos')[f] = distinctFileNames(cbos)[f]
<1>1. \A f : Case(f) = c => (f \in cbos' <=> f \in cbos)
  BY DEF SameFiles
<1> QED BY <1>1, NamesAreLocal

LEMMA FreshSame ==
  ASSUME NEW c, SameFiles(c), NEW i, SameWork(imp[i], imp'[i])
  PROVE  Fresh(i, c)' <=> Fresh(i, c)
<1>1. /\ imp'[i].named = imp[i].named /\ imp'[i].pc = imp[i].pc /\ InHand(i)' = InHand(i)
      /\ Kept(c)' = Kept(c)
  BY KeptSame DEF SameWork, InHand
<1>2. \A f : Case(f) = c => (f \in cbos' <=> f \in cbos)
  BY DEF SameFiles
<1>3. \A f \in cbos : Case(f) = c /\ f.name # Missing => Names'[f] = Names[f]
  <2>1. \A f \in cbos : f.name # Missing => f \in DOMAIN distinctFileNames(cbos)
    BY DEF distinctFileNames
  <2> QED BY <2>1, NamesSame DEF Names
<1> QED BY <1>1, <1>2, <1>3 DEF Fresh

LEMMA CarriedKept ==
  ASSUME NEW c, SameFiles(c), RightsKept(c), NEW i, SameWork(imp[i], imp'[i]), Carried(i, c)
  PROVE  Carried(i, c)'
BY KeptSame DEF Carried, InHand, SameWork, RightsKept

LEMMA MendingKept ==
  ASSUME NEW c, SameFiles(c), NEW i, SameWork(imp[i], imp'[i]), Mending(i, c)
  PROVE  Mending(i, c)'
BY KeptSame, FreshSame DEF Mending, SameWork

LEMMA AwaitedKept ==
  ASSUME NEW c, SameFiles(c), Waiting(c) => Waiting(c)', c \in excused => c \in excused',
         NEW i, SameImport(Other(i), c), Awaited(i, c)
  PROVE  Awaited(i, c)'
<1> DEFINE o == Other(i)
<1>1. CASE Waiting(c)
  BY <1>1 DEF Awaited
<1>2. CASE Kept(c) = {}
  BY <1>2, KeptSame DEF Awaited
<1>3. CASE c \in excused /\ (HasListed(o) /\ imp[o].current /\ c \in imp[o].scope => Mending(o, c))
  <2>1. ASSUME HasListed(o)', imp'[o].current, c \in imp'[o].scope
        PROVE  Mending(o, c)'
    <3>1. Unmoved(o) /\ SameWork(imp[o], imp'[o])
      BY <2>1 DEF SameImport, Unmoved
    <3>2. HasListed(o) /\ imp[o].current /\ c \in imp[o].scope
      BY <2>1, <3>1 DEF Unmoved, SameWork, HasListed
    <3> QED BY <1>3, <3>1, <3>2, MendingKept
  <2> QED BY <1>3, <2>1 DEF Awaited
<1>4. CASE i = "admin" /\ Mending("subscriber", c)
  <2>1. o = "subscriber" /\ c \in imp[o].scope
    BY <1>4 DEF Other, Mending
  <2>2. SameWork(imp[o], imp'[o])
    BY <2>1 DEF SameImport, Unmoved
  <2>3. Mending("subscriber", c)'
    BY <1>4, <2>1, <2>2, MendingKept
  <2> QED BY <1>4, <2>3 DEF Awaited
<1> QED BY <1>1, <1>2, <1>3, <1>4 DEF Awaited

LEMMA CurrentKept ==
  ASSUME NEW c, SameFiles(c), RightsKept(c), NEW i, SameImport(i, c), CurrentOf(i, c)
  PROVE  CurrentOf(i, c)'
<1> SUFFICES ASSUME HasListed(i)', imp'[i].current, c \in imp'[i].scope PROVE Fresh(i, c)' /\ Carried(i, c)'
  BY DEF CurrentOf
<1>1. Unmoved(i) /\ SameWork(imp[i], imp'[i]) /\ imp'[i].named = imp[i].named
  BY DEF SameImport, Unmoved, SameWork
<1>2. HasListed(i) /\ imp[i].current /\ c \in imp[i].scope
  BY <1>1 DEF Unmoved, SameWork, HasListed
<1>3. Fresh(i, c) /\ Carried(i, c)
  BY <1>2 DEF CurrentOf
<1> QED BY <1>1, <1>3, FreshSame, CarriedKept

LEMMA StaleKept ==
  ASSUME NEW c, SameFiles(c), Waiting(c) => Waiting(c)', c \in excused => c \in excused',
         NEW i, SameImport(i, c), SameImport(Other(i), c), StaleOf(i, c)
  PROVE  StaleOf(i, c)'
<1> SUFFICES ASSUME c \in imp'[i].scope, imp'[i].pc \in {"fetch", "load"}, ~imp'[i].crossed
             PROVE  Fresh(i, c)' \/ Awaited(i, c)'
  BY DEF StaleOf
<1>1. Unmoved(i) /\ SameWork(imp[i], imp'[i])
  BY DEF SameImport, Unmoved, SameWork
<1>2. c \in imp[i].scope /\ imp[i].pc \in {"fetch", "load"} /\ ~imp[i].crossed
  BY <1>1 DEF Unmoved, SameWork
<1>3. Fresh(i, c) \/ Awaited(i, c)
  BY <1>2 DEF StaleOf
<1> QED BY <1>1, <1>3, FreshSame, AwaitedKept

LEMMA StepKept ==
  ASSUME NEW c, SameFiles(c), RightsKept(c), Waiting(c) => Waiting(c)', c \in excused => c \in excused',
         SameImport("subscriber", c), StepOf(c)
  PROVE  StepOf(c)'
<1>1. CASE c \in excused
  BY <1>1 DEF StepOf
<1>2. CASE Waiting(c)
  BY <1>2 DEF StepOf
<1>3. CASE InStep(c)
  <2>1. InStep(c)'
    BY <1>3, KeptSame DEF InStep, RightsKept
  <2> QED BY <2>1 DEF StepOf
<1>4. CASE BeingMended(c)
  <2> DEFINE S == "subscriber"
  <2>1. c \in imp[S].scope
    BY <1>4 DEF BeingMended
  <2>2. Unmoved(S) /\ SameWork(imp[S], imp'[S]) /\ imp'[S].named = imp[S].named
    BY <2>1 DEF SameImport, Unmoved, SameWork
  <2>3. /\ Fresh(S, c) => Fresh(S, c)'
        /\ Carried(S, c) => Carried(S, c)'
    BY <2>2, FreshSame, CarriedKept
  <2>4. BeingMended(c)'
    BY <1>4, <2>2, <2>3 DEF BeingMended, Unmoved, SameWork
  <2> QED BY <2>4 DEF StepOf
<1> QED BY <1>1, <1>2, <1>3, <1>4 DEF StepOf

\* The frame of every step: a case neither its files nor its rows nor its imports of
\* which it changes is as it was.
LEMMA CaseKept ==
  ASSUME NEW c, SameFiles(c), RightsKept(c), Waiting(c) => Waiting(c)', c \in excused => c \in excused',
         \A i \in Importers : SameImport(i, c), CaseInv(c)
  PROVE  CaseInv(c)'
<1>1. ASSUME NEW i \in Importers PROVE CurrentOf(i, c)' /\ StaleOf(i, c)'
  <2>1. CurrentOf(i, c) /\ StaleOf(i, c) /\ SameImport(i, c) /\ SameImport(Other(i), c)
    BY ImportersAre DEF CaseInv, Other
  <2> QED BY <2>1, CurrentKept, StaleKept
<1>2. StepOf(c)'
  BY StepKept, ImportersAre DEF CaseInv
<1> QED BY <1>1, <1>2 DEF CaseInv

------------------------------------------------------------------------------
(* Each step leaves every case in step, or with what makes up for it *)

LEMMA ChangeKeepsStep ==
  ASSUME InStepInv, NEW c, ChangeTo(c), TypedInv'
  PROVE  InStepInv'
<1>1. /\ table' = table /\ EventsKept /\ excused \subseteq excused'
      /\ \A i \in Importers : Unmoved(i) /\ ~(imp'[i].current /\ c \in imp[i].scope)
      /\ \A d \in Cases \ {c} : SameFiles(d)
      /\ Waiting(c)' \/ c \in excused' \/ cbos' = cbos
  BY DEF ChangeTo
<1>2. ASSUME NEW d \in Cases, SameFiles(d) PROVE CaseInv(d)'
  <2>1. RightsKept(d)
    BY <1>1, <1>2, RightSame
  <2>2. \A i \in Importers : SameImport(i, d)
    BY <1>1 DEF SameImport
  <2>3. (Waiting(d) => Waiting(d)') /\ (d \in excused => d \in excused')
    BY <1>1 DEF EventsKept
  <2> QED BY <1>2, <2>1, <2>2, <2>3, CaseKept DEF InStepInv
<1>3. ASSUME c \in Cases, ~SameFiles(c) PROVE CaseInv(c)'
  <2>1. Waiting(c)' \/ c \in excused'
    BY <1>1, <1>3 DEF SameFiles
  <2>2. \A i \in Importers : ~(imp'[i].current /\ c \in imp'[i].scope)
    BY <1>1 DEF Unmoved, SameWork
  <2>3. ASSUME NEW i \in Importers PROVE CurrentOf(i, c)' /\ Awaited(i, c)'
    <3>1. Other(i) \in Importers
      BY ImportersAre DEF Other
    <3> QED BY <2>1, <2>2, <3>1 DEF CurrentOf, Awaited
  <2> QED BY <2>1, <2>3 DEF CaseInv, StaleOf, StepOf
<1> QED BY <1>1, <1>2, <1>3 DEF InStepInv

\* The rows and the files are the same.
LEMMA NothingMoves ==
  ASSUME NEW c, cbos' = cbos, table' = table
  PROVE  SameFiles(c) /\ RightsKept(c)
<1>1. SameFiles(c)
  BY DEF SameFiles
<1> QED BY <1>1, RightSame

LEMMA TakeKeepsStep ==
  ASSUME InStepInv, NEW e \in DOMAIN events, TakeEvent(e)
  PROVE  InStepInv'
<1> DEFINE S == "subscriber"
<1>1. /\ TypedInv' /\ imp[S].pc = "idle"
      /\ DOMAIN events' = DOMAIN events /\ \A x \in DOMAIN events \ {e} : events'[x] = events[x]
  BY TakeEventKeepsTypes DEF InStepInv
<1>2. /\ imp'["admin"] = imp["admin"]
      /\ \/ events[e].case = Missing /\ imp' = imp
         \/ events[e].case \in Cases /\ imp'[S].pc = "list" /\ imp'[S].scope = {events[e].case}
  <2>1. /\ \A j \in Importers \ {S} : imp'[j] = imp[j]
        /\ \/ events[e].case = Missing /\ imp' = imp
           \/ events[e].case \in Cases /\ imp'[S].pc = "list" /\ imp'[S].scope = {events[e].case}
    BY TakeEventKeepsTypes DEF InStepInv
  <2> QED BY <2>1, ImportersAre
<1>3. cbos' = cbos /\ table' = table /\ excused' = excused
  BY DEF TakeEvent, inCbos
<1>4. imp[S].scope = {}
  BY <1>1, ImportersAre DEF InStepInv, TypedInv, ImportsInv, WellFormed
<1>5. \A c : SameImport("admin", c)
  BY <1>2 DEF SameImport, Unmoved, SameWork
<1>6. ASSUME NEW c \in Cases, c # events[e].case PROVE CaseInv(c)'
  <2>1. Waiting(c) => Waiting(c)'
    BY <1>1, <1>6 DEF Waiting
  <2>2. SameImport(S, c)
    BY <1>2, <1>4, <1>6 DEF SameImport, Unmoved, SameWork
  <2>3. \A i \in Importers : SameImport(i, c)
    BY <1>5, <2>2, ImportersAre
  <2>4. c \in excused => c \in excused'
    BY <1>3
  <2> QED BY <1>3, <2>1, <2>3, <2>4, NothingMoves, CaseKept DEF InStepInv
<1>7. ASSUME NEW c \in Cases, c = events[e].case PROVE CaseInv(c)'
  <2>1. imp'[S].pc = "list" /\ c \in imp'[S].scope
    BY <1>2, <1>7, CbosAssumption
  <2>2. Mending(S, c)' /\ StepOf(c)' /\ CurrentOf(S, c)' /\ StaleOf(S, c)'
    BY <2>1 DEF Mending, StepOf, BeingMended, CurrentOf, StaleOf, HasListed
  <2>3. CurrentOf("admin", c)'
    BY <1>3, <1>5, NothingMoves, CurrentKept, ImportersAre DEF InStepInv, CaseInv
  <2>4. StaleOf("admin", c)'
    BY <2>2 DEF StaleOf, Awaited
  <2> QED BY <2>2, <2>3, <2>4, ImportersAre DEF CaseInv
<1> QED BY <1>1, <1>6, <1>7 DEF InStepInv

LEMMA RunKeepsStep ==
  ASSUME InStepInv, RunImportFromCbos
  PROVE  InStepInv'
<1> DEFINE S == "subscriber"
<1>1. /\ TypedInv' /\ imp["admin"].pc = "idle" /\ imp'["admin"].pc = "list" /\ imp'[S] = imp[S]
  BY RunImportKeepsTypes DEF InStepInv
<1>2. cbos' = cbos /\ table' = table /\ excused' = excused /\ events' = events
  BY DEF RunImportFromCbos, inCbos
<1>3. EventsKept
  BY <1>2 DEF EventsKept, Waiting
<1>4. ASSUME NEW c \in Cases PROVE CaseInv(c)'
  <2>1. SameImport(S, c) /\ SameFiles(c) /\ RightsKept(c) /\ (c \in excused => c \in excused')
    BY <1>1, <1>2, NothingMoves DEF SameImport, Unmoved, SameWork
  <2>2. CurrentOf(S, c) /\ StaleOf(S, c) /\ StepOf(c)
    BY ImportersAre DEF InStepInv, CaseInv
  <2>3. CurrentOf("admin", c)' /\ StaleOf("admin", c)'
    BY <1>1 DEF CurrentOf, StaleOf, HasListed
  <2>4. CurrentOf(S, c)' /\ StepOf(c)'
    BY <1>3, <2>1, <2>2, CurrentKept, StepKept DEF EventsKept
  <2>5. StaleOf(S, c)'
    <3> SUFFICES ASSUME c \in imp'[S].scope, imp'[S].pc \in {"fetch", "load"}, ~imp'[S].crossed
                 PROVE  Fresh(S, c)' \/ Awaited(S, c)'
      BY DEF StaleOf
    <3>1. Fresh(S, c) \/ Awaited(S, c)
      BY <1>1, <2>2 DEF StaleOf
    <3>2. CASE Fresh(S, c)
      BY <1>1, <2>1, <3>2, FreshSame DEF SameWork
    <3>3. CASE Awaited(S, c)
      <4>1. Waiting(c) \/ Kept(c) = {} \/ c \in excused
        BY <3>3, ImportersAre DEF Awaited
      <4>2. ~HasListed(Other(S))'
        BY <1>1 DEF Other, HasListed
      <4>3. Kept(c)' = Kept(c)
        BY <2>1, KeptSame
      <4> QED BY <1>2, <1>3, <4>1, <4>2, <4>3 DEF Awaited, EventsKept
    <3> QED BY <3>1, <3>2, <3>3
  <2> QED BY <2>3, <2>4, <2>5, ImportersAre DEF CaseInv
<1> QED BY <1>1, <1>4 DEF InStepInv

LEMMA OthersAre ==
  /\ \A i \in Importers : Other(i) \in Importers /\ Other(i) # i /\ Other(Other(i)) = i
  /\ \A i, j \in Importers : j # i => j = Other(i)
  /\ Other("admin") = "subscriber" /\ Other("subscriber") = "admin"
BY ImportersAre DEF Other

LEMMA ListKeepsStep ==
  ASSUME InStepInv, NEW i \in Importers, List(i)
  PROVE  InStepInv'
<1> DEFINE S == "subscriber"
<1>1. /\ TypedInv' /\ imp[i].pc = "list"
      /\ cbos' = cbos /\ events' = events /\ table' = table /\ excused' = excused
      /\ \A j \in Importers \ {i} : imp'[j] = imp[j]
  BY ListKeepsTypes DEF InStepInv
<1>2. /\ imp'[i].pc = IF Listing(i) = {} THEN "end" ELSE "fetch"
      /\ imp'[i].scope = imp[i].scope
      /\ imp'[i].named = distinctFileNames(Listing(i)) /\ imp'[i].todo = Listing(i)
      /\ imp'[i].got = <<>> /\ imp'[i].failures = {} /\ imp'[i].crossed = FALSE
  BY ListKeepsTypes DEF InStepInv
<1>3. \A c : Waiting(c) => Waiting(c)'
  BY <1>1 DEF Waiting
<1>4. \A j \in Importers \ {i} : Unmoved(j) /\ SameWork(imp[j], imp'[j])
  BY <1>1 DEF Unmoved, SameWork
<1>5. ASSUME NEW c \in Cases PROVE CaseInv(c)'
  <2>1. SameFiles(c) /\ RightsKept(c) /\ Kept(c)' = Kept(c) /\ (c \in excused => c \in excused')
    BY <1>1, NothingMoves, KeptSame
  <2>2. CASE c \notin imp[i].scope
    <3>1. \A j \in Importers : SameImport(j, c)
      BY <1>2, <1>4, <2>2 DEF SameImport
    <3> QED BY <1>3, <2>1, <3>1, CaseKept DEF InStepInv
  <2>3. CASE c \in imp[i].scope
    <3>1. \A f : Case(f) = c => (f \in Listing(i) <=> f \in cbos')
      BY <1>1, <2>3 DEF Listing
    <3>2. Kept(c) \subseteq Listing(i)
      BY <2>3 DEF Kept, FilesOf, Listing
    <3>3. Fresh(i, c)'
      <4>1. \A f \in cbos' : Case(f) = c /\ f.name # Missing =>
              /\ f \in DOMAIN distinctFileNames(cbos')
              /\ distinctFileNames(Listing(i))[f] = distinctFileNames(cbos')[f]
        <5>1. \A f \in cbos' : f.name # Missing => f \in DOMAIN distinctFileNames(cbos')
          BY DEF distinctFileNames
        <5> QED BY <3>1, <5>1, NamesAreLocal
      <4>2. InHand(i)' = Listing(i)
        BY <1>2 DEF InHand, FilesIn
      <4> QED BY <1>1, <1>2, <2>1, <3>1, <3>2, <4>1, <4>2 DEF Fresh, Names
    <3>4. Carried(i, c)'
      BY <1>2, <2>1, <3>2 DEF Carried, InHand
    <3>5. Mending(i, c)'
      BY <1>2, <2>1, <2>3, <3>2, <3>3 DEF Mending
    <3>6. CurrentOf(i, c)' /\ StaleOf(i, c)'
      BY <3>3, <3>4 DEF CurrentOf, StaleOf
    <3>7. ASSUME NEW j \in Importers \ {i} PROVE CurrentOf(j, c)' /\ StaleOf(j, c)'
      <4>1. CurrentOf(j, c) /\ StaleOf(j, c) /\ SameImport(j, c) /\ imp'[j] = imp[j]
        BY <1>1, <1>4 DEF InStepInv, CaseInv, SameImport
      <4>2. CurrentOf(j, c)'
        BY <2>1, <4>1, CurrentKept
      <4>3. j \in Importers /\ i = Other(j)
        BY OthersAre
      <4>4. Awaited(j, c) => Awaited(j, c)'
        <5>1. Mending(Other(j), c)'
          BY <3>5, <4>3
        <5>2. j = "admin" => Mending(S, c)'
          BY <5>1, OthersAre
        <5> QED BY <1>3, <2>1, <5>1, <5>2 DEF Awaited
      <4>5. Fresh(j, c) => Fresh(j, c)'
        BY <1>4, <2>1, FreshSame
      <4>6. StaleOf(j, c)'
        BY <4>1, <4>4, <4>5 DEF StaleOf
      <4> QED BY <4>2, <4>6
    <3>8. StepOf(c)'
      <4>1. CASE i = S
        <5>1. BeingMended(c)'
          BY <1>2, <2>3, <3>3, <3>4, <4>1 DEF BeingMended
        <5> QED BY <5>1 DEF StepOf
      <4>2. CASE i # S
        <5>1. SameImport(S, c) /\ StepOf(c)
          BY <1>4, <4>2, ImportersAre DEF SameImport, InStepInv, CaseInv
        <5> QED BY <1>3, <2>1, <5>1, StepKept
      <4> QED BY <4>1, <4>2
    <3> QED BY <3>6, <3>7, <3>8 DEF CaseInv
  <2> QED BY <2>2, <2>3
<1> QED BY <1>1, <1>5 DEF InStepInv

LEMMA FetchKeepsStep ==
  ASSUME InStepInv, NEW i \in Importers, NEW f \in imp[i].todo, Fetch(i, f)
  PROVE  InStepInv'
<1> DEFINE S == "subscriber"
<1>1. /\ TypedInv' /\ imp[i].pc = "fetch"
      /\ cbos' = cbos /\ events' = events /\ table' = table /\ excused' = excused
      /\ \A j \in Importers \ {i} : imp'[j] = imp[j]
  BY FetchKeepsTypes DEF InStepInv
<1>2. /\ imp'[i].scope = imp[i].scope /\ imp'[i].named = imp[i].named
      /\ imp'[i].current = imp[i].current /\ imp'[i].crossed = imp[i].crossed
      /\ imp'[i].todo = imp[i].todo \ {f}
      /\ imp'[i].pc = IF imp[i].todo # {f} THEN "fetch" ELSE IF imp'[i].got = <<>> THEN "end" ELSE "load"
      /\ imp'[i].failures \cup FilesIn(imp'[i].got) = imp[i].failures \cup FilesIn(imp[i].got) \cup {f}
  BY FetchKeepsTypes DEF InStepInv
<1>3. \A c : Waiting(c) => Waiting(c)'
  BY <1>1 DEF Waiting
<1>4. \A j \in Importers \ {i} : Unmoved(j) /\ SameWork(imp[j], imp'[j])
  BY <1>1 DEF Unmoved, SameWork
<1>5. InHand(i)' = InHand(i)
  <2>1. InHand(i)' = imp'[i].todo \cup (imp'[i].failures \cup FilesIn(imp'[i].got))
    BY DEF InHand
  <2>2. InHand(i)' = (imp[i].todo \ {f}) \cup (imp[i].failures \cup FilesIn(imp[i].got) \cup {f})
    BY <1>2, <2>1
  <2> QED BY <2>2 DEF InHand
<1>6. imp'[i].pc = "end" => InHand(i)' = imp'[i].failures
  <2>1. imp'[i].pc = "end" => imp'[i].got = <<>> /\ imp'[i].todo = {}
    BY <1>2
  <2>2. FilesIn(<<>>) = {}
    BY DEF FilesIn
  <2> QED BY <2>1, <2>2 DEF InHand
<1>7. ASSUME NEW c \in Cases PROVE CaseInv(c)'
  <2>1. SameFiles(c) /\ RightsKept(c) /\ Kept(c)' = Kept(c) /\ (c \in excused => c \in excused')
    BY <1>1, NothingMoves, KeptSame
  <2>2. Fresh(i, c) => Fresh(i, c)'
    <3>1. Names' = Names
      BY <1>1 DEF Names
    <3> QED BY <1>1, <1>2, <1>5, <2>1, <3>1 DEF Fresh
  <2>3. Carried(i, c) => Carried(i, c)'
    BY <1>1, <1>5, <2>1 DEF Carried
  <2>4. Fresh(i, c) => Kept(c) \subseteq InHand(i)'
    BY <1>1, <1>5 DEF Fresh
  <2>5. Mending(i, c) => Mending(i, c)'
    BY <1>1, <1>2, <1>6, <2>1, <2>2, <2>4 DEF Mending
  <2>6. CurrentOf(i, c)'
    BY <1>1, <1>2, <2>2, <2>3 DEF InStepInv, CaseInv, CurrentOf, HasListed
  <2>7. \A j \in Importers \ {i} : SameImport(j, c)
    BY <1>4 DEF SameImport
  <2>8. StaleOf(i, c)'
    <3>1. Awaited(i, c) => Awaited(i, c)'
      BY <1>3, <2>1, <2>7, AwaitedKept, OthersAre
    <3>2. StaleOf(i, c)
      BY DEF InStepInv, CaseInv
    <3> QED BY <1>1, <1>2, <2>2, <3>1, <3>2 DEF StaleOf
  <2>9. ASSUME NEW j \in Importers \ {i} PROVE CurrentOf(j, c)' /\ StaleOf(j, c)'
    <3>1. CurrentOf(j, c) /\ StaleOf(j, c) /\ SameImport(j, c) /\ imp'[j] = imp[j]
      BY <1>1, <2>7 DEF InStepInv, CaseInv
    <3>2. CurrentOf(j, c)'
      BY <2>1, <3>1, CurrentKept
    <3>3. j \in Importers /\ i = Other(j)
      BY OthersAre
    <3>4. Awaited(j, c) => Awaited(j, c)'
      <4>1. Mending(Other(j), c) => Mending(Other(j), c)'
        BY <2>5, <3>3
      <4>2. j = "admin" => (Mending(S, c) => Mending(S, c)')
        BY <4>1, OthersAre
      <4>3. HasListed(Other(j)) /\ imp'[Other(j)].current = imp[Other(j)].current /\ imp'[Other(j)].scope = imp[Other(j)].scope
        BY <1>1, <1>2, <3>3 DEF HasListed
      <4> QED BY <1>3, <2>1, <4>1, <4>2, <4>3 DEF Awaited
    <3>5. Fresh(j, c) => Fresh(j, c)'
      BY <1>4, <2>1, FreshSame
    <3>6. StaleOf(j, c)'
      BY <3>1, <3>4, <3>5 DEF StaleOf
    <3> QED BY <3>2, <3>6
  <2>10. StepOf(c)'
    <3>1. StepOf(c)
      BY DEF InStepInv, CaseInv
    <3>2. CASE i = S /\ BeingMended(c)
      <4>1. Fresh(S, c) /\ c \in imp[S].scope
        BY <1>1, <3>2 DEF BeingMended
      <4>2. Kept(c) \subseteq InHand(S)'
        BY <2>4, <3>2, <4>1
      <4>3. Carried(S, c)'
        BY <2>1, <4>2 DEF Carried
      <4>4. BeingMended(c)'
        BY <1>2, <2>2, <3>2, <4>1, <4>3 DEF BeingMended
      <4> QED BY <4>4 DEF StepOf
    <3>3. CASE i = S /\ ~BeingMended(c)
      <4>1. InStep(c) => InStep(c)'
        BY <2>1 DEF InStep, RightsKept
      <4> QED BY <1>3, <2>1, <3>1, <3>3, <4>1 DEF StepOf
    <3>4. CASE i # S
      <4>1. SameImport(S, c)
        BY <2>7, <3>4, ImportersAre
      <4> QED BY <1>3, <2>1, <3>1, <4>1, StepKept
    <3> QED BY <3>2, <3>3, <3>4
  <2> QED BY <2>6, <2>8, <2>9, <2>10 DEF CaseInv
<1> QED BY <1>1, <1>7 DEF InStepInv

\* A MERGE whose names of c are still theirs leaves c's files in their rows, and puts
\* those it has there.
LEMMA FreshRowsStay ==
  ASSUME TypedInv, NEW i \in Importers, cbos' = cbos, table' = Merged(table, Batch(imp[i].got)),
         NEW c, Fresh(i, c), NEW f \in Kept(c), Right(f) \/ f \in FilesIn(Batch(imp[i].got))
  PROVE  Right(f)'
<1> DEFINE batch == Batch(imp[i].got)
           id == boundaryId(Names, f)
<1>1. /\ WellFormed(imp[i]) /\ imp[i].got \in Seq(FileRow)
      /\ cbos \subseteq File /\ Apart(cbos)
  BY DEF TypedInv, ImportsInv, WellFormed, Import, CbosInv
<1>2. batch \in Seq(FileRow) /\ \A k \in DOMAIN batch : RowIs(imp[i], batch[k]) /\ batch[k].row.file \in InHand(i)
  <2>1. batch \in Seq(FileRow) /\ \A k \in DOMAIN batch : k \in DOMAIN imp[i].got /\ batch[k] = imp[i].got[k]
    BY <1>1, BatchHolds
  <2> HIDE DEF batch
  <2> QED BY <1>1, <2>1 DEF WellFormed, InHand, FilesIn
<1>3. f \in cbos /\ f.good /\ Case(f) = c
  BY DEF Kept, FilesOf
<1>4. ASSUME NEW g \in cbos, Case(g) = c PROVE boundaryId(imp[i].named, g) = boundaryId(Names, g)
  BY <1>4 DEF Fresh, boundaryId
<1>5. ASSUME NEW g \in cbos, g.good, Case(g) = c, boundaryId(Names, g) = id PROVE g \in Sharing(Names, f)
  <2>1. g = f \/ Missing \in {g.name, f.name}
    <3> SUFFICES ASSUME g.name # Missing, f.name # Missing PROVE g = f
      OBVIOUS
    <3>1. g \in DOMAIN Names /\ f \in DOMAIN Names
      BY <1>3 DEF Names, distinctFileNames
    <3>2. Names[g] = Names[f]
      BY <1>3, <1>5 DEF boundaryId
    <3> QED BY <1>1, <1>3, <1>5, <3>1, <3>2, NamesApart DEF Names
  <2> QED BY <1>3, <1>5, <2>1 DEF Sharing, FilesOf
<1> HIDE DEF id, batch
<1>6. ASSUME NEW k \in DOMAIN batch, batch[k].id = id PROVE batch[k].row.file \in Sharing(Names, f)
  <2> DEFINE g == batch[k].row.file
  <2>1. g \in InHand(i) /\ g.good /\ id = boundaryId(imp[i].named, g)
    BY <1>2, <1>6 DEF RowIs
  <2> HIDE DEF g
  <2>2. Case(g) = c
    BY <1>3, <2>1 DEF boundaryId, id
  <2>3. g \in cbos
    BY <2>1, <2>2 DEF Fresh
  <2>4. g \in Sharing(Names, f)
    BY <1>4, <1>5, <2>1, <2>2, <2>3
  <2> QED BY <2>4 DEF g
<1>7. f \in FilesIn(batch) => \E k \in DOMAIN batch : batch[k].id = id
  <2> SUFFICES ASSUME NEW k \in DOMAIN batch, batch[k].row.file = f PROVE batch[k].id = id
    BY DEF FilesIn
  <2>1. batch[k].id = boundaryId(imp[i].named, f)
    BY <1>2 DEF RowIs
  <2> QED BY <1>3, <1>4, <2>1 DEF id
<1>8. Right(f) => id \in DOMAIN table /\ table[id].file \in Sharing(Names, f)
  BY DEF Right, id
<1>9. (\E k \in DOMAIN batch : batch[k].id = id) \/ (id \in DOMAIN table /\ table[id].file \in Sharing(Names, f))
  BY <1>7, <1>8 DEF batch
<1>10. id \in DOMAIN Merged(table, batch) /\ Merged(table, batch)[id].file \in Sharing(Names, f)
  BY <1>2, <1>6, <1>9, MergedIs
<1>11. boundaryId(Names', f) = id /\ Sharing(Names, f)' = Sharing(Names, f)
  <2>1. Names' = Names
    BY DEF Names
  <2>2. FilesOf(Case(f))' = FilesOf(Case(f))
    BY DEF FilesOf
  <2> QED BY <2>1, <2>2 DEF id, Sharing
<1>12. table' = Merged(table, batch)
  BY DEF batch
<1> QED BY <1>10, <1>11, <1>12 DEF Right

\* A MERGE without a row of c leaves c's rows.
LEMMA OtherRowsStay ==
  ASSUME NEW batch \in Seq(FileRow), cbos' = cbos, table' = Merged(table, batch),
         NEW c, \A k \in DOMAIN batch : batch[k].id[1] # c
  PROVE  RightsKept(c)
<1> SUFFICES ASSUME NEW f \in Kept(c), Right(f) PROVE Right(f)'
  BY DEF RightsKept
<1> DEFINE id == boundaryId(Names, f)
<1>1. id \in DOMAIN table /\ table[id].file \in Sharing(Names, f) /\ id[1] = c
  BY DEF Right, Kept, FilesOf, boundaryId
<1>2. boundaryId(Names', f) = id /\ Sharing(Names, f)' = Sharing(Names, f)
  <2>1. Names' = Names
    BY DEF Names
  <2>2. FilesOf(Case(f))' = FilesOf(Case(f))
    BY DEF FilesOf
  <2> QED BY <2>1, <2>2 DEF Sharing
<1> HIDE DEF id
<1>3. \A k \in DOMAIN batch : batch[k].id # id
  BY <1>1
<1>4. id \in DOMAIN Merged(table, batch) /\ Merged(table, batch)[id] = table[id]
  BY <1>1, <1>3, MergedIs
<1> QED BY <1>1, <1>2, <1>4 DEF Right

\* Something is in a batch.
LEMMA BatchHasSome ==
  ASSUME NEW S, NEW s \in Seq(S), s # <<>>
  PROVE  \E k \in DOMAIN Batch(s) : TRUE
<1>1. 1 \in DOMAIN s
  OBVIOUS
<1>2. 1 \in DOMAIN Batch(s) \/ 1 - BatchSize \in DOMAIN Rest(s)
  BY <1>1, BatchIs
<1>3. 1 - BatchSize \notin DOMAIN Rest(s)
  <2>1. Rest(s) \in Seq(S) /\ BatchSize \in Nat /\ BatchSize >= 1
    BY BatchIs, CbosAssumption
  <2>2. \A k \in DOMAIN Rest(s) : k \in Nat /\ k >= 1
    BY <2>1
  <2> QED BY <2>1, <2>2
<1> QED BY <1>2, <1>3

LEMMA LoadKeepsStep ==
  ASSUME InStepInv, NEW i \in Importers, Load(i)
  PROVE  InStepInv'
<1> DEFINE S == "subscriber"
           batch == Batch(imp[i].got)
<1>1. /\ TypedInv' /\ imp[i].pc = "load"
      /\ cbos' = cbos /\ events' = events /\ table' = Merged(table, batch)
      /\ excused' = IF imp[i].crossed THEN excused \cup {b.id[1] : b \in ToSet(batch)} ELSE excused
      /\ \A j \in Importers \ {i} : SameWork(imp[j], imp'[j]) /\ imp'[j].current = FALSE /\ imp'[j].crossed = TRUE
  BY LoadKeepsTypes DEF InStepInv
<1>2. /\ imp'[i].scope = imp[i].scope /\ imp'[i].named = imp[i].named
      /\ imp'[i].current = imp[i].current /\ imp'[i].crossed = imp[i].crossed
      /\ imp'[i].failures = imp[i].failures /\ imp'[i].got = Rest(imp[i].got)
      /\ imp'[i].pc \in {"load", "end"}
  BY LoadKeepsTypes DEF InStepInv
<1>3. /\ WellFormed(imp[i]) /\ imp[i].got \in Seq(FileRow) /\ imp[i].todo = {} /\ imp[i].got # <<>>
  BY <1>1 DEF InStepInv, TypedInv, ImportsInv, WellFormed, Import
<1>4. /\ batch \in Seq(FileRow)
      /\ FilesIn(imp[i].got) = FilesIn(batch) \cup FilesIn(imp'[i].got)
      /\ \A k \in DOMAIN batch : batch[k].id[1] \in imp[i].scope
      /\ \E k \in DOMAIN batch : TRUE
  <2>1. /\ batch \in Seq(FileRow) /\ FilesIn(imp[i].got) = FilesIn(batch) \cup FilesIn(Rest(imp[i].got))
        /\ \A k \in DOMAIN batch : k \in DOMAIN imp[i].got /\ batch[k] = imp[i].got[k]
    BY <1>3, BatchHolds
  <2>2. \E k \in DOMAIN batch : TRUE
    BY <1>3, BatchHasSome
  <2>3. ASSUME NEW k \in DOMAIN imp[i].got PROVE imp[i].got[k].id[1] \in imp[i].scope
    <3>1. RowIs(imp[i], imp[i].got[k])
      BY <1>3 DEF WellFormed
    <3>2. Case(imp[i].got[k].row.file) \in imp[i].scope
      BY <1>3 DEF WellFormed, FilesIn
    <3> QED BY <3>1, <3>2 DEF RowIs, boundaryId
  <2> HIDE DEF batch
  <2> QED BY <1>2, <2>1, <2>2, <2>3
<1> HIDE DEF batch
<1>5. /\ \A c : c \in excused => c \in excused'
      /\ imp[i].crossed => \A k \in DOMAIN batch : batch[k].id[1] \in excused'
  BY <1>1 DEF ToSet
<1>6. \A c : Waiting(c) => Waiting(c)'
  BY <1>1 DEF Waiting
<1>7. \A j \in Importers \ {i} : Unmoved(j)
  <2> TAKE j \in Importers \ {i}
  <2> QED BY <1>1 DEF Unmoved
<1>8. ASSUME NEW c \in Cases PROVE CaseInv(c)'
  <2>1. SameFiles(c) /\ Kept(c)' = Kept(c) /\ (c \in excused => c \in excused') /\ (Waiting(c) => Waiting(c)')
    <3>1. SameFiles(c)
      BY <1>1 DEF SameFiles
    <3> QED BY <1>5, <1>6, <3>1, KeptSame
  <2>2. (\A k \in DOMAIN batch : batch[k].id[1] # c) => RightsKept(c)
    BY <1>1, <1>4, OtherRowsStay
  <2>3. CASE c \notin imp[i].scope
    <3>1. RightsKept(c)
      BY <1>4, <2>2, <2>3
    <3>2. \A j \in Importers : SameImport(j, c)
      BY <1>2, <1>7, <2>3 DEF SameImport
    <3> QED BY <2>1, <3>1, <3>2, CaseKept DEF InStepInv
  <2>4. CASE c \in imp[i].scope
    <3>1. Fresh(i, c) => RightsKept(c) /\ \A f \in Kept(c) : f \in FilesIn(batch) => Right(f)'
      BY <1>1, FreshRowsStay DEF RightsKept, InStepInv, batch
    <3>2. Fresh(i, c) => Fresh(i, c)'
      <4>1. InHand(i)' \subseteq InHand(i)
        <5>1. imp'[i].todo = {}
          BY <1>1, <1>2 DEF TypedInv, ImportsInv, WellFormed
        <5> QED BY <1>2, <1>4, <5>1 DEF InHand
      <4> QED BY <1>1, <1>2, <2>1, <4>1 DEF Fresh, Names
    <3>3. Fresh(i, c) /\ Carried(i, c) => Carried(i, c)'
      <4> SUFFICES ASSUME Fresh(i, c), Carried(i, c), NEW f \in Kept(c)
                   PROVE  f \in InHand(i)' \/ (imp'[i].pc # "fetch" /\ Right(f)')
        BY <2>1 DEF Carried
      <4>1. f \in InHand(i) \/ Right(f)
        BY DEF Carried
      <4>2. InHand(i) = imp[i].failures \cup FilesIn(batch) \cup FilesIn(imp'[i].got)
        BY <1>3, <1>4 DEF InHand
      <4>3. imp[i].failures \cup FilesIn(imp'[i].got) \subseteq InHand(i)'
        BY <1>2 DEF InHand
      <4>4. imp'[i].pc # "fetch"
        BY <1>2
      <4> QED BY <3>1, <4>1, <4>2, <4>3, <4>4 DEF RightsKept
    <3>4. ~Fresh(i, c) => c \in excused' \/ RightsKept(c) \/ Awaited(i, c)
      <4>1. CASE imp[i].crossed
        BY <1>5, <2>2, <4>1
      <4>2. CASE ~imp[i].crossed
        BY <1>1, <2>4, <4>2 DEF InStepInv, CaseInv, StaleOf
      <4> QED BY <4>1, <4>2
    <3>5. c \in excused' \/ RightsKept(c) \/ Awaited(i, c)
      BY <3>1, <3>4
    <3>6. \A j \in Importers \ {i} : ~imp'[j].current /\ imp'[j].crossed
      BY <1>1
    <3>7. CurrentOf(i, c)' /\ StaleOf(i, c)'
      <4>1. CurrentOf(i, c)'
        BY <1>1, <1>2, <3>2, <3>3 DEF InStepInv, CaseInv, CurrentOf, HasListed
      <4>2. Awaited(i, c) => Awaited(i, c)'
        <5>1. SameImport(Other(i), c)
          BY <1>7, OthersAre DEF SameImport
        <5> QED BY <2>1, <5>1, AwaitedKept
      <4>3. StaleOf(i, c)
        BY DEF InStepInv, CaseInv
      <4> QED BY <1>1, <1>2, <3>2, <4>1, <4>2, <4>3 DEF StaleOf
    <3>8. \A j \in Importers \ {i} : CurrentOf(j, c)' /\ StaleOf(j, c)'
      BY <3>6 DEF CurrentOf, StaleOf
    <3>9. StepOf(c)'
      <4> SUFFICES ASSUME c \notin excused', ~Waiting(c)' PROVE InStep(c)' \/ BeingMended(c)'
        BY DEF StepOf
      <4>1. c \notin excused /\ ~Waiting(c) /\ (InStep(c) \/ BeingMended(c))
        BY <2>1 DEF InStepInv, CaseInv, StepOf
      <4>2. RightsKept(c) \/ Kept(c) = {} \/ (i = "admin" /\ Mending(S, c))
        BY <3>5, <4>1 DEF Awaited
      <4>3. Kept(c) = {} => InStep(c)'
        BY <2>1 DEF InStep
      <4>4. CASE i = "admin"
        <5>1. SameWork(imp[S], imp'[S]) /\ imp'[S].crossed = TRUE /\ imp'[S].named = imp[S].named
          BY <1>1, <4>4, ImportersAre DEF SameWork
        <5>2. Fresh(S, c)' <=> Fresh(S, c)
          BY <2>1, <5>1, FreshSame
        <5>3. CASE RightsKept(c)
          <6>1. InStep(c) => InStep(c)'
            BY <2>1, <5>3 DEF InStep, RightsKept
          <6>2. Carried(S, c) => Carried(S, c)'
            BY <2>1, <5>1, <5>3, CarriedKept
          <6>3. BeingMended(c) => BeingMended(c)'
            BY <5>1, <5>2, <6>2 DEF BeingMended, SameWork
          <6> QED BY <4>1, <6>1, <6>3
        <5>4. CASE Mending(S, c)
          <6>1. imp[S].pc = "end" /\ Kept(c) \subseteq imp[S].failures => Carried(S, c)'
            BY <2>1, <5>1 DEF Carried, InHand, SameWork
          <6>2. BeingMended(c)'
            BY <5>1, <5>2, <5>4, <6>1 DEF BeingMended, Mending, SameWork
          <6> QED BY <6>2
        <5> QED BY <4>2, <4>3, <5>3, <5>4
      <4>5. CASE i = S
        <5>1. RightsKept(c) \/ Kept(c) = {}
          BY <4>2, <4>5, ImportersAre
        <5>2. InStep(c) => InStep(c)'
          BY <2>1, <5>1 DEF InStep, RightsKept
        <5>3. ASSUME BeingMended(c) PROVE BeingMended(c)'
          <6>1. Fresh(S, c) /\ (imp[S].crossed \/ Carried(S, c))
            BY <1>1, <4>5, <5>3 DEF BeingMended
          <6>2. ~imp[S].crossed
            <7>1. IsOf(S, imp[S], events)
              BY <4>5 DEF InStepInv, TypedInv, ImportsInv
            <7>2. \E d : imp[S].scope = {d}
              BY <1>1, <4>5, <7>1, ImportersAre DEF IsOf
            <7>3. imp[S].scope = {c}
              BY <2>4, <4>5, <7>2
            <7>4. \E k \in DOMAIN batch : batch[k].id[1] = c
              BY <1>4, <4>5, <7>3
            <7> QED BY <1>5, <4>5, <7>4
          <6>3. Fresh(S, c)' /\ Carried(S, c)'
            BY <3>2, <3>3, <4>5, <6>1, <6>2
          <6> QED BY <1>2, <2>4, <4>5, <6>3 DEF BeingMended
        <5> QED BY <4>1, <5>2, <5>3
      <4> QED BY <4>4, <4>5, ImportersAre
    <3> QED BY <3>7, <3>8, <3>9 DEF CaseInv
  <2> QED BY <2>3, <2>4
<1> QED BY <1>1, <1>8 DEF InStepInv

\* What an import's being over leaves of its cases.
LEMMA OverKeepsStep ==
  ASSUME InStepInv, TypedInv', NEW i \in Importers, EventsKept, cbos' = cbos, table' = table,
         imp'[i] = Idle, \A j \in Importers \ {i} : imp'[j] = imp[j],
         \A c \in Cases \ imp[i].scope : c \in excused => c \in excused',
         \A c \in Cases : c \in imp[i].scope => StepOf(c)' /\ (Awaited(Other(i), c) => Awaited(Other(i), c)')
  PROVE  InStepInv'
<1>1. imp'[i].pc = "idle" /\ imp'[i].scope = {}
  BY DEF Idle
<1>2. \A j \in Importers \ {i} : Unmoved(j) /\ SameWork(imp[j], imp'[j])
  BY DEF Unmoved, SameWork
<1>3. ASSUME NEW c \in Cases PROVE CaseInv(c)'
  <2>1. SameFiles(c) /\ RightsKept(c) /\ (Waiting(c) => Waiting(c)')
    BY NothingMoves DEF EventsKept
  <2>2. CASE c \notin imp[i].scope
    <3>1. \A j \in Importers : SameImport(j, c)
      BY <1>1, <1>2, <2>2 DEF SameImport
    <3>2. c \in excused => c \in excused'
      BY <2>2
    <3> QED BY <2>1, <3>1, <3>2, CaseKept DEF InStepInv
  <2>3. CASE c \in imp[i].scope
    <3>1. CurrentOf(i, c)' /\ StaleOf(i, c)'
      BY <1>1 DEF CurrentOf, StaleOf
    <3>2. ASSUME NEW j \in Importers \ {i} PROVE CurrentOf(j, c)' /\ StaleOf(j, c)'
      <4>1. CurrentOf(j, c) /\ StaleOf(j, c) /\ SameImport(j, c) /\ imp'[j] = imp[j] /\ j = Other(i)
        BY <1>2, OthersAre DEF InStepInv, CaseInv, SameImport
      <4>2. CurrentOf(j, c)'
        BY <2>1, <4>1, CurrentKept
      <4>3. Fresh(j, c) => Fresh(j, c)'
        BY <1>2, <2>1, FreshSame
      <4>4. Awaited(j, c) => Awaited(j, c)'
        BY <2>3, <4>1
      <4> QED BY <4>1, <4>2, <4>3, <4>4 DEF StaleOf
    <3> QED BY <2>3, <3>1, <3>2 DEF CaseInv
  <2> QED BY <2>2, <2>3
<1> QED BY <1>3 DEF InStepInv

\* What goes back to be tried again waits, or its case is excused.
LEMMA ReturnedIsStep ==
  ASSUME NEW i \in Importers, i = "subscriber", Returned(i), imp'[i] = Idle,
         NEW c \in Cases, c \in imp[i].scope
  PROVE  /\ StepOf(c)' /\ Awaited(Other(i), c)'
         /\ excused \subseteq excused'
<1>1. (Waiting(c)' \/ c \in excused') /\ excused \subseteq excused'
  BY DEF Returned
<1>2. ~HasListed(Other(Other(i)))'
  BY OthersAre DEF HasListed, Idle
<1> QED BY <1>1, <1>2 DEF StepOf, Awaited

LEMMA EndKeepsStep ==
  ASSUME InStepInv, NEW i \in Importers, End(i)
  PROVE  InStepInv'
<1> DEFINE S == "subscriber"
           o == Other(i)
<1>1. /\ TypedInv' /\ EventsKept /\ imp[i].pc = "end"
      /\ cbos' = cbos /\ table' = table
      /\ imp'[i] = Idle /\ \A j \in Importers \ {i} : imp'[j] = imp[j]
      /\ \/ i = S /\ Returned(i)
         \/ imp[i].current /\ Missed(i) = {} /\ excused' = excused \ imp[i].scope
         \/ ~(imp[i].current /\ Missed(i) = {}) /\ excused' = excused \cup {Case(f) : f \in Missed(i)}
  BY EndKeepsTypes DEF InStepInv
<1>2. InHand(i) = imp[i].failures
  <2>1. imp[i].todo = {} /\ imp[i].got = <<>>
    BY <1>1 DEF InStepInv, TypedInv, ImportsInv, WellFormed
  <2> QED BY <2>1 DEF InHand, FilesIn
<1>3. ASSUME NEW c \in Cases PROVE c \notin imp[i].scope /\ c \in excused => c \in excused'
  <2>1. CASE i = S /\ Returned(i)
    BY <2>1 DEF Returned
  <2>2. CASE ~(i = S /\ Returned(i))
    BY <1>1, <2>2
  <2> QED BY <2>1, <2>2
<1>4. ASSUME NEW c \in Cases, c \in imp[i].scope
      PROVE  StepOf(c)' /\ (Awaited(o, c) => Awaited(o, c)')
  <2>1. /\ SameFiles(c) /\ RightsKept(c) /\ Kept(c)' = Kept(c) /\ (Waiting(c) => Waiting(c)')
    BY <1>1, NothingMoves, KeptSame DEF EventsKept
  <2>2. InStep(c) => InStep(c)'
    BY <2>1 DEF InStep, RightsKept
  <2>3. ~HasListed(Other(o))' /\ Other(o) = i /\ (o = "admin" => i = S)
    BY <1>1, OthersAre DEF HasListed, Idle
  <2>4. Kept(c) = {} => Awaited(o, c)'
    BY <2>1 DEF Awaited
  <2>5. Mending(i, c) => Kept(c) \subseteq imp[i].failures
    BY <1>1 DEF Mending
  <2>6. \A f \in Kept(c) : f.good /\ Case(f) = c
    BY DEF Kept, FilesOf
  <2>7. CASE i = S /\ Returned(i)
    BY <1>1, <1>4, <2>7, ReturnedIsStep
  <2>8. CASE imp[i].current /\ Missed(i) = {}
    <3>1. Fresh(i, c) /\ Carried(i, c)
      BY <1>1, <1>4, <2>8 DEF InStepInv, CaseInv, CurrentOf, HasListed
    <3>2. \A f \in Kept(c) : f \notin imp[i].failures
      BY <2>6, <2>8 DEF Missed
    <3>3. InStep(c)
      BY <1>2, <3>1, <3>2 DEF Carried, InStep
    <3>4. StepOf(c)'
      BY <2>2, <3>3 DEF StepOf
    <3>5. Mending(i, c) => Kept(c) = {}
      BY <2>5, <3>2
    <3>6. Awaited(o, c) => Waiting(c) \/ Kept(c) = {}
      BY <1>1, <1>4, <2>3, <2>8, <3>5 DEF Awaited, HasListed
    <3>7. Waiting(c) => Awaited(o, c)'
      BY <2>1 DEF Awaited
    <3> QED BY <2>4, <3>4, <3>6, <3>7
  <2>9. CASE /\ ~(imp[i].current /\ Missed(i) = {})
             /\ excused' = excused \cup {Case(f) : f \in Missed(i)}
    <3>1. \A f \in Kept(c) : f \in imp[i].failures => c \in excused'
      BY <2>6, <2>9 DEF Missed
    <3>2. c \in excused => c \in excused'
      BY <2>9
    <3>3. Carried(i, c) => InStep(c) \/ c \in excused'
      BY <1>2, <3>1 DEF Carried, InStep
    <3>4. StepOf(c)'
      <4>1. CASE i = S
        <5>1. BeingMended(c) => Carried(i, c)
          BY <1>1, <4>1 DEF BeingMended
        <5>2. StepOf(c)
          BY DEF InStepInv, CaseInv
        <5> QED BY <2>1, <2>2, <3>2, <3>3, <5>1, <5>2 DEF StepOf
      <4>2. CASE i # S
        <5>1. SameImport(S, c) /\ StepOf(c)
          BY <1>1, <4>2, ImportersAre DEF SameImport, Unmoved, SameWork, InStepInv, CaseInv
        <5> QED BY <2>1, <3>2, <5>1, StepKept
      <4> QED BY <4>1, <4>2
    <3>5. Mending(i, c) => Kept(c) = {} \/ c \in excused'
      BY <2>5, <3>1
    <3>6. Awaited(o, c) => Waiting(c) \/ Kept(c) = {} \/ c \in excused'
      BY <2>3, <3>2, <3>5 DEF Awaited
    <3>7. Waiting(c) \/ c \in excused' => Awaited(o, c)'
      BY <2>1, <2>3 DEF Awaited
    <3> QED BY <2>4, <3>4, <3>6, <3>7
  <2> QED BY <1>1, <2>7, <2>8, <2>9
<1> HIDE DEF o
<1> QED BY <1>1, <1>3, <1>4, OverKeepsStep DEF o

LEMMA FailureKeepsStep ==
  ASSUME InStepInv, NEW i \in Importers, ImportFails(i)
  PROVE  InStepInv'
<1> DEFINE S == "subscriber"
           o == Other(i)
<1>1. /\ TypedInv' /\ EventsKept /\ Returned(i)
      /\ cbos' = cbos /\ table' = table
      /\ imp'[i] = Idle /\ \A j \in Importers \ {i} : imp'[j] = imp[j]
  BY FailureKeepsTypes DEF InStepInv
<1>2. excused \subseteq excused'
  BY <1>1 DEF Returned
<1>3. ASSUME NEW c \in Cases, c \in imp[i].scope
      PROVE  StepOf(c)' /\ (Awaited(o, c) => Awaited(o, c)')
  <2>1. CASE i = S
    BY <1>1, <1>3, <2>1, ReturnedIsStep
  <2>2. CASE i # S
    <3>1. SameFiles(c) /\ RightsKept(c) /\ Kept(c)' = Kept(c) /\ (Waiting(c) => Waiting(c)')
      BY <1>1, NothingMoves, KeptSame DEF EventsKept
    <3>2. SameImport(S, c) /\ StepOf(c) /\ (c \in excused => c \in excused')
      BY <1>1, <1>2, <2>2, ImportersAre DEF SameImport, Unmoved, SameWork, InStepInv, CaseInv
    <3>3. StepOf(c)'
      BY <3>1, <3>2, StepKept
    <3>4. ~HasListed(Other(o))' /\ o # "admin"
      BY <1>1, <2>2, OthersAre, ImportersAre DEF HasListed, Idle
    <3>5. Awaited(o, c) => Awaited(o, c)'
      BY <3>1, <3>2, <3>4 DEF Awaited
    <3> QED BY <3>3, <3>5
  <2> QED BY <2>1, <2>2
<1> HIDE DEF o
<1> QED BY <1>1, <1>2, <1>3, OverKeepsStep DEF o

LEMMA InStepInvKept == InStepInv /\ [CbosNext]_cbosVars => InStepInv'
<1> SUFFICES ASSUME InStepInv, [CbosNext]_cbosVars PROVE InStepInv'
  OBVIOUS
<1>1. ASSUME NEW upload \in Uploads, NEW at \in {saves, saves + 1}, AddVersion(upload, at) PROVE InStepInv'
  BY <1>1, AddVersionIs, ChangeKeepsStep DEF InStepInv
<1>2. ASSUME NEW d \in Documents, DeleteDocument(d) PROVE InStepInv'
  BY <1>2, DeleteDocumentIs, ChangeKeepsStep DEF InStepInv
<1>3. ASSUME NEW c \in Cases, NEW t \in Titles, Rename(c, t) PROVE InStepInv'
  BY <1>3, RenameIs, ChangeKeepsStep DEF InStepInv
<1>4. CASE PublishOther
  BY <1>4, PublishOtherIs, ChangeKeepsStep DEF InStepInv
<1>5. ASSUME NEW e \in DOMAIN events, TakeEvent(e) PROVE InStepInv'
  BY <1>5, TakeKeepsStep
<1>6. CASE RunImportFromCbos
  BY <1>6, RunKeepsStep
<1>7. ASSUME NEW i \in Importers, ImportStep(i) PROVE InStepInv'
  BY <1>7, ListKeepsStep, LoadKeepsStep, EndKeepsStep, FailureKeepsStep, FetchKeepsStep DEF ImportStep
<1>8. CASE UNCHANGED cbosVars
  <2>1. TypedInv'
    BY TypedKept DEF InStepInv
  <2>2. UNCHANGED <<cbos, events, table, imp, excused>>
    BY <1>8 DEF cbosVars
  <2>3. ASSUME NEW c \in Cases PROVE CaseInv(c)'
    <3>1. SameFiles(c) /\ RightsKept(c) /\ (Waiting(c) => Waiting(c)') /\ (c \in excused => c \in excused')
      BY <2>2, NothingMoves DEF Waiting
    <3>2. \A i \in Importers : SameImport(i, c)
      BY <2>2 DEF SameImport, Unmoved, SameWork
    <3> QED BY <3>1, <3>2, CaseKept DEF InStepInv
  <2> QED BY <2>1, <2>3 DEF InStepInv
<1> QED BY <1>1, <1>2, <1>3, <1>4, <1>5, <1>6, <1>7, <1>8 DEF CbosNext

\* The subscriber "keeps case boundaries in step with CBOS": once a case is at rest and is
\* not excused, each of its files that can be stored is in the row its name gives it, or has
\* lost that row to another where one of the two came without a name; and the newest of a
\* name is given the row of that name.
THEOREM CasesAreKeptInStep == CbosSpec => []KeptInStep
<1>1. CbosSpec => []InStepInv
  BY InStepBegins, InStepInvKept, PTL DEF CbosSpec
<1> QED BY <1>1, InStepIsKept, PTL

------------------------------------------------------------------------------
(* What the pages read *)

\* A strict order of all of S.
Orders(R, S) ==
  /\ \A x, y \in S : x # y => <<x, y>> \in R \/ <<y, x>> \in R
  /\ \A x \in S : <<x, x>> \notin R
  /\ \A x, y, z \in S : <<x, y>> \in R /\ <<y, z>> \in R => <<x, z>> \in R

\* The elements of a finite set can be put in order: each goes after as many as are
\* before it.
LEMMA CanBeOrdered ==
  ASSUME NEW S, IsFiniteSet(S), NEW R, Orders(R, S)
  PROVE  \E s \in SetToSeqs(S) : \A i, j \in DOMAIN s : i < j => <<s[i], s[j]>> \in R
<1> DEFINE n == Cardinality(S)
           Earlier(x) == {y \in S : <<y, x>> \in R}
           place == [x \in S |-> Cardinality(Earlier(x)) + 1]
<1>1. n \in Nat /\ IsFiniteSet(1 .. n) /\ Cardinality(1 .. n) = n
  BY FS_CardinalityType, FS_Interval
<1>2. ASSUME NEW x \in S
      PROVE  /\ IsFiniteSet(Earlier(x)) /\ Cardinality(Earlier(x)) \in Nat
             /\ place[x] = Cardinality(Earlier(x)) + 1 /\ place[x] \in 1 .. n
  <2>1. Earlier(x) \in SUBSET S /\ Earlier(x) # S
    BY DEF Orders
  <2> DEFINE e == Earlier(x)
  <2>2. /\ IsFiniteSet(e) /\ Cardinality(e) \in Nat /\ Cardinality(e) <= n /\ Cardinality(e) # n
    <3> HIDE DEF e
    <3> QED BY <2>1, FS_Subset, FS_CardinalityType DEF e
  <2>3. place[x] = Cardinality(e) + 1
    OBVIOUS
  <2> HIDE DEF e, n, place
  <2> QED BY <1>1, <2>2, <2>3 DEF e
<1>3. ASSUME NEW x \in S, NEW y \in S, <<x, y>> \in R
      PROVE  place[x] < place[y]
  <2> DEFINE d == Earlier(x)
             e == Earlier(y)
  <2>1. d \subseteq e /\ x \in e /\ x \notin d
    BY <1>3 DEF Orders
  <2>2. IsFiniteSet(e) /\ d \in SUBSET e /\ d # e /\ Cardinality(d) \in Nat /\ Cardinality(e) \in Nat
    BY <1>2, <2>1
  <2>3. place[x] = Cardinality(d) + 1 /\ place[y] = Cardinality(e) + 1
    BY <1>2
  <2> HIDE DEF d, e, place
  <2>4. Cardinality(d) <= Cardinality(e) /\ Cardinality(d) # Cardinality(e)
    BY <2>2, FS_Subset
  <2> QED BY <2>2, <2>3, <2>4
<1>4. place \in [S -> 1 .. n]
  BY <1>2
<1> HIDE DEF place, Earlier
<1>5. \A x, y \in S : place[x] = place[y] => x = y
  <2>1. \A x \in S : place[x] \in Nat
    BY <1>1, <1>4
  <2>2. ASSUME NEW x \in S, NEW y \in S, x # y PROVE place[x] # place[y]
    <3>1. <<x, y>> \in R \/ <<y, x>> \in R
      BY <2>2 DEF Orders
    <3>2. place[x] < place[y] \/ place[y] < place[x]
      BY <1>3, <3>1
    <3> QED BY <2>1, <3>2
  <2> QED BY <2>2
<1>6. place \in Injection(S, 1 .. n)
  BY <1>4, <1>5 DEF Injection, IsInjective
<1>7. place \in Surjection(S, 1 .. n)
  BY <1>1, <1>6, FS_Injection
<1>8. \A k \in 1 .. n : \E x \in S : place[x] = k
  BY <1>7 DEF Surjection
<1> DEFINE s == [k \in 1 .. n |-> CHOOSE x \in S : place[x] = k]
<1>9. DOMAIN s = 1 .. n /\ \A k \in 1 .. n : s[k] \in S /\ place[s[k]] = k
  BY <1>8
<1>10. s \in SetToSeqs(S)
  <2>1. s \in [1 .. n -> S] /\ \A i, j \in 1 .. n : i # j => s[i] # s[j]
    <3>1. \A i, j \in 1 .. n : i # j => s[i] # s[j]
      BY <1>9
    <3> QED BY <1>9, <3>1
  <2> HIDE DEF s
  <2> QED BY <2>1 DEF SetToSeqs
<1>11. ASSUME NEW i \in 1 .. n, NEW j \in 1 .. n, i < j
       PROVE  <<s[i], s[j]>> \in R
  <2>1. s[i] \in S /\ s[j] \in S /\ place[s[i]] = i /\ place[s[j]] = j
    BY <1>9
  <2> HIDE DEF s
  <2>2. s[i] # s[j] /\ ~(place[s[j]] < place[s[i]])
    BY <1>1, <1>11, <2>1
  <2> QED BY <1>3, <2>1, <2>2 DEF Orders
<1> HIDE DEF s
<1> QED BY <1>9, <1>10, <1>11

\* Then the first is the least, and each is at one place.
LEMMA OrderedIs ==
  ASSUME NEW S, IsFiniteSet(S), NEW s \in SetToSeqs(S)
  PROVE  /\ s \in Seq(S) /\ Len(s) = Cardinality(S) /\ Len(s) \in Nat /\ DOMAIN s = 1 .. Len(s)
         /\ \A i \in DOMAIN s : s[i] \in S
         /\ \A i, j \in DOMAIN s : s[i] = s[j] => i = j
         /\ \A x \in S : \E i \in DOMAIN s : s[i] = x
<1> DEFINE n == Cardinality(S)
<1>1. /\ n \in Nat /\ IsFiniteSet(1 .. n) /\ Cardinality(1 .. n) = n
  BY FS_CardinalityType, FS_Interval
<1>2. s \in [1 .. n -> S] /\ \A i, j \in 1 .. n : i # j => s[i] # s[j]
  BY DEF SetToSeqs
<1>3. s \in Seq(S) /\ Len(s) = n /\ DOMAIN s = 1 .. n
  <2> HIDE DEF n
  <2> QED BY <1>1, <1>2
<1>4. s \in Injection(1 .. n, S)
  BY <1>2 DEF Injection, IsInjective
<1>5. s \in Surjection(1 .. n, S)
  BY <1>1, <1>4, FS_Injection
<1> QED BY <1>1, <1>2, <1>3, <1>5 DEF Surjection

LEMMA ReceivedOrders ==
  ASSUME RowsInv, NEW c
  PROVE  /\ IsFiniteSet(RowsOf(c))
         /\ Orders({p \in RowsOf(c) \X RowsOf(c) : Received(p[1], p[2])}, RowsOf(c))
<1> DEFINE rows == RowsOf(c)
           R == {p \in rows \X rows : Received(p[1], p[2])}
           At(x) == receivedDate(table[x].file)
<1>1. IsFiniteSet(rows)
  <2>1. rows \in SUBSET DOMAIN table
    BY DEF RowsOf
  <2> HIDE DEF rows
  <2> QED BY <2>1, FS_Subset DEF RowsInv
<1>2. ASSUME NEW x \in rows PROVE At(x) \in Nat /\ IdOf(x) \in Int /\ x \in RowIds
  <2>1. x \in RowIds /\ table[x].file \in File
    BY DEF RowsOf, RowsInv
  <2> QED BY <2>1, FileFields, SearchAssumption
<1>3. \A x, y \in rows : IdOf(x) = IdOf(y) => x = y
  BY <1>2, SearchAssumption
<1>4. \A x, y : Received(x, y) <=> At(x) > At(y) \/ (At(x) = At(y) /\ IdOf(x) < IdOf(y))
  BY DEF Received
<1>5. \A x, y \in rows : <<x, y>> \in R <=> Received(x, y)
  OBVIOUS
<1> HIDE DEF rows, At, R
<1>6. \A x, y \in rows : x # y => Received(x, y) \/ Received(y, x)
  BY <1>2, <1>3, <1>4
<1>7. \A x \in rows : ~Received(x, x)
  BY <1>2, <1>4
<1>8. ASSUME NEW x \in rows, NEW y \in rows, NEW z \in rows, Received(x, y), Received(y, z)
      PROVE  Received(x, z)
  BY <1>2, <1>4, <1>8
<1>9. Orders(R, rows)
  BY <1>5, <1>6, <1>7, <1>8 DEF Orders
<1> QED BY <1>1, <1>9 DEF rows, R

\* A case's files are listed newest first, each once.
LEMMA FilesAreListed ==
  ASSUME RowsInv, NEW c
  PROVE  /\ listCaseBoundaryFiles(c) \in SetToSeqs(RowsOf(c))
         /\ \A i, j \in DOMAIN listCaseBoundaryFiles(c) :
              i < j => Received(listCaseBoundaryFiles(c)[i], listCaseBoundaryFiles(c)[j])
<1> DEFINE rows == RowsOf(c)
           R == {p \in rows \X rows : Received(p[1], p[2])}
           Sorted(s) == \A i, j \in DOMAIN s : i < j => Received(s[i], s[j])
<1>1. IsFiniteSet(rows) /\ Orders(R, rows)
  BY ReceivedOrders
<1>2. \E s \in SetToSeqs(rows) : \A i, j \in DOMAIN s : i < j => <<s[i], s[j]>> \in R
  <2> HIDE DEF rows, R
  <2> QED BY <1>1, CanBeOrdered
<1>3. \E s \in SetToSeqs(rows) : Sorted(s)
  BY <1>2
<1>4. listCaseBoundaryFiles(c) = CHOOSE s \in SetToSeqs(rows) : Sorted(s)
  BY DEF listCaseBoundaryFiles, InOrder
<1> HIDE DEF rows, Sorted
<1>5. listCaseBoundaryFiles(c) \in SetToSeqs(rows) /\ Sorted(listCaseBoundaryFiles(c))
  BY <1>3, <1>4
<1> QED BY <1>5 DEF rows, Sorted

\* The first of them is the newest row, and no row was received after it.
LEMMA NewestIsFirst ==
  ASSUME RowsInv, NEW c, RowsOf(c) # {}
  PROVE  /\ Newest(c) \in RowsOf(c) /\ listCaseBoundaryFiles(c)[1] = Newest(c)
         /\ \A x \in RowsOf(c) : receivedDate(table[x].file) <= receivedDate(table[Newest(c)].file)
<1> DEFINE rows == RowsOf(c)
           s == listCaseBoundaryFiles(c)
           R == {p \in rows \X rows : Received(p[1], p[2])}
<1>1. IsFiniteSet(rows) /\ Orders(R, rows)
  BY ReceivedOrders
<1>2. s \in SetToSeqs(rows) /\ \A i, j \in DOMAIN s : i < j => Received(s[i], s[j])
  BY FilesAreListed
<1>3. /\ DOMAIN s = 1 .. Len(s) /\ Len(s) \in Nat
      /\ \A i \in DOMAIN s : s[i] \in rows
      /\ \A x \in rows : \E i \in DOMAIN s : s[i] = x
  <2> HIDE DEF rows, s
  <2> QED BY <1>1, <1>2, OrderedIs
<1>4. \A x, y \in rows : Received(x, y) => ~Received(y, x)
  BY <1>1 DEF Orders
<1> HIDE DEF s, R
<1>5. 1 \in DOMAIN s /\ \A i \in DOMAIN s : i = 1 \/ 1 < i
  BY <1>3
<1> DEFINE first == s[1]
<1>6. first \in rows
  BY <1>3, <1>5
<1>7. \A y \in rows \ {first} : Received(first, y)
  <2> TAKE y \in rows \ {first}
  <2>1. PICK i \in DOMAIN s : s[i] = y
    BY <1>3
  <2>2. 1 < i
    BY <1>5, <2>1
  <2> QED BY <1>2, <1>5, <2>1, <2>2
<1> DEFINE Foremost(x) == \A y \in rows \ {x} : Received(x, y)
<1>8. Newest(c) = CHOOSE x \in rows : Foremost(x)
  BY DEF Newest
<1>9. Newest(c) \in rows /\ Foremost(Newest(c))
  <2>1. first \in rows /\ Foremost(first)
    BY <1>6, <1>7
  <2> HIDE DEF Foremost, first, rows
  <2> QED BY <1>8, <2>1
<1>10. Newest(c) = first
  <2> HIDE DEF first
  <2> QED BY <1>4, <1>6, <1>7, <1>9
<1>11. ASSUME NEW x \in rows PROVE receivedDate(table[x].file) <= receivedDate(table[first].file)
  <2>1. receivedDate(table[x].file) \in Nat /\ receivedDate(table[first].file) \in Nat
    BY <1>6, FileFields DEF RowsOf, RowsInv
  <2>2. x = first \/ Received(first, x)
    BY <1>7
  <2> HIDE DEF first, rows
  <2> QED BY <2>1, <2>2 DEF Received
<1> HIDE DEF first, rows
<1> QED BY <1>9, <1>10, <1>11 DEF rows, s, first

\* The cases a search finds are listed once each, in an order of their own.
LEMMA CasesAreListed ==
  ASSUME RowsInv, NEW query
  PROVE  /\ IsFiniteSet(CasesFound(query))
         /\ Listed(query) \in SetToSeqs(CasesFound(query))
         /\ \A c \in CasesFound(query) : c \in Cases /\ RowsOf(c) # {}
<1> DEFINE found == CasesFound(query)
           R == {p \in found \X found : ListedBefore(p[1], p[2])}
           Sorted(s) == \A i, j \in DOMAIN s : i < j => ListedBefore(s[i], s[j])
<1>1. found \in SUBSET Cases /\ \A c \in found : RowsOf(c) # {}
  BY DEF CasesFound
<1>2. IsFiniteSet(found)
  <2> HIDE DEF found
  <2> QED BY <1>1, FS_Subset, SearchAssumption
<1>3. ASSUME NEW c \in Cases PROVE Place(c) \in Nat /\ CaseOrder[Place(c)] = c
  <2>1. \E k \in DOMAIN CaseOrder : CaseOrder[k] = c
    BY OrderedIs, SearchAssumption
  <2>2. Place(c) \in DOMAIN CaseOrder /\ CaseOrder[Place(c)] = c
    BY <2>1 DEF Place
  <2> QED BY <2>2, OrderedIs, SearchAssumption
<1>4. ASSUME NEW c \in found PROVE ListedAs(c) \in Nat
  <2>1. Newest(c) \in RowsOf(c)
    BY <1>1, NewestIsFirst
  <2>2. table[Newest(c)].title \in Titles
    BY <2>1 DEF RowsOf, RowsInv
  <2> QED BY <2>2, SearchAssumption DEF ListedAs
<1>5. \A c, d \in found : <<c, d>> \in R <=> ListedBefore(c, d)
  OBVIOUS
<1>6. \A c, d \in found : Place(c) = Place(d) => c = d
  BY <1>1, <1>3
<1>7. \A c \in found : Place(c) \in Nat
  BY <1>1, <1>3
<1> HIDE DEF found, R
<1>8. \A c, d \in found : c # d => ListedBefore(c, d) \/ ListedBefore(d, c)
  BY <1>4, <1>6, <1>7 DEF ListedBefore
<1>9. \A c \in found : ~ListedBefore(c, c)
  BY <1>4, <1>7 DEF ListedBefore
<1>10. ASSUME NEW b \in found, NEW c \in found, NEW d \in found, ListedBefore(b, c), ListedBefore(c, d)
       PROVE  ListedBefore(b, d)
  BY <1>4, <1>7, <1>10 DEF ListedBefore
<1>11. Orders(R, found)
  BY <1>5, <1>8, <1>9, <1>10 DEF Orders
<1>12. \E s \in SetToSeqs(found) : \A i, j \in DOMAIN s : i < j => <<s[i], s[j]>> \in R
  BY <1>2, <1>11, CanBeOrdered
<1>13. \E s \in SetToSeqs(found) : Sorted(s)
  BY <1>12 DEF R
<1>14. Listed(query) = CHOOSE s \in SetToSeqs(found) : Sorted(s)
  BY DEF Listed, InOrder, found
<1> HIDE DEF Sorted
<1>15. Listed(query) \in SetToSeqs(found)
  BY <1>13, <1>14
<1> QED BY <1>1, <1>2, <1>15 DEF found

PageOf(s, offset, limit) == Slice(s, offset + 1, offset + limit)

LEMMA PageIs ==
  ASSUME NEW S, NEW s \in Seq(S), NEW offset \in Nat, NEW limit \in Nat
  PROVE  /\ \A k \in Nat : k \in DOMAIN PageOf(s, offset, limit)
                             <=> k \in 1 .. limit /\ offset + k <= Len(s)
         /\ \A k \in DOMAIN PageOf(s, offset, limit) :
              /\ k \in Nat /\ offset + k \in DOMAIN s
              /\ PageOf(s, offset, limit)[k] = s[offset + k]
<1> DEFINE len == Len(s)
           m == offset + 1
           n == IF offset + limit < len THEN offset + limit ELSE len
           page == SubSeq(s, m, n)
<1>1. len \in Nat /\ DOMAIN s = 1 .. len /\ \A k \in 1 .. len : s[k] \in S
  OBVIOUS
<1>2. PageOf(s, offset, limit) = page
  BY DEF PageOf, Slice
<1>3. m \in Int /\ n \in Int /\ m >= 1 /\ n <= len
  BY <1>1
<1>4. /\ page \in Seq(S) /\ Len(page) = IF m <= n THEN n - m + 1 ELSE 0
      /\ \A k \in 1 .. n - m + 1 : page[k] = s[m + k - 1]
  <2> HIDE DEF m, n, len
  <2>1. \A k \in m .. n : s[k] \in S
    BY <1>1, <1>3
  <2> QED BY <1>3, <2>1, SubSeqProperties
<1> HIDE DEF page
<1>5. DOMAIN page = 1 .. (IF m <= n THEN n - m + 1 ELSE 0)
  BY <1>4
<1>6. \A k \in Nat : k \in DOMAIN page <=> k \in 1 .. limit /\ offset + k <= len
  BY <1>1, <1>5
<1>7. \A k \in DOMAIN page : k \in Nat /\ k \in 1 .. n - m + 1 /\ m + k - 1 = offset + k /\ offset + k \in 1 .. len
  BY <1>1, <1>5
<1>8. \A k \in DOMAIN page : page[k] = s[offset + k]
  BY <1>4, <1>7
<1> QED BY <1>1, <1>2, <1>6, <1>7, <1>8

\* A page of a search has the newest rows of the cases that are in their places, and
\* counts them all, wherever it is.
LEMMA SearchIs ==
  ASSUME RowsInv, NEW query, NEW limit \in Nat \ {0}, NEW offset \in Nat
  PROVE  /\ searchCaseBoundaries(query, limit, offset).total = Cardinality(CasesFound(query))
         /\ Cardinality(CasesFound(query)) \in Nat
         /\ offset < Cardinality(CasesFound(query)) => searchCaseBoundaries(query, limit, offset).rows # <<>>
         /\ \A k \in Nat : k \in DOMAIN searchCaseBoundaries(query, limit, offset).rows
                             <=> k \in 1 .. limit /\ offset + k <= Cardinality(CasesFound(query))
         /\ \A k \in DOMAIN searchCaseBoundaries(query, limit, offset).rows :
              /\ k \in Nat /\ offset + k \in DOMAIN Listed(query)
              /\ searchCaseBoundaries(query, limit, offset).rows[k] = Newest(Listed(query)[offset + k])
<1> DEFINE found == CasesFound(query)
           s == Listed(query)
           n == Cardinality(found)
           page == PageOf(s, offset, limit)
           rows == [k \in DOMAIN page |-> Newest(page[k])]
           total == IF page # <<>> THEN Len(s) ELSE IF offset > 0 THEN n ELSE 0
<1>1. searchCaseBoundaries(query, limit, offset) = [rows |-> rows, total |-> total]
  BY DEF searchCaseBoundaries, PageOf
<1>2. IsFiniteSet(found) /\ s \in SetToSeqs(found)
  BY CasesAreListed
<1> HIDE DEF found
<1>3. s \in Seq(found) /\ Len(s) = n /\ n \in Nat
  <2> HIDE DEF s
  <2> QED BY <1>2, OrderedIs
<1> HIDE DEF n, s
<1>4. /\ \A k \in Nat : k \in DOMAIN page <=> k \in 1 .. limit /\ offset + k <= n
      /\ \A k \in DOMAIN page : k \in Nat /\ offset + k \in DOMAIN s /\ page[k] = s[offset + k]
  <2> HIDE DEF page, rows, total
  <2>1. s \in Seq(found) /\ limit \in Nat
    BY <1>3
  <2>2. /\ \A k \in Nat : k \in DOMAIN PageOf(s, offset, limit) <=> k \in 1 .. limit /\ offset + k <= Len(s)
        /\ \A k \in DOMAIN PageOf(s, offset, limit) :
             /\ k \in Nat /\ offset + k \in DOMAIN s
             /\ PageOf(s, offset, limit)[k] = s[offset + k]
    BY ONLY <2>1, PageIs, offset \in Nat
  <2>3. page = PageOf(s, offset, limit)
    BY DEF page
  <2> QED BY ONLY <1>3, <2>2, <2>3
<1> HIDE DEF page
<1>5. offset < n => 1 \in DOMAIN page
  BY <1>3, <1>4
<1>6. DOMAIN <<>> = {}
  OBVIOUS
<1>7. total = n
  BY <1>3, <1>5, <1>6
<1>8. DOMAIN rows = DOMAIN page /\ \A k \in DOMAIN page : rows[k] = Newest(page[k])
  OBVIOUS
<1> HIDE DEF rows, total
<1>9. offset < n => rows # <<>>
  BY <1>5, <1>6, <1>8
<1> QED BY <1>1, <1>3, <1>4, <1>7, <1>8, <1>9 DEF found, n, s

LEMMA NewestOf ==
  ASSUME RowsInv, NEW c, NEW d, RowsOf(d) # {}, Newest(d)[1] = c
  PROVE  d = c
BY NewestIsFirst DEF RowsOf

LEMMA InStepIsShown == InStepInv => NewestIsShown
<1> DEFINE Stored(c) == {f \in FilesOf(c) : f.good /\ Sharing(distinctFileNames(FilesOf(c)), f) = {f}}
           Shows(c, id) == \A f \in Stored(c) : receivedDate(f) <= receivedDate(table[id].file)
<1> SUFFICES ASSUME InStepInv, NEW c \in Cases, AtRest(c), c \notin excused, Stored(c) # {}
             PROVE  /\ Shows(c, listCaseBoundaryFiles(c)[1])
                    /\ \A id \in ToSet(searchCaseBoundaries(Titles, Cardinality(Cases), 0).rows) :
                         id[1] = c => Shows(c, id)
                    /\ \A site \in DOMAIN table : \A id \in findNearbyCases(site, {c}) \cup findOtherCases(site) :
                         id[1] = c => Shows(c, id)
  BY DEF NewestIsShown
<1>1. RowsInv /\ KeptInStep
  BY InStepIsKept DEF InStepInv, TypedInv
<1>2. ASSUME NEW f \in Stored(c) PROVE \E id \in RowsOf(c) : table[id].file = f
  <2> DEFINE id == boundaryId(distinctFileNames(FilesOf(c)), f)
  <2>1. f \in FilesOf(c) /\ f.good /\ Case(f) = c /\ Sharing(distinctFileNames(FilesOf(c)), f) = {f}
    BY DEF FilesOf
  <2>2. id \in DOMAIN table /\ table[id].file = f
    BY <1>1, <2>1 DEF KeptInStep
  <2>3. id[1] = c
    BY <2>1 DEF boundaryId
  <2> QED BY <2>2, <2>3 DEF RowsOf
<1>3. RowsOf(c) # {}
  BY <1>2
<1>4. /\ Newest(c) \in RowsOf(c) /\ listCaseBoundaryFiles(c)[1] = Newest(c)
      /\ \A x \in RowsOf(c) : receivedDate(table[x].file) <= receivedDate(table[Newest(c)].file)
  BY <1>1, <1>3, NewestIsFirst
<1> HIDE DEF Stored
<1>5. Shows(c, Newest(c))
  BY <1>2, <1>4
<1> HIDE DEF Shows
<1>6. ASSUME NEW id \in ToSet(searchCaseBoundaries(Titles, Cardinality(Cases), 0).rows), id[1] = c
      PROVE  id = Newest(c)
  <2> DEFINE rows == searchCaseBoundaries(Titles, Cardinality(Cases), 0).rows
  <2>1. Cardinality(Cases) \in Nat \ {0}
    BY FS_CardinalityType, FS_EmptySet, SearchAssumption
  <2>2. \A k \in DOMAIN rows : \E p \in DOMAIN Listed(Titles) : rows[k] = Newest(Listed(Titles)[p])
    <3>1. ASSUME NEW limit \in Nat \ {0}, NEW offset \in Nat,
                 NEW k \in DOMAIN searchCaseBoundaries(Titles, limit, offset).rows
          PROVE  \E p \in DOMAIN Listed(Titles) :
                   searchCaseBoundaries(Titles, limit, offset).rows[k] = Newest(Listed(Titles)[p])
      <4>1. \A l \in DOMAIN searchCaseBoundaries(Titles, limit, offset).rows :
              /\ l \in Nat /\ offset + l \in DOMAIN Listed(Titles)
              /\ searchCaseBoundaries(Titles, limit, offset).rows[l] = Newest(Listed(Titles)[offset + l])
        BY <1>1, SearchIs
      <4> QED BY <4>1
    <3> QED BY <2>1, <3>1
  <2>3. PICK k \in DOMAIN rows : id = rows[k]
    BY DEF ToSet
  <2>4. PICK d : d \in CasesFound(Titles) /\ id = Newest(d)
    BY <1>1, <2>2, <2>3, CasesAreListed, OrderedIs
  <2> QED BY <1>1, <1>6, <2>4, CasesAreListed, NewestOf
<1>7. ASSUME NEW site \in DOMAIN table, NEW id \in findNearbyCases(site, {c}) \cup findOtherCases(site), id[1] = c
      PROVE  id = Newest(c)
  <2>1. PICK d : RowsOf(d) # {} /\ id = Newest(d)
    BY DEF findNearbyCases, findOtherCases
  <2> QED BY <1>1, <1>7, <2>1, NewestOf
<1> QED BY <1>4, <1>5, <1>6, <1>7

\* The pages search, list and draw a case at rest by a boundary no older, by its received
\* date, than any in CBOS that has a row to itself.
THEOREM NewestRowsAreShown == CbosSpec => []NewestIsShown
<1>1. CbosSpec => []InStepInv
  BY InStepBegins, InStepInvKept, PTL DEF CbosSpec
<1> QED BY <1>1, InStepIsShown, PTL

\* n rows by the size are as many pages as it takes, and no more.
LEMMA PagesAre ==
  ASSUME NEW n \in Nat, NEW size \in Nat \ {0}
  PROVE  /\ PageCount(n, size) \in Nat
         /\ n <= PageCount(n, size) * size
         /\ n > 0 => PageCount(n, size) >= 1 /\ (PageCount(n, size) - 1) * size < n
         /\ n = 0 => PageCount(n, size) = 0
<1> DEFINE m == n + size - 1
           q == m \div size
           r == m % size
<1>1. m \in Nat /\ size \in Nat /\ size >= 1
  OBVIOUS
<1>2. q \in Int /\ r \in 0 .. size - 1 /\ m = size * q + r
  <2> HIDE DEF m
  <2> QED BY <1>1
<1>3. PageCount(n, size) = q
  BY DEF PageCount
<1> HIDE DEF q, r
<1>4. size * q = q * size /\ (q - 1) * size = q * size - size /\ q * size \in Int
  BY <1>1, <1>2
<1>5. q >= 0
  <2> SUFFICES ASSUME q <= 0 - 1 PROVE FALSE
    BY <1>2
  <2>1. size * q <= size * (0 - 1)
    BY <1>1, <1>2
  <2>2. size * (0 - 1) = 0 - size
    BY <1>1
  <2> QED BY <1>1, <1>2, <2>1, <2>2
<1>6. n <= q * size /\ (n > 0 => (q - 1) * size < n)
  BY <1>1, <1>2, <1>4
<1>7. n > 0 => q >= 1
  <2> SUFFICES ASSUME n > 0, q = 0 PROVE FALSE
    BY <1>2, <1>5
  <2>1. q * size = 0
    BY <1>1
  <2> QED BY <1>6, <2>1
<1>8. n = 0 => q = 0
  <2> SUFFICES ASSUME n = 0, q >= 1 PROVE FALSE
    BY <1>2, <1>5
  <2>1. size * q >= size * 1
    BY <1>1, <1>2
  <2>2. size * 1 = size /\ m = size - 1
    BY <1>1
  <2> QED BY <1>1, <1>2, <2>1, <2>2
<1> QED BY <1>2, <1>3, <1>5, <1>6, <1>7, <1>8

\* Each place is one of one page, and pages before the last are whole.
LEMMA OnePage ==
  ASSUME NEW size \in Nat \ {0}, NEW p \in Nat \ {0}
  PROVE  \E page \in Nat \ {0}, k \in 1 .. size :
           /\ p = (page - 1) * size + k
           /\ \A q \in Nat \ {0}, l \in 1 .. size : p = (q - 1) * size + l => q = page /\ l = k
<1> DEFINE d == (p - 1) \div size
           r == (p - 1) % size
<1>1. size \in Nat /\ size >= 1 /\ p - 1 \in Nat
  OBVIOUS
<1>2. d \in Int /\ r \in 0 .. size - 1 /\ p - 1 = size * d + r
  BY <1>1
<1> HIDE DEF d, r
<1>3. d >= 0
  <2> SUFFICES ASSUME d <= 0 - 1 PROVE FALSE
    BY <1>2
  <2>1. size * d <= size * (0 - 1)
    BY <1>1, <1>2
  <2>2. size * (0 - 1) = 0 - size
    BY <1>1
  <2> QED BY <1>1, <1>2, <2>1, <2>2
<1>4. d + 1 \in Nat \ {0} /\ r + 1 \in 1 .. size /\ p = ((d + 1) - 1) * size + (r + 1)
  <2>1. (d + 1) - 1 = d /\ d * size = size * d
    BY <1>1, <1>2
  <2> QED BY <1>1, <1>2, <1>3, <2>1
<1>5. ASSUME NEW q \in Nat \ {0}, NEW l \in 1 .. size, p = (q - 1) * size + l
      PROVE  q = d + 1 /\ l = r + 1
  <2> DEFINE e == q - 1
  <2>1. e \in Int /\ e * size = size * e /\ size * e \in Int
    BY <1>1
  <2>2. p = size * e + l
    BY <1>5, <2>1
  <2> HIDE DEF e
  <2>3. size * (d - e) = size * d - size * e
    BY <1>1, <1>2, <2>1
  <2>4. size * (d - e) = l - 1 - r
    BY <1>1, <1>2, <2>1, <2>2, <2>3
  <2>5. ~(d - e >= 1)
    <3> SUFFICES ASSUME d - e >= 1 PROVE FALSE
      OBVIOUS
    <3>1. size * (d - e) >= size * 1
      BY <1>1, <1>2, <2>1
    <3> QED BY <1>1, <1>2, <2>4, <3>1
  <2>6. ~(d - e <= 0 - 1)
    <3> SUFFICES ASSUME d - e <= 0 - 1 PROVE FALSE
      OBVIOUS
    <3>1. size * (d - e) <= size * (0 - 1)
      BY <1>1, <1>2, <2>1
    <3> QED BY <1>1, <1>2, <2>4, <3>1
  <2>7. d = e
    BY <1>2, <2>1, <2>5, <2>6
  <2>8. l = r + 1
    BY <1>1, <1>2, <2>1, <2>2, <2>7
  <2> QED BY <2>1, <2>7, <2>8 DEF e
<1> DEFINE page == d + 1
           place == r + 1
<1>6. /\ page \in Nat \ {0} /\ place \in 1 .. size /\ p = (page - 1) * size + place
      /\ \A q \in Nat \ {0}, l \in 1 .. size : p = (q - 1) * size + l => q = page /\ l = place
  BY <1>4, <1>5
<1> HIDE DEF page, place
<1> QED BY <1>6

LEMMA OrderOfPages ==
  ASSUME NEW size \in Nat \ {0}, NEW a \in Nat, NEW b \in Nat
  PROVE  /\ a * size \in Nat
         /\ a <= b => a * size <= b * size
         /\ a * size < b * size => a < b
<1>1. a * size \in Nat /\ b * size \in Nat
  OBVIOUS
<1>2. a <= b => a * size <= b * size
  <2> DEFINE d == b - a
  <2>1. ASSUME a <= b PROVE d \in Nat /\ d * size \in Nat /\ b = a + d
    BY <2>1
  <2>2. ASSUME a <= b PROVE (a + d) * size = a * size + d * size
    <3>1. d \in Nat
      BY <2>1, <2>2
    <3> HIDE DEF d
    <3> QED BY <3>1
  <2> HIDE DEF d
  <2> QED BY <1>1, <2>1, <2>2
<1>3. a * size < b * size => a < b
  <2> SUFFICES ASSUME b <= a, a * size < b * size PROVE FALSE
    OBVIOUS
  <2> DEFINE d == a - b
  <2>1. d \in Nat /\ d * size \in Nat /\ a = b + d
    OBVIOUS
  <2> HIDE DEF d
  <2>2. (b + d) * size = b * size + d * size
    BY <2>1
  <2> QED BY <1>1, <2>1, <2>2
<1> QED BY <1>1, <1>2, <1>3

\* The home page shows a page of the search, the last for a link past it.
LEMMA HomePageIs ==
  ASSUME RowsInv, NEW query, NEW size \in Nat \ {0}, NEW page \in Nat \ {0}
  PROVE  /\ CasesFound(query) # {} => buildHomePage(query, size, page).rows # <<>>
         /\ page <= PageCount(Cardinality(CasesFound(query)), size) =>
              buildHomePage(query, size, page).rows = searchCaseBoundaries(query, size, (page - 1) * size).rows
<1> DEFINE n == Cardinality(CasesFound(query))
           last == PageCount(n, size)
           Asked(offset) == searchCaseBoundaries(query, size, offset)
           here == (page - 1) * size
           there == (last - 1) * size
<1>1. n \in Nat /\ (CasesFound(query) # {} => n > 0)
  BY CasesAreListed, FS_CardinalityType, FS_EmptySet
<1>2. \A offset \in Nat : Asked(offset).total = n /\ (offset < n => Asked(offset).rows # <<>>)
  BY SearchIs
<1> HIDE DEF n, Asked
<1>3. last \in Nat /\ (n > 0 => last >= 1 /\ there < n) /\ (n = 0 => last = 0)
  BY <1>1, PagesAre
<1> HIDE DEF last
<1>4. here \in Nat /\ (last >= 1 => there \in Nat /\ (page <= last => here <= there))
  <2>1. page - 1 \in Nat /\ (last >= 1 => last - 1 \in Nat /\ (page <= last => page - 1 <= last - 1))
    BY <1>3
  <2> QED BY <2>1, OrderOfPages
<1>5. buildHomePage(query, size, page).rows =
        IF n > 0 /\ page > last THEN Asked(there).rows ELSE Asked(here).rows
  <2>1. Asked(here).total = n
    BY <1>2, <1>4
  <2> QED BY <2>1 DEF buildHomePage, Asked, last
<1> HIDE DEF here, there
<1>6. page <= last => buildHomePage(query, size, page).rows = Asked(here).rows
  BY <1>3, <1>5
<1>7. n > 0 => buildHomePage(query, size, page).rows # <<>>
  BY <1>1, <1>2, <1>3, <1>4, <1>5
<1> QED BY <1>1, <1>6, <1>7 DEF Asked, here, last, n

\* On the pages there are, each row is the newest of the case in its place.
LEMMA RowOnPage ==
  ASSUME RowsInv, NEW query, NEW size \in Nat \ {0},
         NEW page \in 1 .. PageCount(Cardinality(CasesFound(query)), size)
  PROVE  /\ \A k \in Nat : k \in DOMAIN buildHomePage(query, size, page).rows
                             <=> k \in 1 .. size /\ (page - 1) * size + k <= Cardinality(CasesFound(query))
         /\ \A k \in DOMAIN buildHomePage(query, size, page).rows :
              /\ k \in Nat /\ (page - 1) * size + k \in DOMAIN Listed(query)
              /\ buildHomePage(query, size, page).rows[k] = Newest(Listed(query)[(page - 1) * size + k])
<1> DEFINE last == PageCount(Cardinality(CasesFound(query)), size)
           here == (page - 1) * size
<1>1. last \in Nat
  BY CasesAreListed, FS_CardinalityType, PagesAre
<1>2. page \in Nat \ {0} /\ page <= last /\ page - 1 \in Nat
  <2> HIDE DEF last
  <2>1. page \in 1 .. last
    BY DEF last
  <2> QED BY <1>1, <2>1
<1>3. here \in Nat
  BY <1>2, OrderOfPages
<1>4. buildHomePage(query, size, page).rows = searchCaseBoundaries(query, size, here).rows
  BY <1>2, HomePageIs
<1> HIDE DEF here
<1>5. /\ \A k \in Nat : k \in DOMAIN searchCaseBoundaries(query, size, here).rows
                             <=> k \in 1 .. size /\ here + k <= Cardinality(CasesFound(query))
      /\ \A k \in DOMAIN searchCaseBoundaries(query, size, here).rows :
           /\ k \in Nat /\ here + k \in DOMAIN Listed(query)
           /\ searchCaseBoundaries(query, size, here).rows[k] = Newest(Listed(query)[here + k])
  BY <1>3, SearchIs
<1> QED BY <1>4, <1>5 DEF here

\* Where a case is on the pages of a search.
PlacesOf(c, last, size, shown) ==
  {at \in (1 .. last) \X (1 .. size) : at[2] \in DOMAIN shown[at[1]] /\ shown[at[1]][at[2]][1] = c}

\* A case that is found is in one place of one page.
LEMMA ShownOnce ==
  ASSUME RowsInv, NEW query, NEW size \in Nat \ {0}, NEW c,
         NEW last, last = PageCount(Cardinality(CasesFound(query)), size),
         NEW shown, \A page \in 1 .. last : shown[page] = buildHomePage(query, size, page).rows
  PROVE  Cardinality(PlacesOf(c, last, size, shown)) = (IF c \in CasesFound(query) THEN 1 ELSE 0)
<1> DEFINE s == Listed(query)
           n == Cardinality(CasesFound(query))
           Place0(page, k) == (page - 1) * size + k
           Shows(page, k) == k \in DOMAIN shown[page] /\ shown[page][k][1] = c
           places == PlacesOf(c, last, size, shown)
<1>1. /\ DOMAIN s = 1 .. n /\ n \in Nat
      /\ \A p \in DOMAIN s : s[p] \in CasesFound(query)
      /\ \A p, q \in DOMAIN s : s[p] = s[q] => p = q
      /\ \A d \in CasesFound(query) : \E p \in DOMAIN s : s[p] = d
  <2>1. IsFiniteSet(CasesFound(query)) /\ s \in SetToSeqs(CasesFound(query))
    BY CasesAreListed
  <2> HIDE DEF s
  <2> QED BY <2>1, OrderedIs
<1>2. /\ last \in Nat /\ n <= last * size /\ size \in Nat
  BY <1>1, PagesAre
<1>3. ASSUME NEW page \in 1 .. last, NEW k \in 1 .. size
      PROVE  Shows(page, k) <=> Place0(page, k) \in DOMAIN s /\ s[Place0(page, k)] = c
  <2>1. page \in 1 .. PageCount(Cardinality(CasesFound(query)), size)
    OBVIOUS
  <2>2. /\ k \in DOMAIN shown[page] <=> Place0(page, k) <= n
        /\ k \in DOMAIN shown[page] =>
             Place0(page, k) \in DOMAIN s /\ shown[page][k] = Newest(s[Place0(page, k)])
    <3>1. /\ \A l \in Nat : l \in DOMAIN shown[page] <=> l \in 1 .. size /\ Place0(page, l) <= n
          /\ \A l \in DOMAIN shown[page] :
               Place0(page, l) \in DOMAIN s /\ shown[page][l] = Newest(s[Place0(page, l)])
      BY <2>1, RowOnPage
    <3>2. k \in Nat /\ k \in 1 .. size
      BY <1>2
    <3> HIDE DEF Place0, n, s
    <3> QED BY <3>1, <3>2
  <2>3. Place0(page, k) \in Nat /\ Place0(page, k) >= 1
    <3>1. page - 1 \in Nat /\ k \in Nat /\ k >= 1
      BY <1>2
    <3>2. (page - 1) * size \in Nat
      BY <3>1, OrderOfPages
    <3> QED BY <3>1, <3>2
  <2>4. \A d \in CasesFound(query) : Newest(d)[1] = d
    BY CasesAreListed, NewestIsFirst DEF RowsOf
  <2> HIDE DEF Place0, n, s
  <2>5. Place0(page, k) \in DOMAIN s <=> k \in DOMAIN shown[page]
    BY <1>1, <2>2, <2>3
  <2>6. k \in DOMAIN shown[page] => shown[page][k][1] = s[Place0(page, k)]
    BY <1>1, <2>2, <2>4
  <2> QED BY <2>5, <2>6
<1>4. CASE c \notin CasesFound(query)
  <2>1. places = {}
    <3>0. places = {at \in (1 .. last) \X (1 .. size) : Shows(at[1], at[2])}
      BY DEF PlacesOf
    <3> HIDE DEF Shows, Place0, s, n, places
    <3>1. \A page \in 1 .. last, k \in 1 .. size : ~Shows(page, k)
      BY <1>1, <1>3, <1>4
    <3> QED BY <3>0, <3>1
  <2> HIDE DEF places
  <2>2. Cardinality(places) = 0
    BY <2>1, FS_EmptySet
  <2> QED BY <1>4, <2>2 DEF places
<1>5. CASE c \in CasesFound(query)
  <2>1. PICK p \in DOMAIN s : s[p] = c
    BY <1>1, <1>5
  <2>2. p \in Nat \ {0} /\ p <= n
    BY <1>1, <2>1
  <2>3. PICK page \in Nat \ {0}, k \in 1 .. size :
          /\ p = (page - 1) * size + k
          /\ \A q \in Nat \ {0}, l \in 1 .. size : p = (q - 1) * size + l => q = page /\ l = k
    BY <2>2, OnePage
  <2>4. page \in 1 .. last
    <3>1. page - 1 \in Nat /\ k \in Nat /\ k >= 1
      BY <1>2
    <3> DEFINE a == page - 1
    <3>2. a * size \in Nat /\ last * size \in Nat
      BY <1>2, <3>1, OrderOfPages
    <3>3. a * size < last * size
      BY <1>1, <1>2, <2>2, <2>3, <3>1, <3>2
    <3>4. a < last
      <4> HIDE DEF a
      <4> QED BY <1>2, <3>1, <3>3, OrderOfPages DEF a
    <3> QED BY <1>2, <3>1, <3>4
  <2>5. \A q \in 1 .. last, l \in 1 .. size : p = Place0(q, l) => q = page /\ l = k
    <3>1. \A q \in 1 .. last : q \in Nat \ {0}
      BY <1>2
    <3> QED BY <2>3, <3>1
  <2>6. p = Place0(page, k)
    BY <2>3
  <2>7. \A q \in 1 .. last, l \in 1 .. size : Shows(q, l) <=> q = page /\ l = k
    <3> HIDE DEF Place0, Shows, n, s
    <3> QED BY <1>1, <1>3, <2>1, <2>3, <2>4, <2>5, <2>6
  <2>8. places = {<<page, k>>}
    <3>1. places = {at \in (1 .. last) \X (1 .. size) : Shows(at[1], at[2])}
      BY DEF PlacesOf
    <3> HIDE DEF Shows, places
    <3> QED BY <2>3, <2>4, <2>7, <3>1
  <2> HIDE DEF places
  <2>9. Cardinality(places) = 1
    BY <2>8, FS_Singleton
  <2> QED BY <1>5, <2>9 DEF places
<1> QED BY <1>4, <1>5

LEMMA RowsAreShown == RowsInv => SearchShowsEach
<1> SUFFICES ASSUME RowsInv, NEW query \in SUBSET (Titles \cup Cases), NEW size \in PageSizes
             PROVE  LET last == PageCount(Cardinality(CasesFound(query)), size)
                        shown == [page \in 1 .. (last + 2) |-> buildHomePage(query, size, page).rows]
                    IN /\ CasesFound(query) # {} => \A page \in DOMAIN shown : shown[page] # <<>>
                       /\ \A c \in Cases :
                            Cardinality({at \in (1 .. last) \X (1 .. size) :
                                           at[2] \in DOMAIN shown[at[1]] /\ shown[at[1]][at[2]][1] = c})
                              = (IF c \in CasesFound(query) THEN 1 ELSE 0)
                       /\ \A page \in 1 .. last : \A id \in ToSet(shown[page]) : id = listCaseBoundaryFiles(id[1])[1]
  BY DEF SearchShowsEach
<1> DEFINE last == PageCount(Cardinality(CasesFound(query)), size)
           shown == [page \in 1 .. (last + 2) |-> buildHomePage(query, size, page).rows]
<1>1. size \in Nat \ {0}
  BY SearchAssumption
<1>2. last \in Nat
  BY <1>1, CasesAreListed, FS_CardinalityType, PagesAre
<1>3. /\ DOMAIN shown = 1 .. (last + 2)
      /\ \A page \in 1 .. (last + 2) : shown[page] = buildHomePage(query, size, page).rows
  OBVIOUS
<1> HIDE DEF shown
<1>4. \A page \in 1 .. last : shown[page] = buildHomePage(query, size, page).rows
  <2> HIDE DEF last
  <2>1. \A page \in 1 .. last : page \in 1 .. (last + 2)
    BY <1>2
  <2> QED BY <1>3, <2>1
<1>5. ASSUME CasesFound(query) # {}, NEW page \in DOMAIN shown PROVE shown[page] # <<>>
  <2>1. page \in Nat \ {0}
    <3> HIDE DEF last
    <3> QED BY <1>2, <1>3
  <2> QED BY <1>1, <1>3, <1>5, <2>1, HomePageIs
<1>6. ASSUME NEW c \in Cases
      PROVE  Cardinality(PlacesOf(c, last, size, shown)) = (IF c \in CasesFound(query) THEN 1 ELSE 0)
  BY <1>1, <1>4, ShownOnce
<1>7. ASSUME NEW page \in 1 .. last, NEW id \in ToSet(shown[page])
      PROVE  id = listCaseBoundaryFiles(id[1])[1]
  <2>1. PICK k \in DOMAIN buildHomePage(query, size, page).rows : id = buildHomePage(query, size, page).rows[k]
    BY <1>4 DEF ToSet
  <2>2. \A l \in DOMAIN buildHomePage(query, size, page).rows :
          /\ l \in Nat /\ (page - 1) * size + l \in DOMAIN Listed(query)
          /\ buildHomePage(query, size, page).rows[l] = Newest(Listed(query)[(page - 1) * size + l])
    BY <1>1, RowOnPage
  <2>3. PICK d : d \in CasesFound(query) /\ id = Newest(d)
    BY <2>1, <2>2, CasesAreListed, OrderedIs
  <2> QED BY <2>3, CasesAreListed, NewestIsFirst DEF RowsOf
<1> QED BY <1>5, <1>6, <1>7 DEF shown, PlacesOf

\* A search lists each case found once over its pages, by the file its own page lists
\* first, and any page's link shows something if anything is found.
THEOREM EachIsShown == CbosSpec => []SearchShowsEach
<1>1. TypedInv => SearchShowsEach
  BY RowsAreShown DEF TypedInv
<1>2. CbosSpec => []TypedInv
  BY InitTyped, TypedKept, PTL DEF CbosSpec
<1> QED BY <1>1, <1>2, PTL

=============================================================================

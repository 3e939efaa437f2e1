---------------------------- MODULE ReportSelection ----------------------------
(***************************************************************************)
(* The consultees a user adds to a report and removes from it. There is no *)
(* server-side state: the selection travels in the report pages' URLs      *)
(* (report/urls.ts), and a page is what the run of the moment found, less  *)
(* the selection's removals, plus its additions. The run of the moment     *)
(* changes under a selection: another ruleset is chosen, the reference     *)
(* data is reloaded, or the run fails.                                     *)
(*                                                                         *)
(* A reason's text and the order a page sorts its rows in are left out;    *)
(* names are compared as the pages compare them, case and spacing aside.   *)
(***************************************************************************)
EXTENDS Naturals, Sequences, FiniteSets, SequencesExt

CONSTANTS
  Consultees,    \* ids of consultee areas and, in the category NSIPS, of other cases
  CategoryOf,    \* the category of each, in each dataset
  NameOf,        \* the name each is listed under
  Aliases,       \* the names each answers to: a case's project and reference alone too
  Away,          \* how far each is from the site, no two alike
  Categories,    \* every category
  NSIPS,         \* the category of the other cases
  NsipsLookedFor,\* TRUE unless config sets their distance to 0
  Rulesets,
  Covers,        \* the categories the conditions of each ruleset name
  Datasets,
  Finds,         \* what a run finds, by dataset and ruleset: id |-> the conditions it met,
                 \* 0 for the search for other cases and none for what is only nearby
  Stored,        \* the ids the tables hold, by dataset
  Names,         \* the names a user may type, and the reasons, one of them blank
  Reasons,
  Links,         \* the URL a visit may begin with: [exclude, add]
  MaxParams,     \* bound: exclude params, and add params, a URL carries
  None

ASSUME SelectionAssumption ==
  /\ NSIPS \in Categories /\ None \notin Consultees
  /\ CategoryOf \in [Datasets -> [Consultees -> Categories]]
  /\ \A id \in Consultees : NameOf[id] \in Names \ {""} /\ NameOf[id] \in Aliases[id]
  /\ Away \in [Consultees -> Nat]
  /\ \A d \in Datasets : /\ Stored[d] \subseteq Consultees
                         /\ \A r \in Rulesets : DOMAIN Finds[d][r] \subseteq Consultees

VARIABLES
  exclude,   \* the URL's exclude params
  add,       \* the URL's add params
  ruleset,   \* the URL's ruleset, None on a picker nothing has been picked on
  data,      \* the dataset the run of the moment screened
  failed,    \* the run of the moment failed
  steady     \* the selection was built from nothing under this one run

vars == <<exclude, add, ruleset, data, failed, steady>>

-----------------------------------------------------------------------------
(* The selection in the URL. *)

\* A param as it arrives: blank, a bare id, an entry - encoded or, in an older link,
\* plain JSON - or JSON without a category or a name.
Param == [kind : {"blank", "bare", "entry", "plain", "malformed"}, id : Consultees \cup {None},
          category : Categories \cup {""}, name : Names \cup {""}]

\* What is removed, or added, by its entry; and a removal that is an id alone.
Selected == [id : Consultees \cup {None}, category : Categories, name : Names \ {""}]
Excluded == [id : Consultees, category : {""}, name : {""}]

\* The params of these kinds, in their order; where all are, they are left as they are.
OfKind(params, kinds) ==
  IF \A i \in DOMAIN params : params[i].kind \in kinds THEN params
  ELSE SelectSeq(params, LAMBDA p : p.kind \in kinds)

queryValues(params) == OfKind(params, {"bare", "entry", "plain", "malformed"})

\* What an entry says, encoded or plain; JSON without a category or a name says nothing.
parseEntry(p) == [id |-> p.id, category |-> p.category, name |-> p.name]

\* A bare id excludes that match and lists nothing; what cannot be read is ignored.
removedConsultees(params) ==
  LET read == OfKind(queryValues(params), {"bare", "entry", "plain"})
      Bare(p) == [id |-> p.id, category |-> "", name |-> ""]
  IN [i \in DOMAIN read |-> IF read[i].kind = "bare" THEN Bare(read[i]) ELSE parseEntry(read[i])]

addedConsultees(params) ==
  LET read == OfKind(queryValues(params), {"entry", "plain"})
  IN [i \in DOMAIN read |-> parseEntry(read[i])]

\* A link is one the app has written, or an older one.
ASSUME LinksAssumption ==
  \A link \in Links :
    /\ link.exclude \in Seq(Param) /\ removedConsultees(link.exclude) \in Seq(Selected \cup Excluded)
    /\ link.add \in Seq(Param) /\ addedConsultees(link.add) \in Seq(Selected)

encodeEntryMutant(e) ==
  [kind |-> IF e.name = "" THEN "bare" ELSE "entry",
   id |-> IF e.id = None THEN "undefined" ELSE e.id, category |-> e.category, name |-> e.name]

\* An id-only removal round-trips as the bare param it arrived as.
encodeEntry(e) ==
  [kind |-> IF e.name = "" THEN "bare" ELSE "entry", id |-> e.id,
   category |-> e.category, name |-> e.name]

Encoded(entries) == [i \in DOMAIN entries |-> encodeEntry(entries[i])]

Removed == removedConsultees(exclude)
Adds == addedConsultees(add)

IdsOf(entries) == {e.id : e \in ToSet(entries)} \ {None}
excludedMatchIds == IdsOf(Removed)
addedMatchIds == IdsOf(Adds)

-----------------------------------------------------------------------------
(* The run the pages go by, and what each page lists. *)

Run == IF failed \/ ruleset = None THEN <<>> ELSE Finds[data][ruleset]

Category(id) == CategoryOf[data][id]

isIdentified(id) == Run[id] # {}

Identified(c) == {id \in DOMAIN Run : isIdentified(id) /\ Category(id) = c}
NearbyOnly(c) == {id \in DOMAIN Run : ~isIdentified(id) /\ Category(id) = c}

MatchRow(id) == [by |-> "ruleset", id |-> id, name |-> NameOf[id], index |-> 0]
AddedRow(k) == [by |-> "hand", id |-> Adds[k].id, name |-> Adds[k].name, index |-> k]

\* A category's Change page.
CategoryRows(c) ==
  {MatchRow(id) : id \in Identified(c) \ excludedMatchIds}
    \cup {AddedRow(k) : k \in {k \in DOMAIN Adds : Adds[k].category = c}}

\* Its Removed consultees section.
RemovedRows(c) == {e \in ToSet(Removed) : e.category = c /\ e.name # ""}

\* The categories a run is reported under: those covered, and any others found.
reportCategories ==
  Covers[ruleset] \cup {Category(id) : id \in {id \in DOMAIN Run : isIdentified(id)}}

\* The check page's list: every match not excluded and every addition goes under
\* its own category, and a category the list does not have is not shown.
CheckCategories == reportCategories \cup (IF NsipsLookedFor THEN {NSIPS} ELSE {})
groupedConsulteesMutant ==
  LET listed == {<<Category(id), MatchRow(id)>> : id \in {id \in DOMAIN Run : isIdentified(id)}}
                  \cup {<<Adds[k].category, AddedRow(k)>> : k \in DOMAIN Adds}
  IN [c \in CheckCategories |-> {x[2] : x \in {x \in listed : x[1] = c}}]

groupedConsultees ==
  LET kept == {id \in DOMAIN Run : isIdentified(id)} \ excludedMatchIds
      listed == {<<Category(id), MatchRow(id)>> : id \in kept}
                  \cup {<<Adds[k].category, AddedRow(k)>> : k \in DOMAIN Adds}
  IN [c \in CheckCategories |-> {x[2] : x \in {x \in listed : x[1] = c}}]

\* The report's sections: any category only an addition is in has one too.
reportByCategory ==
  LET sections == reportCategories \cup {e.category : e \in ToSet(Adds)}
      Section(c) == {MatchRow(id) : id \in Identified(c) \ excludedMatchIds}
                      \cup {AddedRow(k) : k \in {k \in DOMAIN Adds : Adds[k].category = c}}
  IN [c \in {c \in sections : Section(c) # {}} |-> Section(c)]

\* What a report says of a row: it is drawn, for the run found it.
Mapped(row) == row.by = "ruleset" \/ (row.id # None /\ row.id \in DOMAIN Run)

\* What the category's map draws as identified: matches not excluded, and those
\* added by hand (markAddedByHand).
DrawnAsIdentified(c, byHand) ==
  {id \in (Identified(c) \cup NearbyOnly(c)) \ excludedMatchIds : isIdentified(id) \/ id \in byHand}

categoryStaticMapMutant(c) == DrawnAsIdentified(c, {})

\* The static map's URL names the excluded ids, and the additions of its category.
categoryStaticMap(c) ==
  DrawnAsIdentified(c, {e.id : e \in {e \in ToSet(Adds) : e.category = c}} \ {None})

-----------------------------------------------------------------------------
(* Adding and removing. *)

Nearest(ids) == IF ids = {} THEN None ELSE CHOOSE id \in ids : \A o \in ids : Away[id] <= Away[o]

\* A category page exists for a category that is covered or found - and for the
\* other cases, and for any category while the run has failed.
HasPage(c) ==
  \/ failed
  \/ Identified(c) # {}
  \/ c = NSIPS /\ NsipsLookedFor
  \/ c \in Covers[ruleset]

listedNames(c) ==
  {NameOf[id] : id \in Identified(c) \ excludedMatchIds}
    \cup {e.name : e \in {e \in ToSet(Adds) : e.category = c}}

removedCandidates(c) == Identified(c) \cap excludedMatchIds
nearbyCandidates(c) == NearbyOnly(c) \ addedMatchIds

\* The candidate a typed name is matched to: of the other cases, the nearest;
\* else one the page removed, else one only the nearby search found.
NameCandidate(c, name) ==
  LET Called(ids) == {id \in ids : name \in Aliases[id]}
      cases == {id \in Stored[data] : Category(id) = NSIPS}
      removed == Called(removedCandidates(c))
  IN IF c = NSIPS THEN Nearest(Called(cases))
     ELSE IF removed # {} THEN Nearest(removed) ELSE Nearest(Called(nearbyCandidates(c)))

findConsulteeAreaByName(c, name) ==
  Nearest({id \in Stored[data] : Category(id) = c /\ NameOf[id] = name})

StoredConsulteeMutant(c, name) ==
  LET candidate == NameCandidate(c, name)
  IN IF name \in listedNames(c) THEN None
     ELSE IF candidate # None \/ c = NSIPS THEN candidate
     ELSE findConsulteeAreaByName(c, name)

\* The consultee a submitted name stands for, None if the form refuses it.
StoredConsultee(c, name) ==
  LET candidate == NameCandidate(c, name)
  IN IF name \in listedNames(c) THEN None
     ELSE IF candidate # None
          THEN IF NameOf[candidate] \in listedNames(c) THEN None ELSE candidate
     ELSE IF c = NSIPS THEN None
     ELSE findConsulteeAreaByName(c, name)

RemovalOfMutant(c, id) ==
  {i \in DOMAIN Removed : id # None /\ Removed[i].category = c /\ Removed[i].name = NameOf[id]}

RemovalOf(c, id) == {i \in DOMAIN Removed : Removed[i].category = c /\ Removed[i].id = id}
FirstOf(indices) == CHOOSE i \in indices : \A j \in indices : i <= j

\* The Add a consultee form: one the page removed comes back by its removal's
\* being undone, any other joins the URL's add params.
AddConsultee(c, name) ==
  LET id == StoredConsultee(c, name)
      removal == RemovalOf(c, id)
  IN /\ ruleset # None
     /\ HasPage(c)
     /\ id # None
     /\ IF removal # {}
        THEN /\ exclude' = Encoded(RemoveAt(Removed, FirstOf(removal)))
             /\ add' = Encoded(Adds)
        ELSE /\ Len(Adds) < MaxParams
             /\ exclude' = Encoded(Removed)
             /\ add' = Encoded(Append(Adds, [id |-> id, category |-> c, name |-> NameOf[id]]))
     /\ UNCHANGED <<ruleset, data, failed, steady>>

\* The Remove consultee form submitted: without a reason, or where the run failed that
\* would find its match, it is shown again; else the removal joins those recorded.
RecordRemoval(reason, removal, adds) ==
  /\ ruleset # None /\ reason # ""
  /\ removal.id # None => ~failed
  /\ Len(Removed) < MaxParams
  /\ exclude' = Encoded(Append(Removed, removal)) /\ add' = Encoded(adds)
  /\ UNCHANGED <<ruleset, data, failed, steady>>

\* The form opened by a ruleset match's link, which is for one the category lists.
RemoveMatch(c, id) ==
  /\ id \in Identified(c) /\ id \notin excludedMatchIds
  /\ \E reason \in Reasons :
       RecordRemoval(reason, [id |-> id, category |-> c, name |-> NameOf[id]], Adds)

RemoveAddedMutant(c, k) ==
  /\ k \in DOMAIN Adds /\ Adds[k].category = c
  /\ \E reason \in Reasons : RecordRemoval(reason, Adds[k], RemoveAt(Adds, k))

\* The same form, opened by an addition's link, which names its place among the
\* additions: it is dropped, and the removal has no match to exclude.
RemoveAdded(c, k) ==
  /\ k \in DOMAIN Adds /\ Adds[k].category = c
  /\ \E reason \in Reasons :
       RecordRemoval(reason, [id |-> None, category |-> c, name |-> Adds[k].name], RemoveAt(Adds, k))

\* "Identify consultees" on the ruleset picker: the selection rides along.
PickRuleset(r) ==
  /\ ruleset' = r
  /\ exclude' = Encoded(Removed) /\ add' = Encoded(Adds)
  /\ steady' = ((Removed = <<>> /\ Adds = <<>>) \/ (steady /\ r = ruleset))
  /\ UNCHANGED <<data, failed>>

\* The boundary page's Continue leads to the picker with nothing selected.
ContinueFromBoundary ==
  /\ ruleset' = None /\ exclude' = <<>> /\ add' = <<>> /\ steady' = TRUE
  /\ UNCHANGED <<data, failed>>

\* The next page's run fails, or is of the data then in use.
RunAgain(d, fails) ==
  /\ <<d, fails>> # <<data, failed>>
  /\ data' = d /\ failed' = fails
  /\ steady' = (Removed = <<>> /\ Adds = <<>>)
  /\ UNCHANGED <<exclude, add, ruleset>>

Init ==
  /\ \E link \in Links : exclude = link.exclude /\ add = link.add
  /\ ruleset \in Rulesets \cup {None}
  /\ data \in Datasets /\ failed = FALSE
  /\ steady = (Removed = <<>> /\ Adds = <<>>)

Next ==
  \/ \E c \in Categories, name \in Names : AddConsultee(c, name)
  \/ \E c \in Categories, id \in Consultees : RemoveMatch(c, id)
  \/ \E c \in Categories, k \in 1..MaxParams : RemoveAdded(c, k)
  \/ \E r \in Rulesets : PickRuleset(r)
  \/ ContinueFromBoundary
  \/ \E d \in Datasets, fails \in BOOLEAN : RunAgain(d, fails)

Spec == Init /\ [][Next]_vars

-----------------------------------------------------------------------------
(* Properties. *)

\* The variables are of their types.
TypeOK ==
  /\ exclude \in Seq(Param) /\ add \in Seq(Param)
  /\ ruleset \in Rulesets \cup {None}
  /\ data \in Datasets /\ failed \in BOOLEAN /\ steady \in BOOLEAN

\* Under one ruleset and one run, no addition repeats a name a category lists
\* ("refused, as is a name already listed"): two rows of a name are two matches
\* the ruleset identified. Over a change of either it may, which nothing checks.
ListedOnce ==
  steady /\ ruleset # None =>
    \A c \in Categories : \A r, s \in CategoryRows(c) :
      r.name = s.name /\ r # s => r.by = "ruleset" /\ s.by = "ruleset"

\* What the form accepts is then listed, under one ruleset and one run - by its
\* removal's being undone, or as an addition.
AddedIsListed ==
  [][\A c \in Categories, name \in Names :
       steady /\ AddConsultee(c, name) =>
         LET added == NameOf[StoredConsultee(c, name)] IN added \in listedNames(c)']_vars

\* How many of a category's rows are this consultee's, found or added alike.
Count(c, row) ==
  Cardinality({r \in CategoryRows(c) : <<r.by, r.id, r.name>> = <<row.by, row.id, row.name>>})

\* A row's Remove link takes away that row and no other, of any category, though
\* it names an addition by its place in a list every category's share.
RemovesJustTheRow ==
  [][\A c \in Categories : \A row \in CategoryRows(c) :
       (IF row.by = "ruleset" THEN RemoveMatch(c, row.id) ELSE RemoveAdded(c, row.index)) =>
         \A other \in Categories : \A r \in CategoryRows(other) :
           LET gone == IF <<other, r.by, r.id, r.name>> = <<c, row.by, row.id, row.name>> THEN 1 ELSE 0
           IN Count(other, r)' = Count(other, r) - gone]_vars

\* "The check page's counts, the category page's rows and the maps drawn from the
\* same URL always agree", and the report with them. What the check page leaves
\* out is additions alone, in categories its ruleset does not cover and found
\* nothing in; the report has them.
PagesAgree ==
  ruleset # None =>
    LET checked == groupedConsultees
        report == reportByCategory
    IN \A c \in Categories :
         /\ c \in DOMAIN checked => checked[c] = CategoryRows(c)
         /\ CategoryRows(c) = IF c \in DOMAIN report THEN report[c] ELSE {}
         /\ c \notin DOMAIN checked => \A row \in CategoryRows(c) : row.by = "hand"

\* Under one ruleset and one run, the rows the report says are mapped are those
\* the interactive map and the static map draw as identified.
MappedIsDrawn ==
  steady /\ ruleset # None =>
    \A c \in Categories :
      LET mapped == {row.id : row \in {row \in CategoryRows(c) : Mapped(row)}}
      IN /\ DrawnAsIdentified(c, addedMatchIds) = mapped
         /\ categoryStaticMap(c) = mapped

\* "Adding a removed consultee back undoes its removal": once the form accepted a
\* name, the category lists it, and not among the consultees removed.
AddingUndoesRemoval ==
  [][\A c \in Categories, name \in Names :
       AddConsultee(c, name) =>
         LET added == NameOf[StoredConsultee(c, name)]
         IN /\ added \in listedNames(c)'
            /\ \A e \in RemovedRows(c)' : e.name # added]_vars
=============================================================================

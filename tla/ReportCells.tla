------------------------------ MODULE ReportCells ------------------------------
(***************************************************************************)
(* The cells of a tab of the report's workbook (report/export/workbook.ts  *)
(* and report-config.ts): its fixed columns, then a column for each        *)
(* heading its consultees' metadata is exported under. Which attributes a  *)
(* consultee exports, and under which headings, config/report.yaml sets by *)
(* category, by tab or for all; what a stored row's metadata holds differs *)
(* from one source dataset to another.                                     *)
(*                                                                         *)
(* Abstractions. A value of JSON is a record of its kind and what it is    *)
(* of: an object's entries, a list's items, or words. A name is the        *)
(* sequence of keys that a dot joins. A fixed cell is its column and its   *)
(* row's consultee. Bound: a list holds no list.                           *)
(***************************************************************************)
EXTENDS Integers, Sequences, SequencesExt

CONSTANTS
  HomeTab,     \* the tab of each category's group in config/reference-data.yaml,
               \* NotSet for a category in none
  ReportYaml,  \* report.yaml as it may be: [defaults, tabs], each a record of
               \* columns and metadata, a tab also with its categories
  RowSources,  \* the consultees: [name, category, metadata, nsip]
  MaxRows,     \* Bound: the rows on the tab
  NotSet        \* a setting the file leaves out

VARIABLES yaml, sheet, tabRows
cellVars == <<yaml, sheet, tabRows>>

(* A stored row's metadata as attributes: parseMetadata *)

Text(words) == [kind |-> "text", of |-> words]
Nothing == [kind |-> "blank", of |-> <<>>]    \* null, undefined or ""

HasName(pairs, name) == \E i \in DOMAIN pairs : pairs[i].name = name
ValueAt(pairs, name) == pairs[CHOOSE i \in DOMAIN pairs : pairs[i].name = name].value

\* An object assigned a value: where the name is, or at the end.
Assign(pairs, name, value) ==
  IF HasName(pairs, name)
  THEN [i \in DOMAIN pairs |-> IF pairs[i].name = name THEN [name |-> name, value |-> value] ELSE pairs[i]]
  ELSE Append(pairs, [name |-> name, value |-> value])
AssignAll(pairs, more) == FoldLeft(LAMBDA all, p : Assign(all, p.name, p.value), pairs, more)

\* An object, or one held as text.
IsNested(value) == value.kind \in {"object", "objectAsText"}

RECURSIVE listText(_), flattenMetadata(_, _)

\* A list as one value: what its items say, an object's entries as pairs.
listText(items) ==
  LET Said(item) ==
        IF item.kind = "object"
        THEN FlattenSeq([i \in DOMAIN flattenMetadata(item.of, <<>>) |->
               flattenMetadata(item.of, <<>>)[i].name \o flattenMetadata(item.of, <<>>)[i].value.of])
        ELSE item.of
      given == SelectSeq(items, LAMBDA item : item.kind # "blank")
  IN Text(FlattenSeq([i \in DOMAIN given |-> Said(given[i])]))

\* One level of values: a nested object's under dotted names.
flattenMetadata(object, prefix) ==
  FoldLeft(LAMBDA flat, entry :
             LET name == prefix \o entry.name
             IN IF IsNested(entry.value) THEN AssignAll(flat, flattenMetadata(entry.value.of, name))
                ELSE Assign(flat, name, IF entry.value.kind = "list" THEN listText(entry.value.of) ELSE entry.value),
           <<>>, object)

\* A list, or what is no JSON, goes under a name of its own.
parseMetadata(raw) ==
  CASE raw.kind = "blank" -> <<>>
    [] raw.kind = "object" -> flattenMetadata(raw.of, <<>>)
    [] raw.kind = "list" -> <<[name |-> <<"Metadata">>, value |-> listText(raw.of)]>>
    [] OTHER -> <<[name |-> <<"Metadata">>, value |-> Text(raw.of)]>>

(* What report.yaml sets: parseReportConfig *)

Else(value, fallback) == IF value = NotSet THEN fallback ELSE value

parseReportConfig(file) ==
  LET tabs == [tab \in DOMAIN file.tabs |->
                 [columns |-> Else(file.tabs[tab].columns, file.defaults.columns),
                  metadata |-> Else(file.tabs[tab].metadata, file.defaults.metadata)]]
      listed == UNION {DOMAIN file.tabs[tab].categories : tab \in DOMAIN file.tabs}
  IN [defaults |-> file.defaults, tabs |-> tabs,
      categories |-> [c \in listed |-> Else(file.tabs[HomeTab[c]].categories[c], tabs[HomeTab[c]].metadata)]]

tabSettings(tab, config) == IF tab \in DOMAIN config.tabs THEN config.tabs[tab] ELSE config.defaults

\* Mutant: a category with no settings of its own has the defaults.
categorySettingsMutant(c, config) ==
  IF c \in DOMAIN config.categories THEN config.categories[c] ELSE config.defaults.metadata

\* A category's own, its home tab's - whichever tab its row is on - or the defaults.
categorySettings(c, config) ==
  IF c \in DOMAIN config.categories THEN config.categories[c]
  ELSE IF HomeTab[c] = NotSet THEN config.defaults.metadata
  ELSE tabSettings(HomeTab[c], config).metadata

(* The tab: groupTabs, sortableRow and tabContent *)

\* Mutants: a heading keeps the first listed attribute, with a value or not; or
\* takes the last.
exportedMetadataMutant(metadata, selection) ==
  CASE selection.which = "none" -> <<>>
    [] selection.which = "all" -> metadata
    [] OTHER -> FoldLeft(LAMBDA exported, pair :
                  IF HasName(exported, pair.heading) THEN exported
                  ELSE Assign(exported, pair.heading,
                              IF HasName(metadata, pair.attribute) THEN ValueAt(metadata, pair.attribute) ELSE Nothing),
                <<>>, selection.pairs)

\* By heading: all attributes, none, or those listed, a heading they share being
\* the first's that has a value.
exportedMetadata(metadata, selection) ==
  CASE selection.which = "none" -> <<>>
    [] selection.which = "all" -> metadata
    [] OTHER -> FoldLeft(LAMBDA exported, pair :
                  IF HasName(exported, pair.heading) /\ ValueAt(exported, pair.heading).kind # "blank" THEN exported
                  ELSE Assign(exported, pair.heading,
                              IF HasName(metadata, pair.attribute) THEN ValueAt(metadata, pair.attribute) ELSE Nothing),
                <<>>, selection.pairs)

\* A case's own fields win over what is stored of it.
sortableRow(source, tab, config) ==
  LET columns == tabSettings(tab, config).columns
  IN [category |-> source.category, name |-> source.name,
      cells |-> [i \in DOMAIN columns |-> [column |-> columns[i], of |-> source.name]],
      metadata |-> exportedMetadata(AssignAll(parseMetadata(source.metadata), source.nsip),
                                    categorySettings(source.category, config))]

\* By category and then name, which are compared as numbers; a sort is stable.
byCategoryThenName(rows) ==
  LET Precedes(a, b) == a.category < b.category \/ (a.category = b.category /\ a.name <= b.name)
      Into(sorted, row) ==
        LET before == SelectSeq(sorted, LAMBDA r : Precedes(r, row))
        IN before \o <<row>> \o SubSeq(sorted, Len(before) + 1, Len(sorted))
  IN FoldLeft(Into, <<>>, rows)

\* Mutant: the first row's headings stand for all.
metadataColumnsMutant(rows) ==
  IF rows = <<>> THEN <<>> ELSE [i \in DOMAIN rows[1].metadata |-> rows[1].metadata[i].name]

\* Every heading, in the order they first appear.
metadataColumns(rows) ==
  FoldLeft(LAMBDA headings, name : IF name \in ToSet(headings) THEN headings ELSE Append(headings, name),
           <<>>, FlattenSeq([r \in DOMAIN rows |-> [i \in DOMAIN rows[r].metadata |-> rows[r].metadata[i].name]]))

tabContent(rows, columns) ==
  LET sorted == byCategoryThenName(rows)
      headings == metadataColumns(sorted)
      Cell(row, name) == IF HasName(row.metadata, name) THEN ValueAt(row.metadata, name) ELSE Nothing
  IN [header |-> columns, headings |-> headings,
      rows |-> [r \in DOMAIN sorted |->
                  sorted[r].cells \o [i \in DOMAIN headings |-> Cell(sorted[r], headings[i])]]]

SheetTabs == {HomeTab[c] : c \in DOMAIN HomeTab} \ {NotSet}

\* A tab before its first consultee.
CellsInit == yaml \in ReportYaml /\ sheet \in SheetTabs /\ tabRows = <<>>

\* groupTabs pushes one consultee's row, found or added.
PushConsultee(source) ==
  /\ Len(tabRows) < MaxRows
  /\ tabRows' = Append(tabRows, source)
  /\ UNCHANGED <<yaml, sheet>>

\* buildReportSheets goes on to another tab, or report.
BeginTab == sheet' \in SheetTabs /\ tabRows' = <<>> /\ UNCHANGED yaml

CellsNext == (\E source \in RowSources : PushConsultee(source)) \/ BeginTab

TabWritten ==
  LET config == parseReportConfig(yaml)
  IN tabContent([r \in DOMAIN tabRows |-> sortableRow(tabRows[r], sheet, config)],
                tabSettings(sheet, config).columns)

------------------------------------------------------------------------------
(* Property *)

\* The values of metadata with the paths of keys they are at.
RECURSIVE Leaves(_, _)
Leaves(object, path) ==
  UNION {LET here == path \o object[i].name
         IN IF IsNested(object[i].value) THEN Leaves(object[i].value.of, here)
            ELSE {[name |-> here, value |-> IF object[i].value.kind = "list"
                                            THEN listText(object[i].value.of) ELSE object[i].value]}
         : i \in DOMAIN object}

Holds(source) ==
  LET own == {source.nsip[i] : i \in DOMAIN source.nsip}
      stored == IF source.metadata.kind = "object" THEN Leaves(source.metadata.of, <<>>)
                ELSE ToSet(parseMetadata(source.metadata))
  IN own \cup {leaf \in stored : \A o \in own : o.name # leaf.name}

\* What the file sets nearest to a category.
SetNearest(c) ==
  LET tab == HomeTab[c]
      own == IF tab \in DOMAIN yaml.tabs /\ c \in DOMAIN yaml.tabs[tab].categories
             THEN yaml.tabs[tab].categories[c] ELSE NotSet
      tabs == IF tab \in DOMAIN yaml.tabs THEN yaml.tabs[tab].metadata ELSE NotSet
  IN Else(own, Else(tabs, yaml.defaults.metadata))

\* What a consultee's cell under a heading may say: the value of the first attribute
\* that shares the heading and has one, and nothing if none has.
MaySay(source, heading) ==
  LET selection == SetNearest(source.category)
      Valued(name) == {leaf.value : leaf \in {l \in Holds(source) : l.name = name /\ l.value.kind # "blank"}}
      sharing == {i \in DOMAIN selection.pairs : selection.pairs[i].heading = heading
                                                 /\ Valued(selection.pairs[i].attribute) # {}}
      first == CHOOSE i \in sharing : \A j \in sharing : i <= j
      said == CASE selection.which = "none" -> {}
                [] selection.which = "all" -> Valued(heading)
                [] OTHER -> IF sharing = {} THEN {} ELSE Valued(selection.pairs[first].attribute)
  IN IF said = {} THEN {Nothing} ELSE said

\* Each consultee has one row, all of it its own, as wide as the header; and every value
\* that is exported of it stands under its heading, one that consultees of other
\* categories may share - "so different datasets' codes and names line up".
EachUnderItsHeading ==
  LET content == TabWritten
      fixed == Len(content.header)
      RowOf(source) ==
        {r \in DOMAIN content.rows :
           /\ \A i \in 1..fixed : content.rows[r][i].of = source.name
           /\ \A h \in DOMAIN content.headings :
                content.rows[r][fixed + h] \in MaySay(source, content.headings[h])}
      Exports(source) ==
        LET selection == SetNearest(source.category)
        IN CASE selection.which = "none" -> {}
             [] selection.which = "all" -> {leaf.name : leaf \in Holds(source)}
             [] OTHER -> {selection.pairs[i].heading : i \in DOMAIN selection.pairs}
  IN /\ Len(content.rows) = Len(tabRows)
     /\ IsInjective(content.headings) 
     /\ ToSet(content.headings) = UNION {Exports(tabRows[k]) : k \in DOMAIN tabRows}
     /\ \A r \in DOMAIN content.rows : Len(content.rows[r]) = fixed + Len(content.headings)
     /\ \A k \in DOMAIN tabRows :
          Cardinality(RowOf(tabRows[k])) >= Cardinality({j \in DOMAIN tabRows : tabRows[j] = tabRows[k]})
=============================================================================

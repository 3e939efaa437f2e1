------------------------------ MODULE ReportFile ------------------------------
(***************************************************************************)
(* The report a selection is built into (report/export): a tab per group   *)
(* of the rulesets workbook, a row per consultee, and a Summary tab whose  *)
(* lines count the rows. A row is described by the stored row of its       *)
(* consultee, which is read when the report is built and may be of a later *)
(* dataset than the run: there its category may differ, or it may be gone. *)
(***************************************************************************)
EXTENDS ReportSelection

CONSTANTS
  Tabs,         \* the tabs after Summary
  Conditions,   \* each ruleset's conditions, in order: [categories, group, logicType, buffer]
  SummaryConfig, \* the Summary's labels, as config/report.yaml lists them:
                \* a sequence of [tab, category, label, buffer], buffer None for any
  Site,          \* on one axis: the site's span, and in each dataset each area's
  SpanOf,
  ScreenedAs,    \* by dataset: what of the site was screened, "outline" or "boundingBox"
  BoxMargin, NearbyRadius, NsipRadius, MapMargin,
  RegionalAreas  \* those drawn too faintly to be framed

\* A group of the workbook is a tab, "Other" if it is none.
tabForGroup(group) == IF group \in Tabs THEN group ELSE "Other"

FirstNumber(numbers) == CHOOSE i \in numbers : \A j \in numbers : i <= j

tabForMatchMutant(id) ==
  LET first == FirstNumber(Run[id])
  IN IF first = 0 THEN "Other" ELSE tabForGroup(Conditions[ruleset][first].group)

\* A match goes on the tab of the first condition that identified it; another case
\* - the search for those is numbered 0 - on its own.
tabForMatch(id) ==
  LET first == FirstNumber(Run[id])
  IN IF first = 0 THEN NSIPS ELSE tabForGroup(Conditions[ruleset][first].group)

\* An addition goes on the tab of the first condition naming its category.
tabForCategory(c) ==
  LET naming == {i \in DOMAIN Conditions[ruleset] : c \in Conditions[ruleset][i].categories}
  IN IF c = NSIPS THEN NSIPS
     ELSE IF naming = {} THEN "Other"
     ELSE tabForGroup(Conditions[ruleset][FirstNumber(naming)].group)

\* The nearest buffer of the conditions that found it, a bordering one having none.
nearestBuffer(id) ==
  LET met == {Conditions[ruleset][i] : i \in Run[id] \ {0}}
      buffers == {condition.buffer : condition \in {m \in met : m.logicType = "intersection"}}
  IN IF buffers = {} THEN None ELSE FirstNumber(buffers)

identifiedInReport == {id \in DOMAIN Run : isIdentified(id)} \ excludedMatchIds
isNearbyNsip(id) == Category(id) = NSIPS

\* The consultee_area rows there are of these ids, and the case_boundary rows: what
\* each says of its category. An id of the one is not in the other.
consulteeAreaRecords(d, ids) ==
  [id \in {i \in ids \cap Stored[d] : CategoryOf[d][i] # NSIPS} |-> CategoryOf[d][id]]
nearbyNsipRecords(d, ids) == [id \in {i \in ids \cap Stored[d] : CategoryOf[d][i] = NSIPS} |-> NSIPS]

records(d) ==
  LET cases == {id \in identifiedInReport : isNearbyNsip(id)}
  IN nearbyNsipRecords(d, cases) @@ consulteeAreaRecords(d, (identifiedInReport \ cases) \cup addedMatchIds)

\* The report's rows, built from the stored rows of dataset d: the stored row's
\* category wins over the run's, but an addition keeps the one it was added under.
groupTabs(d) ==
  LET stored == records(d)
      Stands(id) == IF id \in DOMAIN stored THEN stored[id] ELSE Category(id)
      Found(id) == [tab |-> tabForMatch(id), category |-> Stands(id), buffer |-> nearestBuffer(id),
                    row |-> MatchRow(id)]
      Added(k) == [tab |-> tabForCategory(Adds[k].category), category |-> Adds[k].category,
                   buffer |-> None, row |-> AddedRow(k)]
  IN {Found(id) : id \in identifiedInReport} \cup {Added(k) : k \in DOMAIN Adds}

\* A tab's Summary lines, labels shared by categories sharing a line.
summaryLines(tab) ==
  LET own == SelectSeq(SummaryConfig, LAMBDA entry : entry.tab = tab)
      Same(a, b) == a.label = b.label /\ a.buffer = b.buffer
      firsts == {i \in DOMAIN own : \A j \in 1..(i - 1) : ~Same(own[i], own[j])}
      Line(i) == [label |-> own[i].label, buffer |-> own[i].buffer,
                  categories |-> {own[j].category : j \in {j \in DOMAIN own : Same(own[i], own[j])}}]
  IN [n \in 1..Cardinality(firsts) |->
        Line(CHOOSE i \in firsts : Cardinality({j \in firsts : j <= i}) = n)]

\* Whether a line counts a row: by its category and, if it has one, its buffer.
OnLine(line, row) == row.category \in line.categories /\ line.buffer \in {None, row.buffer}

summaryCountsMutant(tab, rows) ==
  LET lines == summaryLines(tab)
      rest == {row \in rows : \A n \in DOMAIN lines : ~OnLine(lines[n], row)}
  IN {[label |-> line.label, rows |-> {row \in rows : OnLine(line, row)}] : line \in ToSet(lines)}
       \cup {[label |-> c, rows |-> {row \in rest : row.category = c}] : c \in {row.category : row \in rest}}

\* The tab's lines with their counts - each row on the first line it is on - and
\* then what no line counts, under its category's own name.
summaryCounts(tab, rows) ==
  LET Take(counted, line) ==
        [left |-> {row \in counted.left : ~OnLine(line, row)},
         lines |-> Append(counted.lines,
                     [label |-> line.label, rows |-> {row \in counted.left : OnLine(line, row)}])]
      taken == FoldLeft(Take, [left |-> rows, lines |-> <<>>], summaryLines(tab))
      rest == {row.category : row \in taken.left}
  IN ToSet(taken.lines)
       \cup {[label |-> c, rows |-> {row \in taken.left : row.category = c}] : c \in rest}

-----------------------------------------------------------------------------
(* The PDF of a category: its map with a key, and the list of its consultees. *)

Grown(span, by) == <<span[1] - by, span[2] + by>>
Meet(s, t) == s[1] <= t[2] /\ t[1] <= s[2]
InView(s, t) == t[1] <= s[1] /\ s[2] <= t[2]
Around(spans) == <<FirstNumber({s[1] : s \in spans}), 0 - FirstNumber({0 - s[2] : s \in spans})>>

categoryBufferMetresMutant(c) ==
  LET naming == {i \in DOMAIN Conditions[ruleset] : c \in Conditions[ruleset][i].categories}
      metres == IF c = NSIPS THEN {NsipRadius}
                ELSE IF naming = {} THEN {} ELSE {Conditions[ruleset][FirstNumber(naming)].buffer}
  IN SetToSortSeq({m \in metres \ {None} : m > 0}, <)

\* The distances a category was looked for within, smallest first, each once.
categoryBufferMetres(c) ==
  LET naming == {r \in ToSet(Conditions[ruleset]) : c \in r.categories /\ r.logicType = "intersection"}
      metres == IF c = NSIPS THEN {NsipRadius} ELSE {r.buffer : r \in naming}
  IN SetToSortSeq({m \in metres : m > 0}, <)

screenedSiteMutant == Site
screenedSite == IF ScreenedAs[data] = "boundingBox" THEN Grown(Site, BoxMargin) ELSE Site

\* A distance's buffer is made once for a report, so on all of its maps or, if it
\* could not be drawn, on none.
bufferAroundSite(metres) == Grown(screenedSite, metres)

\* Of these ids, the areas, and the cases, whose display geometry touches the window.
getConsulteeAreaDisplayGeometries(d, ids, window) ==
  {id \in ids \cap Stored[d] : CategoryOf[d][id] # NSIPS /\ Meet(SpanOf[d][id], window)}
getCaseBoundaryDisplayGeometries(d, ids, window) ==
  {id \in ids \cap Stored[d] : CategoryOf[d][id] = NSIPS /\ Meet(SpanOf[d][id], window)}

\* Those that touch the search area, which grows from the outline whatever was
\* screened; none if they cannot be read of any dataset.
buildSearchArea(d, ids) ==
  LET area == Grown(Site, NearbyRadius)
      cases == {id \in ids : isNearbyNsip(id)}
  IN IF d = None THEN {}
     ELSE getConsulteeAreaDisplayGeometries(d, ids \ cases, area) \cup getCaseBoundaryDisplayGeometries(d, cases, area)

\* What the map frames, a twentieth more on each side: all it draws but what is regional.
reportMapView(d, drawn, buffers) ==
  LET framed == {SpanOf[d][id] : id \in drawn \ RegionalAreas} \cup {bufferAroundSite(m) : m \in buffers}
      all == Around(framed \cup {Site})
  IN IF framed = {} THEN Grown(Site, MapMargin) ELSE Grown(all, (all[2] - all[1]) \div 20)

\* A category's map, by geometries of dataset d or none, without the buffers that
\* cannot be drawn. It notes that none of its consultees could be drawn.
categoryMap(c, d, undrawn) ==
  LET visible == {id \in DOMAIN Run \ excludedMatchIds :
                    Category(id) = c /\ (isIdentified(id) \/ id \in addedMatchIds)}
      drawn == buildSearchArea(d, visible)
      buffers == SelectSeq(categoryBufferMetres(c), LAMBDA m : m \notin undrawn)
  IN [drawn |-> drawn, buffers |-> buffers, view |-> reportMapView(d, drawn, ToSet(buffers)),
      mapNote |-> visible # {} /\ drawn = {}]

\* Under the map its key, and on the next page the section's rows, each said not to be
\* on the map if it is not mapped.
buildMapPdf(rows, map) ==
  LET HasBuffers == map.buffers # <<>>
  IN [key |-> {"In the report", "The site"} \cup (IF HasBuffers THEN {"Ruleset buffers"} ELSE {}),
      onMap |-> {row \in rows : Mapped(row)}]

-----------------------------------------------------------------------------
(* Property *)

\* The Summary's lines add up: on each tab to its rows, and over the tabs to what
\* was identified and added - each row counted once, whatever its stored row says.
SummaryAddsUp ==
  \A d \in Datasets :
    LET tabs == groupTabs(d)
        RowsOn(tab) == {row \in tabs : row.tab = tab}
    IN /\ \A tab \in Tabs :
            LET lines == summaryCounts(tab, RowsOn(tab))
            IN /\ MapThenSumSet(LAMBDA line : Cardinality(line.rows), lines) = Cardinality(RowsOn(tab))
               /\ UNION {line.rows : line \in lines} = RowsOn(tab)
       /\ MapThenSumSet(LAMBDA tab : Cardinality(RowsOn(tab)), Tabs)
            = Cardinality(UNION {CategoryRows(c) : c \in Categories})

\* A category's rows are on the tab whose group the check page lists it under,
\* "so the page's sections match the report".
TabsMatchSections ==
  \A d \in Datasets : \A row \in groupTabs(d) : \A c \in Categories :
    row.row \in CategoryRows(c) => row.tab = tabForCategory(c)

\* A category's PDF is of what the category's page lists: under one ruleset and one
\* run, the rows it does not say are off the map are drawn, or the map says that none
\* could be; the buffers of the conditions that found a row are among the map's, and
\* one that can be drawn reaches the areas it found, whatever of the site was
\* screened; and what is drawn locally is in the picture.
MapsMatchPages ==
  LET sections == reportByCategory
      Near(id) == IF isNearbyNsip(id) THEN NsipRadius ELSE nearestBuffer(id)
      Agrees(c, d, undrawn) ==
        LET map == categoryMap(c, d, undrawn)
            pdf == buildMapPdf(sections[c], map)
            found == Identified(c) \ excludedMatchIds
        IN /\ steady /\ d \in {data, None} => map.mapNote \/ map.drawn = {row.id : row \in pdf.onMap}
           /\ undrawn = {} => \A id \in found : Near(id) \in ToSet(map.buffers) \cup {None, 0}
           /\ d = data => \A id \in found : Near(id) \in ToSet(map.buffers) =>
                             Meet(SpanOf[d][id], bufferAroundSite(Near(id)))
           /\ \A id \in map.drawn \ RegionalAreas : InView(SpanOf[d][id], map.view)
           /\ "Ruleset buffers" \in pdf.key <=> map.buffers # <<>>
  IN \A c \in DOMAIN sections, d \in Datasets \cup {None} :
       Agrees(c, d, {}) /\ Agrees(c, d, ToSet(categoryBufferMetres(c)))

\* The report says what the pages it was made from said: its tabs are their sections,
\* what its Summary counts is what they list, and its maps are of it.
FileMatchesPages == ruleset # None => SummaryAddsUp /\ TabsMatchSections /\ MapsMatchPages
=============================================================================

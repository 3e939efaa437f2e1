------------------------------- MODULE Screening -------------------------------
(***************************************************************************)
(* A ruleset run of the Python function (apps/function-python/intersector, *)
(* screening.py and queries.py): one search for everything nearby, a query *)
(* or more for each condition it cannot answer, several at a time, and a   *)
(* last one that measures what no other measured. Every query is a         *)
(* statement of its own against the consultee areas, through the synonym   *)
(* or a quarter's table, while the loader of ConsulteeDatasets deletes and *)
(* merges rows and moves the synonym between any two of them.              *)
(*                                                                         *)
(* Abstractions. An area's row is its category and its distance from the   *)
(* site's outline, from the outline that covers it and from its bounding   *)
(* box: the last two are never further. Which areas border, and which lie  *)
(* in the rectangle around a set of hosts, is given. Queries that read no  *)
(* consultee area (simplify, grow, reach, the covering outline) are part   *)
(* of the step that uses them. A condition is its place in the ruleset.    *)
(***************************************************************************)
EXTENDS Integers, Sequences, FiniteSets, FiniteSetsExt

CONSTANTS
  Areas, Datasets,
  RowOf,             \* RowOf[d][a]: the area's row when dataset d has it
  FirstPresent,      \* the areas each dataset has at first
  Borders,           \* pairs of areas within BORDERING_TOLERANCE_METRES
  AroundHosts(_),    \* the areas in the rectangle around a set of hosts
  Rules,             \* the ruleset: a sequence of conditions
  Excluded,          \* CATEGORIES_EXCLUDED_FROM_NEARBY
  DefaultRadius, RadiusByCategory,
  Margin,            \* DISTANCE_MARGIN_METRES
  Concurrency,       \* CONDITION_CONCURRENCY
  IdBatch,           \* ID_LOOKUP_BATCH_SIZE
  Asked,             \* the requests: the dataset named, whether the box is asked
                     \* for, whether the site is too detailed and can be covered
  MaxChanges,        \* bound: statements of a load or switches during a run
  None

\* A covering outline, and a box, are around the site: nothing is further from
\* them. The rectangle around some hosts has every area that borders one in it.
ASSUME ScreeningAssumption ==
  /\ None \notin Datasets \cup Nat
  /\ FirstPresent \in [Datasets -> SUBSET Areas]
  /\ \A d \in Datasets, a \in Areas :
       /\ RowOf[d][a] # None /\ RowOf[d][a].category # None
       /\ RowOf[d][a].site \in Nat
       /\ RowOf[d][a].cover \in 0..RowOf[d][a].site /\ RowOf[d][a].box \in 0..RowOf[d][a].site
  /\ \A hosts \in SUBSET Areas : \A h \in hosts, a \in Areas :
       <<h, a>> \in Borders => a \in AroundHosts(hosts)
  /\ Len(Rules) \in Nat
  /\ \A i \in 1..Len(Rules) : /\ Rules[i].logic \in {"intersection", "bordering"}
                              /\ Rules[i].buffer \in Nat
  /\ DefaultRadius \in Nat /\ Margin \in Nat
  /\ IsFiniteSet(DOMAIN RadiusByCategory)
  /\ \A c \in DOMAIN RadiusByCategory : RadiusByCategory[c] \in Nat
  /\ \A request \in Asked : request.box \in BOOLEAN
  /\ MaxChanges \in Nat /\ None \notin Asked

Categories == UNION {{RowOf[d][a].category : a \in Areas} : d \in Datasets}
Search == 0                 \* the task that is the nearby search ...
Conditions == 1..Len(Rules) \* ... and those that are a condition's own queries
Measure == Len(Rules) + 1   \* and the one that measures what is left

VARIABLES
  present,   \* the areas each dataset has rows of
  inUse,     \* the dataset the synonym points at
  changes,   \* how often either has changed
  pc,        \* where the run is
  asked,     \* its request
  around,    \* what is screened: "site", "cover" or "box"
  tasks,     \* each task: where it is, what it found, what it has left to ask
  consultees,  \* the areas identified, each once, and why
  seen       \* history: the rows there were, or None, at any time of the run

world == <<present, inUse, changes>>
vars == <<present, inUse, changes, pc, asked, around, tasks, consultees, seen>>

NoTask == [pc |-> "waiting", found |-> {}, left |-> {}]

\* The table the run's queries name, and the row it has of an area now.
Table(d) == IF d = None THEN inUse ELSE d
Rows(d) == {a \in Areas : a \in present[Table(d)]}
Row(a) == RowOf[Table(asked.dataset)][a]
Visible(d) == {<<a, IF a \in Rows(d) THEN RowOf[Table(d)][a] ELSE None>> : a \in Areas}

Init ==
  /\ present = FirstPresent
  /\ inUse \in Datasets
  /\ changes = 0
  /\ pc = "idle" /\ asked = None /\ around = None
  /\ tasks = [t \in Search..Measure |-> NoTask]
  /\ consultees = <<>>
  /\ seen = {}

------------------------------------------------------------------------------
(* What a run is asked and decides *)

InCategories(categories, category) == categories = {} \/ category \in categories

RadiusOf(category) ==
  IF category \in DOMAIN RadiusByCategory THEN RadiusByCategory[category] ELSE DefaultRadius
SearchRadius == Max({DefaultRadius} \cup {RadiusByCategory[c] : c \in DOMAIN RadiusByCategory})

\* answerable_from_nearby: the search has every row the condition could match.
Answerable(rule) ==
  /\ rule.logic = "intersection"
  /\ rule.buffer <= SearchRadius
  /\ rule.categories # {} /\ rule.categories \cap Excluded = {}

OwnQuery == {i \in Conditions : ~Answerable(Rules[i])}

\* Mutant: the margin is forgotten where a match is filtered in memory.
MeetsMutant(match, rule) ==
  /\ rule.logic = "intersection"
  /\ InCategories(rule.categories, match.category)
  /\ match.distance <= rule.buffer

\* meets_intersection_condition.
Meets(match, rule) ==
  /\ rule.logic = "intersection"
  /\ InCategories(rule.categories, match.category)
  /\ match.distance <= rule.buffer + Margin

\* A request that passes validation. A dataset it names must have a table.
Begin(request) ==
  /\ pc = "idle" /\ request.dataset \in Datasets \cup {None}
  /\ pc' = "search"
  /\ asked' = request
  /\ around' = IF request.box THEN "box" ELSE IF ~request.detailed THEN "site"
               ELSE IF request.coverable THEN "cover" ELSE "box"
  /\ seen' = Visible(request.dataset)
  /\ UNCHANGED <<world, tasks, consultees>>

RefuseDataset(request) ==
  /\ pc = "idle" /\ request.dataset \notin Datasets \cup {None}
  /\ pc' = "unknownDataset"
  /\ asked' = request
  /\ UNCHANGED <<world, around, tasks, consultees, seen>>

------------------------------------------------------------------------------
(* Queries *)

\* The site is measured from as screened; a covering outline stands in for it
\* only in a search.
Site == IF around = "cover" THEN "site" ELSE around

\* queries.find_areas_near.
FoundNear(radius, categories, excluded) ==
  {[id |-> a, category |-> Row(a).category, distance |-> Row(a)[around], approximate |-> FALSE] :
     a \in {b \in Rows(asked.dataset) :
              /\ Row(b)[around] <= radius + Margin
              /\ InCategories(categories, Row(b).category)
              /\ Row(b).category \notin excluded}}

\* _find_areas_near, up to its second query: what a condition depends on is to
\* be measured from the site. Only conditions of intersection count, and with
\* none everything does.
Found(found, rules) ==
  LET measuring == {r \in rules : r.logic = "intersection"}
      depended == {m \in found : measuring = {} \/ \E r \in measuring : Meets(m, r)} IN
  IF around # "cover" THEN [pc |-> "done", found |-> found, left |-> {}]
  ELSE [pc |-> IF depended = {} THEN "done" ELSE "measure",
        found |-> depended \cup {[m EXCEPT !.approximate = TRUE] : m \in found \ depended},
        left |-> {m.id : m \in depended}]

\* Mutant: an area that is gone keeps the distance it was found at.
RemeasuredMutant(found, batch, radius) ==
  {m \in found : m.id \notin batch}
    \cup {[m EXCEPT !.distance = IF m.id \in Rows(asked.dataset) THEN Row(m.id)[Site] ELSE @] :
            m \in {n \in found : n.id \in batch /\ (n.id \in Rows(asked.dataset) =>
                                                      Row(n.id)[Site] <= radius + Margin)}}

\* One batch of measure_distances for a search: absent or out of reach is dropped.
Remeasured(found, batch, radius) ==
  {m \in found : m.id \notin batch}
    \cup {[m EXCEPT !.distance = Row(m.id)[Site]] :
            m \in {n \in found : /\ n.id \in batch \cap Rows(asked.dataset)
                                 /\ Row(n.id)[Site] <= radius + Margin}}

\* Ids are looked up IdBatch at a time, and the batches together are all of them.
Batches(ids) ==
  {b \in SUBSET ids : Cardinality(b) = Min({IdBatch, Cardinality(ids)})}

\* A query of task t answers, leaving the task as given.
Answers(t, task) == tasks' = [tasks EXCEPT ![t] = task]

\* One query out to the largest radius, and the batches that measure again.
SearchNearby ==
  /\ pc = "search" /\ tasks[Search].pc = "waiting"
  /\ Answers(Search, Found(FoundNear(SearchRadius, {}, Excluded), {Rules[i] : i \in Conditions}))
  /\ UNCHANGED <<world, pc, asked, around, consultees, seen>>

MeasureAgain(t, radius) ==
  /\ tasks[t].pc = "measure"
  /\ \E b \in Batches(tasks[t].left) :
       Answers(t, [pc |-> IF b = tasks[t].left THEN "done" ELSE "measure",
                   found |-> Remeasured(tasks[t].found, b, radius),
                   left |-> tasks[t].left \ b])
  /\ UNCHANGED <<world, pc, asked, around, consultees, seen>>

MeasureNearby == pc = "search" /\ MeasureAgain(Search, SearchRadius)

\* _match_conditions: the other conditions wait for the pool.
StartConditions ==
  /\ pc = "search" /\ tasks[Search].pc = "done"
  /\ pc' = "conditions"
  /\ UNCHANGED <<world, asked, around, tasks, consultees, seen>>

\* The pool takes conditions in their order, Concurrency at a time.
Pooled(i) ==
  /\ pc = "conditions" /\ i \in OwnQuery
  /\ Cardinality({j \in OwnQuery : j < i /\ tasks[j].pc # "done"}) < Concurrency

Near(i) ==
  LET rule == Rules[i] IN
  /\ Pooled(i) /\ rule.logic = "intersection" /\ tasks[i].pc = "waiting"
  /\ Answers(i, Found(FoundNear(rule.buffer, rule.categories, {}), {rule}))
  /\ UNCHANGED <<world, pc, asked, around, consultees, seen>>

MeasureNear(i) == Pooled(i) /\ MeasureAgain(i, Rules[i].buffer)

\* The hosts of a bordering condition; one with no host or no categories asks
\* for none.
Hosts(i) ==
  LET rule == Rules[i]
      hosts == IF rule.host = None \/ rule.categories = {} THEN {}
               ELSE {a \in Rows(asked.dataset) : Row(a).category = rule.host
                                                   /\ Row(a)[Site] <= Margin} IN
  /\ Pooled(i) /\ rule.logic = "bordering" /\ tasks[i].pc = "waiting"
  /\ Answers(i, [pc |-> IF hosts = {} THEN "done" ELSE "hosts", found |-> {}, left |-> hosts])
  /\ UNCHANGED <<world, pc, asked, around, consultees, seen>>

\* Mutant: a host is left out as its own neighbour, and so is every other host.
NeighboursMutant(i, hosts, areas) ==
  {[id |-> a, category |-> Row(a).category, distance |-> None, approximate |-> FALSE] :
     a \in {b \in Rows(asked.dataset) \cap areas : Row(b).category \in Rules[i].categories \ {Rules[i].host}}}

Neighbours(i, hosts, areas) ==
  {[id |-> a, category |-> Row(a).category, distance |-> None, approximate |-> FALSE] :
     a \in {b \in Rows(asked.dataset) \cap areas : Row(b).category \in Rules[i].categories}}

\* find_areas_bordering asks for one host's neighbours after another's. A match
\* of an area replaces one found for an earlier host.
NeighboursOfHost(i) ==
  /\ Pooled(i) /\ around # "box" /\ tasks[i].pc = "hosts"
  /\ \E h \in tasks[i].left :
       LET more == Neighbours(i, {h}, {a \in Areas \ {h} : <<h, a>> \in Borders})
           left == tasks[i].left \ {h} IN
       Answers(i, [pc |-> IF left = {} THEN "done" ELSE "hosts",
                   found |-> {m \in tasks[i].found : \A n \in more : n.id # m.id} \cup more,
                   left |-> left])
  /\ UNCHANGED <<world, pc, asked, around, consultees, seen>>

\* find_areas_bordering_box asks for all of them at once.
NeighboursInBox(i) ==
  /\ Pooled(i) /\ around = "box" /\ tasks[i].pc = "hosts"
  /\ Answers(i, [pc |-> "done", left |-> {},
                 found |-> Neighbours(i, tasks[i].left, AroundHosts(tasks[i].left))])
  /\ UNCHANGED <<world, pc, asked, around, consultees, seen>>

------------------------------------------------------------------------------
(* Putting the answers together *)

MatchesOf(i) ==
  IF i \in OwnQuery THEN tasks[i].found
  ELSE {m \in tasks[Search].found : Meets(m, Rules[i])}

\* nearby_radius_for.
IsNearby(match) ==
  RadiusOf(match.category) > 0 /\ match.distance <= RadiusOf(match.category) + Margin

Nearby == {m \in tasks[Search].found : IsNearby(m)}

\* _combine: each area once, with the nearest distance any query measured.
Combined ==
  LET matches(a) == {m \in Nearby \cup UNION {MatchesOf(i) : i \in Conditions} : m.id = a}
      measured(a) == {m \in matches(a) : m.distance # None}
      nearest(a) == CHOOSE m \in measured(a) : \A n \in measured(a) : m.distance <= n.distance IN
  [a \in {b \in Areas : matches(b) # {}} |->
     [distance |-> IF measured(a) = {} THEN None ELSE nearest(a).distance,
      approximate |-> measured(a) # {} /\ nearest(a).approximate,
      conditions |-> {i \in Conditions : \E m \in MatchesOf(i) : m.id = a},
      nearby |-> {RadiusOf(m.category) : m \in {n \in Nearby : n.id = a}}]]

\* Mutant: a distance from the covering outline is taken for the site's.
CombineMutant ==
  LET unmeasured == {a \in DOMAIN Combined : Combined[a].distance = None} IN
  /\ pc = "conditions" /\ \A i \in OwnQuery : tasks[i].pc = "done"
  /\ consultees' = Combined
  /\ tasks' = [tasks EXCEPT ![Measure].left = unmeasured]
  /\ pc' = IF unmeasured = {} THEN "done" ELSE "measure"
  /\ UNCHANGED <<world, asked, around, seen>>

\* Mutant: what has no distance is left without one.
CombineUnmeasured ==
  /\ pc = "conditions" /\ \A i \in OwnQuery : tasks[i].pc = "done"
  /\ consultees' = Combined
  /\ pc' = "done"
  /\ UNCHANGED <<world, asked, around, tasks, seen>>

\* All conditions are answered; what has no distance, or only an approximate one
\* that a condition identified, is to be measured.
Combine ==
  LET unmeasured == {a \in DOMAIN Combined :
        \/ Combined[a].distance = None
        \/ Combined[a].approximate /\ Combined[a].conditions # {}} IN
  /\ pc = "conditions" /\ \A i \in OwnQuery : tasks[i].pc = "done"
  /\ consultees' = Combined
  /\ tasks' = [tasks EXCEPT ![Measure].left = unmeasured]
  /\ pc' = IF unmeasured = {} THEN "done" ELSE "measure"
  /\ UNCHANGED <<world, asked, around, seen>>

\* A batch of _measure_unmeasured: what is gone is no consultee, and a reason to
\* be nearby goes with a distance past its radius.
MeasureUnmeasured ==
  /\ pc = "measure"
  /\ \E b \in Batches(tasks[Measure].left) :
       /\ consultees' =
            [a \in DOMAIN consultees \ (b \ Rows(asked.dataset)) |->
               IF a \notin b THEN consultees[a]
               ELSE [consultees[a] EXCEPT !.distance = Row(a)[Site], !.approximate = FALSE,
                       !.nearby = {r \in @ : Row(a)[Site] <= r + Margin}]]
       /\ tasks' = [tasks EXCEPT ![Measure].left = @ \ b]
       /\ pc' = IF b = tasks[Measure].left THEN "done" ELSE "measure"
  /\ UNCHANGED <<world, asked, around, seen>>

\* A query fails, or the run is out of time: there is no answer at all.
Fail ==
  /\ pc \in {"search", "conditions", "measure"}
  /\ pc' = "failed"
  /\ UNCHANGED <<world, asked, around, tasks, consultees, seen>>

------------------------------------------------------------------------------
(* Reference data is loaded and switched to meanwhile *)

Screened == pc \in {"search", "conditions", "measure"}

\* A DELETE or a MERGE of some rows of a dataset.
LoadStatement(d) ==
  \E some \in (SUBSET Areas) \ {{}} :
    present' \in {[present EXCEPT ![d] = @ \ some], [present EXCEPT ![d] = @ \cup some]}
LoadRows ==
  /\ \E d \in Datasets : LoadStatement(d)
  /\ UNCHANGED inUse

Switch ==
  /\ \E d \in Datasets \ {inUse} : inUse' = d
  /\ UNCHANGED present

Reload ==
  /\ Screened /\ changes < MaxChanges
  /\ LoadRows \/ Switch
  /\ changes' = changes + 1
  /\ UNCHANGED <<pc, asked, around, tasks, consultees>>
  /\ seen' = seen \cup Visible(asked.dataset)'

Query ==
  \/ SearchNearby \/ MeasureNearby \/ StartConditions
  \/ \E i \in Conditions : \/ Near(i) \/ MeasureNear(i) \/ Hosts(i)
                           \/ NeighboursOfHost(i) \/ NeighboursInBox(i)
  \/ Combine \/ MeasureUnmeasured

Next == (\E request \in Asked : Begin(request) \/ RefuseDataset(request)) \/ Query \/ Fail \/ Reload

Spec == Init /\ [][Next]_vars

------------------------------------------------------------------------------
(* Properties *)

Match == [id : Areas, category : Categories, distance : Nat \cup {None}, approximate : BOOLEAN]
Task == [pc : {"waiting", "measure", "hosts", "done"}, found : SUBSET Match, left : SUBSET Areas]
Consultee == [distance : Nat \cup {None}, approximate : BOOLEAN,
              conditions : SUBSET Conditions, nearby : SUBSET Nat]

\* Every variable has a value of its kind; an answer gives each consultee a
\* distance and a reason.
TypeOK ==
  /\ present \in [Datasets -> SUBSET Areas]
  /\ inUse \in Datasets /\ changes \in 0..MaxChanges
  /\ pc \in {"idle", "search", "conditions", "measure", "done", "failed", "unknownDataset"}
  /\ asked \in Asked \cup {None} /\ around \in {"site", "cover", "box", None}
  /\ tasks \in [Search..Measure -> Task]
  /\ DOMAIN consultees \subseteq Areas
  /\ \A a \in DOMAIN consultees :
       /\ consultees[a] \in Consultee
       /\ pc = "done" => consultees[a].distance # None

RowsSeen(a) == {s[2] : s \in {t \in seen : t[1] = a}}

\* An area whose row was there and the same throughout the run.
Stable(a) == \E r \in RowsSeen(a) : r # None /\ RowsSeen(a) = {r}
StableRow(a) == CHOOSE r \in RowsSeen(a) : TRUE
StableAreas == {a \in Areas : Stable(a)}

\* What a ruleset identifies, by definition: within a condition's distance of
\* the site's own outline, or bordering an area of its host category that is.
Identifies(rule, a) ==
  LET row == StableRow(a) IN
  /\ InCategories(rule.categories, row.category)
  /\ rule.logic = "bordering" => rule.categories # {}
  /\ IF rule.logic = "intersection" THEN row.site <= rule.buffer + Margin
     ELSE \E h \in StableAreas : /\ <<h, a>> \in Borders /\ h # a
                                 /\ StableRow(h).category = rule.host
                                 /\ StableRow(h).site <= Margin
IsNear(a) ==
  LET row == StableRow(a) IN
  /\ row.category \notin Excluded /\ RadiusOf(row.category) > 0
  /\ row.site <= RadiusOf(row.category) + Margin

\* "Consulting one body too many is acceptable; missing one isn't": whatever is
\* loaded or switched to during a run, and whichever of the three shapes stands
\* for the site, an area whose own row (and, for bordering, its host's) stays
\* as it is is listed for every condition it meets, and as nearby.
StableIsFound ==
  pc = "done" =>
    \A a \in StableAreas :
      /\ \A i \in Conditions : Identifies(Rules[i], a) =>
           a \in DOMAIN consultees /\ i \in consultees[a].conditions
      /\ IsNear(a) => a \in DOMAIN consultees /\ consultees[a].nearby # {}

\* "The consultees a condition identifies, and their distances, are exactly the
\* outline's", measured around a covering outline or not: an area that stays as
\* it is is identified by no intersection condition it does not meet, is listed
\* at its own distance, and as nearby only if it is.
ExactlyTheOutlines ==
  pc = "done" /\ around # "box" =>
    \A a \in StableAreas \cap DOMAIN consultees :
      /\ \A i \in consultees[a].conditions :
           Rules[i].logic = "intersection" => Identifies(Rules[i], a)
      /\ consultees[a].conditions # {} \/ around = "site" =>
           /\ consultees[a].distance = StableRow(a).site
           /\ consultees[a].nearby # {} => IsNear(a)

\* Nobody is told of a consultee for a reason the data never gave: each rests on
\* rows there were while the run ran, even if no two of its queries saw the same.
ReasonsSeen ==
  pc = "done" =>
    \A a \in DOMAIN consultees : LET rows == RowsSeen(a) \ {None} IN
      /\ \A i \in consultees[a].conditions : LET rule == Rules[i] IN
           /\ \E r \in rows : InCategories(rule.categories, r.category)
           /\ IF rule.logic = "intersection" THEN \E r \in rows : r[Site] <= rule.buffer + Margin
              ELSE \E h \in Areas : \E r \in RowsSeen(h) \ {None} :
                     /\ r.category = rule.host /\ r[Site] <= Margin
                     /\ around # "box" => h # a /\ <<h, a>> \in Borders
      /\ \A radius \in consultees[a].nearby :
           \E r \in rows, s \in rows : /\ RadiusOf(r.category) = radius /\ r.category \notin Excluded
                                      /\ s[around] <= radius + Margin
      /\ consultees[a].conditions # {} \/ consultees[a].nearby # {}

=============================================================================

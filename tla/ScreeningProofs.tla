---------------------------- MODULE ScreeningProofs ----------------------------
(***************************************************************************)
(* Theorems about Screening, for any ruleset, any areas and any changes to *)
(* them while a run is going on: what stays as it is is found (and, around *)
(* an outline, is found exactly), and every reason given has rows behind   *)
(* it. And about RunDeadline, for any number of conditions, threads and    *)
(* retries, and any timeouts: no query goes on when the app has given up,  *)
(* and no connection is closed under one.                                  *)
(*                                                                         *)
(* An answer is put together from what several queries read at different   *)
(* times, so IInv says of each task, wherever it is, what its matches owe  *)
(* to the rows seen since the run began, and that it has a match of every  *)
(* area that has been there all along and meets its rule (TaskInv), and of *)
(* the consultees what they have taken over of that (AnswerInv). Both are  *)
(* stated of a value, so that a step is about the value it gives.          *)
(***************************************************************************)
EXTENDS Screening, RunDeadline, FiniteSetTheorems, WellFoundedInduction, TLAPS

\* The rows an area has had during the run, and the one it has had all along.
RowsOf(a) == RowsSeen(a) \ {None}
Always(a, r) == r # None /\ RowsSeen(a) = {r}

Running == Screened \/ pc = "done"
HasAnswer == pc \in {"measure", "done"}

\* What the run would read now has been seen, as has all that it read so far.
SeenInv ==
  /\ asked \in {None} \cup Asked
  /\ pc = "idle" => tasks = [t \in Search..Measure |-> NoTask]
  /\ Running =>
       /\ asked # None /\ asked.dataset \in Datasets \cup {None}
       /\ around \in {"site", "cover", "box"}
       /\ \A s \in seen : s[1] \in Areas /\ (s[2] # None => \E d \in Datasets : s[2] = RowOf[d][s[1]])
  /\ Screened => Visible(asked.dataset) \subseteq seen

\* The search is done before anything else is asked, and measuring before the end.
PhaseInv ==
  /\ pc \in {"conditions", "measure", "done"} => tasks[Search].pc = "done"
  /\ pc = "done" => tasks[Measure].left = {}

\* A task has found nothing while it waits, measures again only around a covering
\* outline, and is done with nothing left.
PhaseOf(task) ==
  /\ task.pc = "waiting" => task.found = {} /\ task.left = {}
  /\ task.pc = "measure" => around = "cover"
  /\ task.pc = "hosts" => task.left # {}
  /\ task.pc = "done" => task.left = {}

\* How far a match has been measured from: around what is screened, or, once it
\* was asked for again, the site.
From(m, left) == IF m.approximate \/ m.id \in left THEN around ELSE Site

\* A match that was measured has the category and a distance of rows of its area.
FoundAs(m, left) ==
  /\ \E r \in RowsOf(m.id) : m.category = r.category
  /\ \E r \in RowsOf(m.id) : m.distance = r[From(m, left)]

Finds(task, a) == \E m \in task.found : m.id = a

SearchHas(task) ==
  /\ task.pc # "hosts"
  /\ \A m \in task.found :
       /\ FoundAs(m, task.left) /\ m.category \notin Excluded
       /\ m.approximate => /\ around = "cover" /\ m.id \notin task.left
                           /\ \A i \in Conditions : ~Meets(m, Rules[i])
  /\ task.pc # "waiting" =>
       \A a \in Areas : \A r \in RowsSeen(a) :
         Always(a, r) /\ r.category \notin Excluded /\ r.site <= SearchRadius + Margin => Finds(task, a)

NearHas(i, task) ==
  /\ task.pc # "hosts"
  /\ \A m \in task.found : FoundAs(m, task.left) /\ ~m.approximate /\ Meets(m, Rules[i])
  /\ task.pc # "waiting" =>
       \A a \in Areas : \A r \in RowsSeen(a) :
         /\ Always(a, r) /\ InCategories(Rules[i].categories, r.category)
         /\ r.site <= Rules[i].buffer + Margin
         => Finds(task, a)

\* An area of a bordering rule's host category was within the site, and one that
\* was there all along borders another.
HostOf(i, h) == \E r \in RowsOf(h) : r.category = Rules[i].host /\ r[Site] <= Margin
Beside(h, a) == around # "box" => h # a /\ <<h, a>> \in Borders
Hosted(i, h, a) ==
  \E s \in RowsSeen(h) : /\ Always(h, s) /\ s.category = Rules[i].host /\ s.site <= Margin
                         /\ h # a /\ <<h, a>> \in Borders

BorderHas(i, task) ==
  /\ task.pc # "measure" /\ (task.pc = "hosts" /\ around = "box" => task.found = {})
  /\ \A h \in task.left : HostOf(i, h)
  /\ \A m \in task.found :
       /\ m.distance = None /\ ~m.approximate /\ m.category \in Rules[i].categories
       /\ \E r \in RowsOf(m.id) : m.category = r.category
       /\ \E h \in Areas : HostOf(i, h) /\ Beside(h, m.id)
  /\ task.pc # "waiting" =>
       \A a, h \in Areas : \A r \in RowsSeen(a) :
         Always(a, r) /\ r.category \in Rules[i].categories /\ Hosted(i, h, a)
         => Finds(task, a) \/ h \in task.left

TaskInv ==
  /\ \A t \in {Search} \cup Conditions : PhaseOf(tasks[t])
  /\ SearchHas(tasks[Search])
  /\ \A i \in Conditions : Rules[i].logic = "intersection" => NearHas(i, tasks[i])
  /\ \A i \in Conditions : Rules[i].logic # "intersection" => BorderHas(i, tasks[i])

\* Why a consultee was identified, and what is still to be measured.
ReasonsOf(a, consultee, left) ==
  /\ \A i \in consultee.conditions :
       /\ \E r \in RowsOf(a) : InCategories(Rules[i].categories, r.category)
       /\ Rules[i].logic = "intersection" => \E r \in RowsOf(a) : r[Site] <= Rules[i].buffer + Margin
       /\ Rules[i].logic # "intersection" => \E h \in Areas : HostOf(i, h) /\ Beside(h, a)
  /\ \A radius \in consultee.nearby :
       /\ \E r \in RowsOf(a) : RadiusOf(r.category) = radius /\ r.category \notin Excluded
       /\ \E s \in RowsOf(a) : s[around] <= radius + Margin
       /\ radius > 0
  /\ consultee.conditions # {} \/ consultee.nearby # {}
  /\ a \in left => consultee.conditions # {}
  /\ consultee.distance = None => a \in left

\* A consultee that has stayed as it is is at its own distance, and near by it,
\* unless it is one that is still to be measured.
DistanceOf(a, consultee, left) ==
  \A r \in RowsSeen(a) :
    Always(a, r) /\ around # "box" /\ (consultee.conditions # {} \/ around = "site") /\ a \notin left
    => /\ consultee.distance = r.site
       /\ \A radius \in consultee.nearby : r.site <= radius + Margin

\* What has stayed as it is has every reason it should have.
HasReasons(a, answer) ==
  \A r \in RowsSeen(a) : Always(a, r) =>
    /\ \A i \in Conditions :
         \/ /\ Rules[i].logic = "intersection" /\ InCategories(Rules[i].categories, r.category)
            /\ r.site <= Rules[i].buffer + Margin
         \/ /\ Rules[i].logic # "intersection" /\ r.category \in Rules[i].categories
            /\ \E h \in Areas : Hosted(i, h, a)
         => a \in DOMAIN answer /\ i \in answer[a].conditions
    /\ r.category \notin Excluded /\ RadiusOf(r.category) > 0 /\ r.site <= RadiusOf(r.category) + Margin
         => a \in DOMAIN answer /\ RadiusOf(r.category) \in answer[a].nearby

AnswerHas(answer, left) ==
  /\ \A a \in DOMAIN answer : ReasonsOf(a, answer[a], left) /\ DistanceOf(a, answer[a], left)
  /\ \A a \in Areas : HasReasons(a, answer)

AnswerInv == HasAnswer => AnswerHas(consultees, tasks[Measure].left)

IInv == TypeOK /\ SeenInv /\ PhaseInv /\ (Running => TaskInv /\ AnswerInv)

------------------------------------------------------------------------------
(* Least and greatest numbers, and the ruleset's *)

\* Some number of a set of natural numbers is its least: _combine's min.
LEMMA LeastNumber ==
  ASSUME NEW S, S \subseteq Nat, S # {}
  PROVE  \E x \in S : \A y \in S : x <= y
<1> DEFINE R == OpToRel(<, Nat)
<1>1. PICK x \in S : \A y \in S : <<y, x>> \notin R
  <2>1. IsWellFoundedOn(R, Nat)
    BY NatLessThanWellFounded
  <2> HIDE DEF R
  <2> QED BY <2>1, WFMin
<1>2. \A y \in S : x <= y
  <2> TAKE y \in S
  <2>1. x \in Nat /\ y \in Nat
    OBVIOUS
  <2>2. ~(y < x)
    BY <1>1, <2>1 DEF OpToRel
  <2> QED BY <2>1, <2>2
<1> QED BY <1>2

\* Some number of a finite set of them is its greatest: SearchRadius's max.
LEMMA GreatestNumber ==
  ASSUME NEW S, S \subseteq Nat, S # {}, IsFiniteSet(S)
  PROVE  \E x \in S : \A y \in S : y <= x
<1> DEFINE R == StrictSubsetOrdering(S)
           Lesser == {T \in SUBSET S : T # {} /\ ~\E x \in T : \A y \in T : y <= x}
<1>1. IsWellFoundedOn(R, SUBSET S)
  <2>1. IsWellFoundedOn(StrictSubsetOrdering(S), FiniteSubsetsOf(S))
    BY FS_StrictSubsetOrderingWellFounded
  <2>2. FiniteSubsetsOf(S) = SUBSET S
    BY FS_FiniteSubsetsOfFinite
  <2> QED BY <2>1, <2>2
<1>2. SUFFICES ASSUME Lesser # {} PROVE FALSE
  OBVIOUS
<1>3. PICK T \in Lesser : \A U \in Lesser : <<U, T>> \notin R
  <2> HIDE DEF R
  <2>1. Lesser \subseteq SUBSET S
    OBVIOUS
  <2> HIDE DEF Lesser
  <2> QED BY <1>1, <1>2, <2>1, WFMin
<1>4. T \subseteq S /\ T # {} /\ ~\E x \in T : \A y \in T : y <= x
  OBVIOUS
<1>5. PICK x \in T : TRUE
  BY <1>4
<1>6. T \ {x} \notin Lesser
  BY <1>3, <1>4, <1>5 DEF StrictSubsetOrdering
<1>7. CASE T \ {x} = {}
  BY <1>4, <1>5, <1>7
<1>8. CASE T \ {x} # {}
  <2>1. PICK z \in T \ {x} : \A y \in T \ {x} : y <= z
    BY <1>4, <1>6, <1>8
  <2>2. x \in Nat /\ z \in Nat /\ T \subseteq Nat
    BY <1>4, <1>5
  <2>3. CASE x <= z
    BY <1>4, <2>1, <2>2, <2>3
  <2>4. CASE z <= x
    BY <1>4, <2>1, <2>2, <2>4
  <2> QED BY <2>2, <2>3, <2>4
<1> QED BY <1>7, <1>8

\* No category is nearby at more than the search goes out to.
LEMMA RadiusReached ==
  /\ SearchRadius \in Nat
  /\ \A category : RadiusOf(category) \in Nat /\ RadiusOf(category) <= SearchRadius
<1> DEFINE D == DOMAIN RadiusByCategory
           radii == {RadiusByCategory[c] : c \in D}
           All == {DefaultRadius} \cup radii
<1>1. /\ DefaultRadius \in Nat /\ IsFiniteSet(D)
      /\ \A c \in D : RadiusByCategory[c] \in Nat
  BY ScreeningAssumption
<1>2. IsFiniteSet(All)
  <2>1. IsFiniteSet(radii)
    <3> DEFINE f == [c \in D |-> RadiusByCategory[c]]
    <3>1. f \in Surjection(D, radii)
      BY DEF Surjection
    <3> QED BY <1>1, <3>1, FS_Surjection
  <2> QED BY <2>1, FS_AddElement
<1>3. All \subseteq Nat /\ All # {}
  BY <1>1
<1>4. PICK x \in All : \A y \in All : y <= x
  <2> HIDE DEF All
  <2> QED BY <1>2, <1>3, GreatestNumber
<1>5. x \in Nat /\ \A y \in All : x >= y
  BY <1>3, <1>4
<1>6. SearchRadius \in All /\ \A y \in All : SearchRadius >= y
  <2> HIDE DEF All
  <2>1. Max(All) \in All /\ \A y \in All : Max(All) >= y
    BY <1>5 DEF Max
  <2> QED BY <2>1 DEF SearchRadius, All
<1>7. \A category : RadiusOf(category) \in All
  BY DEF RadiusOf
<1> HIDE DEF All
<1> QED BY <1>3, <1>6, <1>7

------------------------------------------------------------------------------
(* Rows *)

LEMMA TaskNames ==
  /\ Search \notin Conditions /\ Measure \notin Conditions /\ Search # Measure
  /\ {Search} \cup Conditions \subseteq Search..Measure /\ Measure \in Search..Measure
BY ScreeningAssumption DEF Search, Measure, Conditions

LEMMA RunningIs == Screened => Running /\ pc \notin {"idle", "done"}
BY DEF Screened, Running

LEMMA RowsOfIs == \A a, r : r \in RowsOf(a) <=> r \in RowsSeen(a) /\ r # None
BY DEF RowsOf

\* A row is of its area, and nothing is further from it than the site.
LEMMA RowFacts ==
  ASSUME SeenInv, Running, NEW a, NEW r \in RowsOf(a)
  PROVE  /\ a \in Areas /\ r.category \in Categories /\ r.category # None
         /\ r.site \in Nat /\ r.cover \in Nat /\ r.box \in Nat
         /\ r.cover <= r.site /\ r.box <= r.site
         /\ r[around] \in Nat /\ r[around] <= r.site
         /\ r[Site] \in Nat /\ r[Site] <= r.site /\ r[around] <= r[Site]
<1>1. PICK s \in seen : s[1] = a /\ r = s[2]
  BY DEF RowsOf, RowsSeen
<1>2. a \in Areas /\ \E d \in Datasets : r = RowOf[d][a]
  BY <1>1 DEF SeenInv, RowsOf
<1>3. PICK d \in Datasets : r = RowOf[d][a]
  BY <1>2
<1>4. /\ r.category # None
      /\ r.site \in Nat /\ r.cover \in 0..r.site /\ r.box \in 0..r.site
  BY <1>2, <1>3, ScreeningAssumption
<1>5. r.category \in Categories
  BY <1>2, <1>3 DEF Categories
<1>6. around \in {"site", "cover", "box"} /\ Site = IF around = "cover" THEN "site" ELSE around
  BY DEF SeenInv, Site
<1> QED BY <1>2, <1>4, <1>5, <1>6

\* A query reads rows that are seen to be there, and what has been there all
\* along is what it reads.
LEMMA NowSeen ==
  ASSUME TypeOK, SeenInv, Screened
  PROVE  /\ \A a \in Rows(asked.dataset) : a \in Areas /\ Row(a) \in RowsOf(a)
         /\ \A a, r : Always(a, r) /\ a \in Areas => a \in Rows(asked.dataset) /\ Row(a) = r
<1>1. /\ asked.dataset \in Datasets \cup {None}
      /\ Visible(asked.dataset) \subseteq seen
  BY RunningIs DEF SeenInv
<1> USE DEF Row, Visible
<1>2. \A a \in Areas : a \in Rows(asked.dataset) => Row(a) \in RowsSeen(a)
  <2> TAKE a \in Areas
  <2> HAVE a \in Rows(asked.dataset)
  <2>1. <<a, Row(a)>> \in seen
    BY <1>1
  <2> QED BY <2>1 DEF RowsSeen
<1>3. \A a \in Areas : a \notin Rows(asked.dataset) => None \in RowsSeen(a)
  <2> TAKE a \in Areas
  <2> HAVE a \notin Rows(asked.dataset)
  <2>1. <<a, None>> \in seen
    BY <1>1
  <2> QED BY <2>1 DEF RowsSeen
<1>4. Rows(asked.dataset) \subseteq Areas
  BY DEF Rows
<1>5. \A a \in Rows(asked.dataset) : Row(a) # None
  <2> TAKE a \in Rows(asked.dataset)
  <2>1. Table(asked.dataset) \in Datasets
    BY <1>1 DEF Table, TypeOK
  <2> QED BY <1>4, <2>1, ScreeningAssumption
<1> QED BY <1>2, <1>3, <1>4, <1>5, RowsOfIs DEF Always

------------------------------------------------------------------------------
(* Where nothing is read but one query, or nothing at all *)

\* What is said of a task or of consultees rests on what has been seen only.
LEMMA SeenAlone ==
  ASSUME UNCHANGED <<around, seen>>
  PROVE  /\ \A task : PhaseOf(task)' <=> PhaseOf(task)
         /\ \A task : SearchHas(task)' <=> SearchHas(task)
         /\ \A i, task : NearHas(i, task)' <=> NearHas(i, task)
         /\ \A i, task : BorderHas(i, task)' <=> BorderHas(i, task)
         /\ \A answer, left : AnswerHas(answer, left)' <=> AnswerHas(answer, left)
<1>0. /\ around' = around /\ Site' = Site
      /\ \A a : RowsSeen(a)' = RowsSeen(a) /\ RowsOf(a)' = RowsOf(a)
      /\ \A a, r : Always(a, r)' <=> Always(a, r)
  BY DEF RowsOf, RowsSeen, Always, Site
<1> USE <1>0
<1>1. \A task : PhaseOf(task)' <=> PhaseOf(task)
  BY DEF PhaseOf
<1>2. \A m, left : FoundAs(m, left)' <=> FoundAs(m, left)
  BY DEF FoundAs, From
<1>3. \A task : SearchHas(task)' <=> SearchHas(task)
  BY <1>2 DEF SearchHas
<1>4. \A i, task : NearHas(i, task)' <=> NearHas(i, task)
  BY <1>2 DEF NearHas
<1>5. \A i, h, a : /\ HostOf(i, h)' <=> HostOf(i, h)
                   /\ Beside(h, a)' <=> Beside(h, a)
                   /\ Hosted(i, h, a)' <=> Hosted(i, h, a)
  BY DEF HostOf, Beside, Hosted
<1>6. \A i, task : BorderHas(i, task)' <=> BorderHas(i, task)
  <2> TAKE i, task
  <2>1. BorderHas(i, task)' => BorderHas(i, task)
    BY <1>5 DEF BorderHas
  <2>2. BorderHas(i, task) => BorderHas(i, task)'
    BY <1>5 DEF BorderHas
  <2> QED BY <2>1, <2>2
<1>7. \A answer, left : AnswerHas(answer, left)' <=> AnswerHas(answer, left)
  <2>1. \A a, consultee, left : ReasonsOf(a, consultee, left)' <=> ReasonsOf(a, consultee, left)
    BY <1>5 DEF ReasonsOf
  <2>2. \A a, consultee, left : DistanceOf(a, consultee, left)' <=> DistanceOf(a, consultee, left)
    BY DEF DistanceOf
  <2>3. \A a, answer : HasReasons(a, answer)' <=> HasReasons(a, answer)
    BY <1>5 DEF HasReasons
  <2> QED BY <2>1, <2>2, <2>3 DEF AnswerHas
<1> QED BY <1>1, <1>3, <1>4, <1>6, <1>7

\* A query of a task leaves the others' as they were.
LEMMA AnswersKeep ==
  ASSUME IInv, Screened, NEW t \in {Search} \cup Conditions, NEW task \in Task,
         Answers(t, task), UNCHANGED <<world, pc, asked, around, consultees, seen>>,
         pc = IF t = Search THEN "search" ELSE "conditions",
         PhaseOf(task),
         t = Search => SearchHas(task),
         t # Search /\ Rules[t].logic = "intersection" => NearHas(t, task),
         t # Search /\ Rules[t].logic # "intersection" => BorderHas(t, task)
  PROVE  IInv'
<1>1. tasks \in [Search..Measure -> Task] /\ t \in Search..Measure
  BY TaskNames DEF IInv, TypeOK
<1>2. /\ tasks' \in [Search..Measure -> Task]
      /\ tasks'[t] = task
      /\ \A u \in Search..Measure : u # t => tasks'[u] = tasks[u]
  BY <1>1 DEF Answers
<1>3. TypeOK'
  BY <1>2 DEF IInv, TypeOK, world
<1>4. SeenInv'
  BY RunningIs DEF IInv, SeenInv, Running, Screened, Visible, Rows, Table, world
<1>5. PhaseInv'
  BY <1>2, TaskNames DEF IInv, PhaseInv
<1>6. TaskInv'
  <2>1. TaskInv
    BY RunningIs DEF IInv
  <2>2. \A u \in {Search} \cup Conditions : PhaseOf(tasks'[u])
    BY <1>2, <2>1, TaskNames DEF TaskInv
  <2>3. SearchHas(tasks'[Search])
    BY <1>2, <2>1, TaskNames DEF TaskInv
  <2>4. \A i \in Conditions : Rules[i].logic = "intersection" => NearHas(i, tasks'[i])
    BY <1>2, <2>1, TaskNames DEF TaskInv
  <2>5. \A i \in Conditions : Rules[i].logic # "intersection" => BorderHas(i, tasks'[i])
    BY <1>2, <2>1, TaskNames DEF TaskInv
  <2> QED BY <2>2, <2>3, <2>4, <2>5, SeenAlone DEF TaskInv
<1>7. ~HasAnswer'
  BY DEF HasAnswer
<1> QED BY <1>3, <1>4, <1>5, <1>6, <1>7 DEF IInv, AnswerInv

------------------------------------------------------------------------------
(* The search and the conditions that search for themselves *)

\* find_areas_near has what has been there all along and is in reach, and only rows.
NearAreas(found, radius, categories, excluded) ==
  /\ \A m \in found :
       /\ m \in Match /\ m.approximate = FALSE
       /\ \E r \in RowsOf(m.id) : m.category = r.category /\ m.distance = r[around]
       /\ m.distance <= radius + Margin
       /\ InCategories(categories, m.category) /\ m.category \notin excluded
  /\ \A m, n \in found : m.id = n.id => m = n
  /\ \A a \in Areas : \A r \in RowsSeen(a) :
       /\ Always(a, r) /\ r.site <= radius + Margin
       /\ InCategories(categories, r.category) /\ r.category \notin excluded
       => \E m \in found : m.id = a

LEMMA FoundNearIs ==
  ASSUME TypeOK, SeenInv, Screened, NEW radius \in Nat, NEW categories, NEW excluded
  PROVE  NearAreas(FoundNear(radius, categories, excluded), radius, categories, excluded)
<1> DEFINE near == {b \in Rows(asked.dataset) :
                      /\ Row(b)[around] <= radius + Margin
                      /\ InCategories(categories, Row(b).category)
                      /\ Row(b).category \notin excluded}
           matchOf(a) == [id |-> a, category |-> Row(a).category,
                          distance |-> Row(a)[around], approximate |-> FALSE]
<1>1. FoundNear(radius, categories, excluded) = {matchOf(a) : a \in near}
  BY DEF FoundNear
<1>2. ASSUME NEW a \in near
      PROVE  /\ a \in Areas /\ Row(a) \in RowsOf(a) /\ matchOf(a) \in Match
             /\ Row(a)[around] <= radius + Margin
             /\ InCategories(categories, Row(a).category) /\ Row(a).category \notin excluded
  <2>1. a \in Areas /\ Row(a) \in RowsOf(a)
    BY NowSeen
  <2>2. Row(a).category \in Categories /\ Row(a)[around] \in Nat
    BY <2>1, RowFacts, RunningIs
  <2> QED BY <2>1, <2>2 DEF Match
<1>3. ASSUME NEW a \in Areas, NEW r \in RowsSeen(a), Always(a, r), r.site <= radius + Margin,
             InCategories(categories, r.category), r.category \notin excluded
      PROVE  a \in near
  <2>1. a \in Rows(asked.dataset) /\ Row(a) = r /\ r \in RowsOf(a)
    BY <1>3, NowSeen, RowsOfIs DEF Always
  <2>2. r[around] \in Nat /\ r.site \in Nat /\ r[around] <= r.site
    BY <2>1, RowFacts, RunningIs
  <2>3. r[around] <= radius + Margin
    BY <1>3, <2>2, ScreeningAssumption
  <2> QED BY <1>3, <2>1, <2>3
<1> HIDE DEF near
<1>4. \A a \in near : \E m \in FoundNear(radius, categories, excluded) : m.id = a
  <2> TAKE a \in near
  <2>1. matchOf(a) \in FoundNear(radius, categories, excluded) /\ matchOf(a).id = a
    BY <1>1
  <2> QED BY <2>1
<1>5. \A m \in FoundNear(radius, categories, excluded) :
        /\ m \in Match /\ m.approximate = FALSE
        /\ \E r \in RowsOf(m.id) : m.category = r.category /\ m.distance = r[around]
        /\ m.distance <= radius + Margin
        /\ InCategories(categories, m.category) /\ m.category \notin excluded
  <2> TAKE m \in FoundNear(radius, categories, excluded)
  <2>1. PICK a \in near : m = matchOf(a)
    BY <1>1
  <2> QED BY <1>2, <2>1
<1>6. ASSUME NEW m \in FoundNear(radius, categories, excluded),
             NEW n \in FoundNear(radius, categories, excluded), m.id = n.id
      PROVE  m = n
  <2>1. PICK a \in near, b \in near : m = matchOf(a) /\ n = matchOf(b)
    BY <1>1
  <2>2. m.id = a /\ n.id = b
    BY <2>1
  <2> QED BY <1>6, <2>1, <2>2
<1> QED BY <1>3, <1>4, <1>5, <1>6 DEF NearAreas

\* What is left of a search's answer: every match of it, some marked as approximate.
LEMMA FoundIs ==
  ASSUME NEW found \in SUBSET Match, NEW rules, \A m \in found : m.approximate = FALSE,
         \A m, n \in found : m.id = n.id => m = n
  PROVE  LET task == Found(found, rules) IN
         /\ task \in Task /\ PhaseOf(task) /\ task.pc \notin {"waiting", "hosts"}
         /\ \A m \in task.found :
              /\ \E n \in found : /\ m.id = n.id /\ m.category = n.category
                                  /\ m.distance = n.distance
              /\ m.approximate => /\ around = "cover" /\ m.id \notin task.left
                                  /\ \A rule \in rules : ~Meets(m, rule)
              /\ around = "cover" /\ ~m.approximate => m.id \in task.left
         /\ \A n \in found : Finds(task, n.id)
<1> DEFINE measuring == {r \in rules : r.logic = "intersection"}
           depended == {m \in found : measuring = {} \/ \E r \in measuring : Meets(m, r)}
           marked == {[m EXCEPT !.approximate = TRUE] : m \in found \ depended}
           task == Found(found, rules)
<1>1. CASE around # "cover"
  <2>1. task = [pc |-> "done", found |-> found, left |-> {}]
    BY <1>1 DEF Found
  <2>2. task \in Task /\ PhaseOf(task)
    BY <2>1 DEF Task, PhaseOf
  <2>3. task.found = found /\ task.pc = "done"
    BY <2>1
  <2>4. \A n \in found : Finds(task, n.id)
    BY <2>3 DEF Finds
  <2> HIDE DEF task
  <2>5. \A m \in task.found :
              /\ \E n \in found : /\ m.id = n.id /\ m.category = n.category
                                  /\ m.distance = n.distance
              /\ ~m.approximate /\ around # "cover"
    BY <1>1, <2>3
  <2> QED BY <2>2, <2>3, <2>4, <2>5 DEF task
<1>2. CASE around = "cover"
  <2>1. task = [pc |-> IF depended = {} THEN "done" ELSE "measure",
                found |-> depended \cup marked, left |-> {m.id : m \in depended}]
    BY <1>2 DEF Found
  <2>2. \A m \in found : /\ [m EXCEPT !.approximate = TRUE] \in Match
                         /\ [m EXCEPT !.approximate = TRUE].id = m.id
                         /\ [m EXCEPT !.approximate = TRUE].category = m.category
                         /\ [m EXCEPT !.approximate = TRUE].distance = m.distance
                         /\ [m EXCEPT !.approximate = TRUE].approximate = TRUE
    BY DEF Match
  <2>3. depended \subseteq found /\ marked \subseteq Match /\ \A m \in found : m.id \in Areas
    BY <2>2 DEF Match
  <2>4. ASSUME NEW m \in found \ depended
        PROVE  \A rule \in rules : ~Meets([m EXCEPT !.approximate = TRUE], rule)
    BY <2>2 DEF Meets
  <2>5. \A n \in found : n \in depended \/ [n EXCEPT !.approximate = TRUE] \in marked
    OBVIOUS
  <2>6. \A m \in marked : \E n \in found \ depended : m = [n EXCEPT !.approximate = TRUE]
    OBVIOUS
  <2> HIDE DEF depended, marked, task, measuring
  <2>7. task.found = depended \cup marked /\ task.left = {m.id : m \in depended}
        /\ task.pc \in {"done", "measure"}
    BY <2>1
  <2>8. task \in Task
    BY <2>1, <2>3 DEF Task
  <2>9. PhaseOf(task)
    BY <1>2, <2>1 DEF PhaseOf
  <2>10. \A m \in task.found :
              /\ \E n \in found : /\ m.id = n.id /\ m.category = n.category
                                  /\ m.distance = n.distance
              /\ m.approximate => /\ around = "cover" /\ m.id \notin task.left
                                  /\ \A rule \in rules : ~Meets(m, rule)
              /\ around = "cover" /\ ~m.approximate => m.id \in task.left
    <3> TAKE m \in task.found
    <3>1. CASE m \in depended
      BY <2>3, <2>7, <3>1
    <3>2. CASE m \in marked
      <4>1. PICK n \in found \ depended : m = [n EXCEPT !.approximate = TRUE]
        BY <2>6, <3>2
      <4>2. m.id = n.id /\ m.category = n.category /\ m.distance = n.distance /\ m.approximate
        BY <2>2, <4>1
      <4>3. m.id \notin task.left
        BY <2>3, <2>7, <4>1, <4>2
      <4> QED BY <1>2, <2>4, <4>1, <4>2, <4>3
    <3> QED BY <2>7, <3>1, <3>2
  <2>11. \A n \in found : Finds(task, n.id)
    BY <2>2, <2>5, <2>7 DEF Finds
  <2>12. task.pc \notin {"waiting", "hosts"}
    BY <2>7
  <2> QED BY <2>8, <2>9, <2>10, <2>11, <2>12 DEF task
<1> QED BY <1>1, <1>2

LEMMA SearchNearbyKeeps ==
  ASSUME IInv, SearchNearby
  PROVE  IInv'
<1> DEFINE found == FoundNear(SearchRadius, {}, Excluded)
           rules == {Rules[i] : i \in Conditions}
           task == Found(found, rules)
<1>1. /\ pc = "search" /\ Answers(Search, task)
      /\ UNCHANGED <<world, pc, asked, around, consultees, seen>>
  BY DEF SearchNearby
<1>2. Screened /\ TypeOK /\ SeenInv
  BY <1>1 DEF IInv, Screened
<1>3. /\ \A m \in found :
              /\ m \in Match /\ m.approximate = FALSE
              /\ \E r \in RowsOf(m.id) : m.category = r.category /\ m.distance = r[around]
              /\ m.category \notin Excluded
      /\ \A m, n \in found : m.id = n.id => m = n
      /\ \A a \in Areas : \A r \in RowsSeen(a) :
           Always(a, r) /\ r.category \notin Excluded /\ r.site <= SearchRadius + Margin
           => \E m \in found : m.id = a
  <2>1. NearAreas(found, SearchRadius, {}, Excluded)
    BY <1>2, RadiusReached, FoundNearIs
  <2> HIDE DEF found
  <2> QED BY <2>1 DEF NearAreas, InCategories
<1> HIDE DEF found
<1>4. /\ task \in Task /\ PhaseOf(task) /\ task.pc \notin {"waiting", "hosts"}
      /\ \A m \in task.found :
           /\ \E n \in found : m.id = n.id /\ m.category = n.category /\ m.distance = n.distance
           /\ m.approximate => /\ around = "cover" /\ m.id \notin task.left
                               /\ \A rule \in rules : ~Meets(m, rule)
           /\ around = "cover" /\ ~m.approximate => m.id \in task.left
      /\ \A n \in found : Finds(task, n.id)
  BY <1>3, FoundIs
<1> HIDE DEF task
<1>5. SearchHas(task)
  <2>1. ASSUME NEW m \in task.found
        PROVE  /\ FoundAs(m, task.left) /\ m.category \notin Excluded
               /\ m.approximate => /\ around = "cover" /\ m.id \notin task.left
                                   /\ \A i \in Conditions : ~Meets(m, Rules[i])
    <3>1. PICK n \in found : m.id = n.id /\ m.category = n.category /\ m.distance = n.distance
      BY <1>4
    <3>2. /\ \E r \in RowsOf(m.id) : m.category = r.category /\ m.distance = r[around]
          /\ m.category \notin Excluded
      BY <1>3, <3>1
    <3>3. From(m, task.left) = around
      BY <1>4 DEF From, Site
    <3> QED BY <1>4, <3>2, <3>3 DEF FoundAs
  <2> QED BY <1>3, <1>4, <2>1 DEF SearchHas
<1> QED BY <1>1, <1>2, <1>4, <1>5, AnswersKeep, TaskNames

LEMMA NearKeeps ==
  ASSUME IInv, NEW i \in Conditions, Near(i)
  PROVE  IInv'
<1> DEFINE rule == Rules[i]
           found == FoundNear(rule.buffer, rule.categories, {})
           task == Found(found, {rule})
<1>1. /\ pc = "conditions" /\ rule.logic = "intersection" /\ Answers(i, task)
      /\ UNCHANGED <<world, pc, asked, around, consultees, seen>>
  BY DEF Near, Pooled
<1>2. Screened /\ TypeOK /\ SeenInv /\ rule.buffer \in Nat
  BY <1>1, ScreeningAssumption DEF IInv, Screened, Conditions
<1>3. /\ \A m \in found :
              /\ m \in Match /\ m.approximate = FALSE
              /\ \E r \in RowsOf(m.id) : m.category = r.category /\ m.distance = r[around]
              /\ m.distance <= rule.buffer + Margin
              /\ InCategories(rule.categories, m.category)
      /\ \A m, n \in found : m.id = n.id => m = n
      /\ \A a \in Areas : \A r \in RowsSeen(a) :
           /\ Always(a, r) /\ InCategories(rule.categories, r.category)
           /\ r.site <= rule.buffer + Margin
           => \E m \in found : m.id = a
  <2>1. NearAreas(found, rule.buffer, rule.categories, {})
    BY <1>2, FoundNearIs
  <2> HIDE DEF found
  <2> QED BY <2>1 DEF NearAreas
<1> HIDE DEF found
<1>4. /\ task \in Task /\ PhaseOf(task) /\ task.pc \notin {"waiting", "hosts"}
      /\ \A m \in task.found :
           /\ \E n \in found : m.id = n.id /\ m.category = n.category /\ m.distance = n.distance
           /\ m.approximate => around = "cover" /\ ~Meets(m, rule)
           /\ around = "cover" /\ ~m.approximate => m.id \in task.left
      /\ \A n \in found : Finds(task, n.id)
  <2>1. /\ task \in Task /\ PhaseOf(task) /\ task.pc \notin {"waiting", "hosts"}
        /\ \A m \in task.found :
             /\ \E n \in found : m.id = n.id /\ m.category = n.category /\ m.distance = n.distance
             /\ m.approximate => /\ around = "cover" /\ m.id \notin task.left
                                 /\ \A r \in {rule} : ~Meets(m, r)
             /\ around = "cover" /\ ~m.approximate => m.id \in task.left
        /\ \A n \in found : Finds(task, n.id)
    BY <1>3, FoundIs
  <2> QED BY <2>1
<1> HIDE DEF task
<1>5. NearHas(i, task)
  <2>1. ASSUME NEW m \in task.found
        PROVE  FoundAs(m, task.left) /\ ~m.approximate /\ Meets(m, rule)
    <3>1. PICK n \in found : m.id = n.id /\ m.category = n.category /\ m.distance = n.distance
      BY <1>4
    <3>2. /\ \E r \in RowsOf(m.id) : m.category = r.category /\ m.distance = r[around]
          /\ Meets(m, rule)
      BY <1>1, <1>3, <3>1 DEF Meets
    <3>3. From(m, task.left) = around
      BY <1>4 DEF From, Site
    <3> QED BY <1>4, <3>2, <3>3 DEF FoundAs
  <2> QED BY <1>3, <1>4, <2>1 DEF NearHas
<1> QED BY <1>1, <1>2, <1>4, <1>5, AnswersKeep, TaskNames

\* A batch that is measured again has the distances of rows, and keeps what is in reach.
LEMMA RemeasuredIs ==
  ASSUME TypeOK, SeenInv, Screened, NEW found \in SUBSET Match, NEW batch, NEW radius \in Nat
  PROVE  /\ \A m \in Remeasured(found, batch, radius) :
              \/ m \in found /\ m.id \notin batch
              \/ /\ m \in Match /\ m.id \in batch
                 /\ \E n \in found : /\ n.id = m.id /\ n.category = m.category
                                     /\ n.approximate = m.approximate
                 /\ \E r \in RowsOf(m.id) : m.distance = r[Site]
                 /\ m.distance <= radius + Margin
         /\ \A a \in Areas : \A r \in RowsSeen(a) :
              /\ Always(a, r) /\ r.site <= radius + Margin /\ \E n \in found : n.id = a
              => \E m \in Remeasured(found, batch, radius) : m.id = a
<1> DEFINE again == {n \in found : /\ n.id \in batch \cap Rows(asked.dataset)
                                   /\ Row(n.id)[Site] <= radius + Margin}
           new(m) == [m EXCEPT !.distance = Row(m.id)[Site]]
<1>1. Remeasured(found, batch, radius) =
        {m \in found : m.id \notin batch} \cup {new(m) : m \in again}
  BY DEF Remeasured
<1>2. ASSUME NEW n \in again
      PROVE  /\ new(n) \in Match /\ new(n).id = n.id /\ new(n).category = n.category
             /\ new(n).approximate = n.approximate /\ new(n).distance = Row(n.id)[Site]
             /\ Row(n.id) \in RowsOf(n.id)
  <2>1. Row(n.id) \in RowsOf(n.id)
    BY NowSeen
  <2>2. Row(n.id)[Site] \in Nat
    BY <2>1, RowFacts, RunningIs
  <2> QED BY <2>1, <2>2 DEF Match
<1>3. ASSUME NEW n \in found, n.id \in batch, NEW r \in RowsSeen(n.id),
             Always(n.id, r), r.site <= radius + Margin
      PROVE  n \in again
  <2>1. n.id \in Rows(asked.dataset) /\ Row(n.id) = r /\ r \in RowsOf(n.id)
    BY <1>3, NowSeen, RowsOfIs DEF Always, Match
  <2>2. r[Site] \in Nat /\ r.site \in Nat /\ r[Site] <= r.site
    BY <2>1, RowFacts, RunningIs
  <2>3. r[Site] <= radius + Margin
    BY <1>3, <2>2, ScreeningAssumption
  <2> QED BY <1>3, <2>1, <2>3
<1>4. again \subseteq found /\ \A n \in again : n.id \in batch /\ Row(n.id)[Site] <= radius + Margin
  OBVIOUS
<1> HIDE DEF again
<1>5. ASSUME NEW m \in Remeasured(found, batch, radius), ~(m \in found /\ m.id \notin batch)
      PROVE  /\ m \in Match /\ m.id \in batch
             /\ \E n \in found : /\ n.id = m.id /\ n.category = m.category
                                 /\ n.approximate = m.approximate
             /\ \E r \in RowsOf(m.id) : m.distance = r[Site]
             /\ m.distance <= radius + Margin
  <2>1. PICK n \in again : m = new(n)
    BY <1>1, <1>5
  <2> HIDE DEF new
  <2> QED BY <1>2, <1>4, <2>1
<1>6. ASSUME NEW a \in Areas, NEW r \in RowsSeen(a), NEW n \in found, n.id = a,
             Always(a, r), r.site <= radius + Margin
      PROVE  \E m \in Remeasured(found, batch, radius) : m.id = a
  <2>1. CASE n.id \notin batch
    BY <1>1, <1>6, <2>1
  <2>2. CASE n.id \in batch
    <3>1. n \in again
      BY <1>3, <1>6, <2>2
    <3>2. new(n) \in Remeasured(found, batch, radius) /\ new(n).id = a
      BY <1>1, <1>2, <1>6, <3>1
    <3> HIDE DEF new
    <3> QED BY <3>2
  <2> QED BY <2>1, <2>2
<1> QED BY <1>5, <1>6

LEMMA BatchesOf == \A ids : \A b \in Batches(ids) : b \subseteq ids
BY DEF Batches

LEMMA TasksAre ==
  ASSUME IInv, Screened
  PROVE  /\ TypeOK /\ SeenInv /\ TaskInv
         /\ \A t \in {Search} \cup Conditions :
              /\ tasks[t] \in Task /\ PhaseOf(tasks[t])
              /\ tasks[t].found \in SUBSET Match /\ tasks[t].left \in SUBSET Areas
BY RunningIs, TaskNames DEF IInv, TypeOK, TaskInv, Task

LEMMA MeasureNearbyKeeps ==
  ASSUME IInv, MeasureNearby
  PROVE  IInv'
<1>1. /\ pc = "search" /\ tasks[Search].pc = "measure"
      /\ UNCHANGED <<world, pc, asked, around, consultees, seen>>
  BY DEF MeasureNearby, MeasureAgain
<1>2. PICK b \in Batches(tasks[Search].left) :
        Answers(Search, [pc |-> IF b = tasks[Search].left THEN "done" ELSE "measure",
                         found |-> Remeasured(tasks[Search].found, b, SearchRadius),
                         left |-> tasks[Search].left \ b])
  BY DEF MeasureNearby, MeasureAgain
<1> DEFINE old == tasks[Search]
           again == Remeasured(old.found, b, SearchRadius)
           task == [pc |-> IF b = old.left THEN "done" ELSE "measure",
                    found |-> again, left |-> old.left \ b]
<1>3. Screened /\ TypeOK /\ SeenInv /\ SearchHas(old)
  BY <1>1, TasksAre DEF Screened, TaskInv
<1>4. /\ old \in Task /\ PhaseOf(old)
      /\ old.found \in SUBSET Match /\ old.left \in SUBSET Areas
  BY <1>3, TasksAre
<1>5. b \subseteq old.left
  BY BatchesOf
<1>6. around = "cover" /\ Site = "site"
  BY <1>1, <1>4 DEF PhaseOf, Site
<1>7. /\ \A m \in again :
              \/ m \in old.found /\ m.id \notin b
              \/ /\ m \in Match /\ m.id \in b
                 /\ \E n \in old.found : /\ n.id = m.id /\ n.category = m.category
                                         /\ n.approximate = m.approximate
                 /\ \E r \in RowsOf(m.id) : m.distance = r[Site]
      /\ \A a \in Areas : \A r \in RowsSeen(a) :
           /\ Always(a, r) /\ r.site <= SearchRadius + Margin /\ \E n \in old.found : n.id = a
           => \E m \in again : m.id = a
  <2>1. SearchRadius \in Nat
    BY RadiusReached
  <2>2. ASSUME NEW m \in again
        PROVE  \/ m \in old.found /\ m.id \notin b
               \/ /\ m \in Match /\ m.id \in b
                  /\ \E n \in old.found : /\ n.id = m.id /\ n.category = m.category
                                          /\ n.approximate = m.approximate
                  /\ \E r \in RowsOf(m.id) : m.distance = r[Site]
    BY <1>3, <1>4, <2>1, RemeasuredIs
  <2>3. \A a \in Areas : \A r \in RowsSeen(a) :
           /\ Always(a, r) /\ r.site <= SearchRadius + Margin /\ \E n \in old.found : n.id = a
           => \E m \in again : m.id = a
    BY <1>3, <1>4, <2>1, RemeasuredIs
  <2> QED BY <2>2, <2>3
<1> HIDE DEF again
<1>8. task \in Task /\ PhaseOf(task)
  <2>1. again \subseteq Match
    BY <1>4, <1>7
  <2> QED BY <1>4, <1>5, <1>6, <2>1 DEF Task, PhaseOf
<1>9. SearchHas(task)
  <2>1. ASSUME NEW m \in again
        PROVE  /\ FoundAs(m, old.left \ b) /\ m.category \notin Excluded
               /\ m.approximate => /\ around = "cover" /\ m.id \notin old.left \ b
                                   /\ \A i \in Conditions : ~Meets(m, Rules[i])
    <3>1. CASE m \in old.found /\ m.id \notin b
      BY <1>3, <3>1 DEF SearchHas, FoundAs, From
    <3>2. CASE ~(m \in old.found /\ m.id \notin b)
      <4>1. m.id \in b /\ \E r \in RowsOf(m.id) : m.distance = r[Site]
        BY <1>7, <3>2
      <4>2. PICK n \in old.found :
              n.id = m.id /\ n.category = m.category /\ n.approximate = m.approximate
        BY <1>7, <3>2
      <4>3. /\ \E r \in RowsOf(n.id) : n.category = r.category
            /\ n.category \notin Excluded /\ (n.approximate => n.id \notin old.left)
        BY <1>3 DEF SearchHas, FoundAs
      <4>4. ~m.approximate /\ m.id \notin old.left \ b
        BY <1>5, <4>1, <4>2, <4>3
      <4> QED BY <4>1, <4>2, <4>3, <4>4 DEF FoundAs, From
    <3> QED BY <3>1, <3>2
  <2>2. ASSUME NEW a \in Areas, NEW r \in RowsSeen(a), Always(a, r),
               r.category \notin Excluded, r.site <= SearchRadius + Margin
        PROVE  Finds(task, a)
    <3>1. Finds(old, a)
      BY <1>1, <1>3, <2>2 DEF SearchHas
    <3>2. \E m \in again : m.id = a
      BY <1>7, <2>2, <3>1 DEF Finds
    <3> QED BY <3>2 DEF Finds
  <2> QED BY <2>1, <2>2 DEF SearchHas
<1> HIDE DEF task
<1>10. Answers(Search, task)
  BY <1>2 DEF task, again
<1> QED BY <1>1, <1>3, <1>8, <1>9, <1>10, AnswersKeep, TaskNames

LEMMA MeasureNearKeeps ==
  ASSUME IInv, NEW i \in Conditions, MeasureNear(i)
  PROVE  IInv'
<1> DEFINE rule == Rules[i]
           old == tasks[i]
<1>1. /\ pc = "conditions" /\ old.pc = "measure"
      /\ UNCHANGED <<world, pc, asked, around, consultees, seen>>
  BY DEF MeasureNear, MeasureAgain, Pooled
<1>2. PICK b \in Batches(old.left) :
        Answers(i, [pc |-> IF b = old.left THEN "done" ELSE "measure",
                    found |-> Remeasured(old.found, b, rule.buffer),
                    left |-> old.left \ b])
  BY DEF MeasureNear, MeasureAgain
<1> DEFINE again == Remeasured(old.found, b, rule.buffer)
           task == [pc |-> IF b = old.left THEN "done" ELSE "measure",
                    found |-> again, left |-> old.left \ b]
<1>3. Screened /\ TypeOK /\ SeenInv /\ TaskInv /\ rule.buffer \in Nat
  BY <1>1, TasksAre, ScreeningAssumption DEF Screened, Conditions
<1>4. /\ old \in Task /\ PhaseOf(old)
      /\ old.found \in SUBSET Match /\ old.left \in SUBSET Areas
  BY <1>3, TasksAre
<1>5. b \subseteq old.left
  BY BatchesOf
<1>6. around = "cover" /\ Site = "site"
  BY <1>1, <1>4 DEF PhaseOf, Site
<1>7. rule.logic = "intersection" /\ NearHas(i, old)
  BY <1>1, <1>3 DEF TaskInv, BorderHas
<1>8. /\ \A m \in again :
              \/ m \in old.found /\ m.id \notin b
              \/ /\ m \in Match /\ m.id \in b
                 /\ \E n \in old.found : /\ n.id = m.id /\ n.category = m.category
                                         /\ n.approximate = m.approximate
                 /\ \E r \in RowsOf(m.id) : m.distance = r[Site]
                 /\ m.distance <= rule.buffer + Margin
      /\ \A a \in Areas : \A r \in RowsSeen(a) :
           /\ Always(a, r) /\ r.site <= rule.buffer + Margin /\ \E n \in old.found : n.id = a
           => \E m \in again : m.id = a
  BY <1>3, <1>4, RemeasuredIs
<1> HIDE DEF again
<1>9. task \in Task /\ PhaseOf(task)
  <2>1. again \subseteq Match
    BY <1>4, <1>8
  <2> QED BY <1>4, <1>5, <1>6, <2>1 DEF Task, PhaseOf
<1>10. NearHas(i, task)
  <2>1. ASSUME NEW m \in again
        PROVE  FoundAs(m, old.left \ b) /\ ~m.approximate /\ Meets(m, rule)
    <3>1. CASE m \in old.found /\ m.id \notin b
      BY <1>7, <3>1 DEF NearHas, FoundAs, From
    <3>2. CASE ~(m \in old.found /\ m.id \notin b)
      <4>1. /\ m.id \in b /\ m.distance <= rule.buffer + Margin
            /\ \E r \in RowsOf(m.id) : m.distance = r[Site]
        BY <1>8, <3>2
      <4>2. PICK n \in old.found :
              n.id = m.id /\ n.category = m.category /\ n.approximate = m.approximate
        BY <1>8, <3>2
      <4>3. /\ \E r \in RowsOf(n.id) : n.category = r.category
            /\ InCategories(rule.categories, n.category) /\ ~n.approximate
        BY <1>7 DEF NearHas, FoundAs, Meets
      <4> QED BY <1>7, <4>1, <4>2, <4>3 DEF FoundAs, From, Meets
    <3> QED BY <3>1, <3>2
  <2>2. ASSUME NEW a \in Areas, NEW r \in RowsSeen(a), Always(a, r),
               InCategories(rule.categories, r.category), r.site <= rule.buffer + Margin
        PROVE  Finds(task, a)
    <3>1. Finds(old, a)
      BY <1>1, <1>7, <2>2 DEF NearHas
    <3>2. \E m \in again : m.id = a
      BY <1>8, <2>2, <3>1 DEF Finds
    <3> QED BY <3>2 DEF Finds
  <2> QED BY <2>1, <2>2 DEF NearHas
<1> HIDE DEF task
<1>11. Answers(i, task)
  BY <1>2 DEF task, again
<1> QED BY <1>1, <1>3, <1>7, <1>9, <1>10, <1>11, AnswersKeep, TaskNames

LEMMA StartConditionsKeeps ==
  ASSUME IInv, StartConditions
  PROVE  IInv'
<1>1. /\ pc = "search" /\ pc' = "conditions" /\ tasks[Search].pc = "done"
      /\ UNCHANGED <<present, inUse, changes, asked, around, tasks, consultees, seen>>
  BY DEF StartConditions, world
<1>2. TypeOK'
  BY <1>1 DEF IInv, TypeOK
<1>3. SeenInv' /\ PhaseInv' /\ TaskInv /\ ~HasAnswer'
  BY <1>1 DEF IInv, SeenInv, PhaseInv, Running, Screened, Visible, Rows, Table, HasAnswer
<1>4. TaskInv'
  BY <1>1, <1>3, SeenAlone DEF TaskInv
<1> QED BY <1>2, <1>3, <1>4 DEF IInv, AnswerInv

------------------------------------------------------------------------------
(* The conditions that ask what borders *)

LEMMA HostsKeeps ==
  ASSUME IInv, NEW i \in Conditions, Hosts(i)
  PROVE  IInv'
<1> DEFINE rule == Rules[i]
           hosts == IF rule.host = None \/ rule.categories = {} THEN {}
                    ELSE {a \in Rows(asked.dataset) : Row(a).category = rule.host
                                                        /\ Row(a)[Site] <= Margin}
           task == [pc |-> IF hosts = {} THEN "done" ELSE "hosts", found |-> {}, left |-> hosts]
<1>1. /\ pc = "conditions" /\ rule.logic = "bordering" /\ Answers(i, task)
      /\ UNCHANGED <<world, pc, asked, around, consultees, seen>>
  BY DEF Hosts, Pooled
<1>2. Screened /\ TypeOK /\ SeenInv
  BY <1>1, TasksAre DEF Screened
<1>3. ASSUME NEW h \in hosts
      PROVE  h \in Areas /\ HostOf(i, h)
  BY <1>2, NowSeen DEF HostOf
<1>4. ASSUME NEW a \in Areas, NEW h \in Areas, NEW r \in RowsSeen(a), Always(a, r),
             r.category \in rule.categories, Hosted(i, h, a)
      PROVE  h \in hosts
  <2>1. PICK s \in RowsSeen(h) : Always(h, s) /\ s.category = rule.host /\ s.site <= Margin
    BY <1>4 DEF Hosted
  <2>2. h \in Rows(asked.dataset) /\ Row(h) = s /\ s \in RowsOf(h)
    BY <1>2, <2>1, NowSeen, RowsOfIs DEF Always
  <2>3. s[Site] \in Nat /\ s.site \in Nat /\ s[Site] <= s.site /\ s.category # None
    BY <1>2, <2>2, RowFacts, RunningIs
  <2>4. s[Site] <= Margin
    BY <2>1, <2>3, ScreeningAssumption
  <2> QED BY <1>4, <2>1, <2>2, <2>3, <2>4
<1> HIDE DEF hosts
<1>5. task \in Task /\ PhaseOf(task)
  <2>1. hosts \subseteq Areas
    BY <1>3
  <2> QED BY <2>1 DEF Task, PhaseOf
<1>6. BorderHas(i, task)
  BY <1>3, <1>4 DEF BorderHas
<1> HIDE DEF task
<1> QED BY <1>1, <1>2, <1>5, <1>6, AnswersKeep, TaskNames

\* A neighbour that is found is a row's.
LEMMA NeighboursAre ==
  ASSUME TypeOK, SeenInv, Screened, NEW i \in Conditions, NEW hosts, NEW areas
  PROVE  /\ \A m \in Neighbours(i, hosts, areas) :
              /\ m \in Match /\ m.id \in areas
              /\ m.distance = None /\ ~m.approximate /\ m.category \in Rules[i].categories
              /\ \E r \in RowsOf(m.id) : m.category = r.category
         /\ \A a \in Areas \cap areas : \A r \in RowsSeen(a) :
              Always(a, r) /\ r.category \in Rules[i].categories
              => \E m \in Neighbours(i, hosts, areas) : m.id = a
<1> DEFINE found == {b \in Rows(asked.dataset) \cap areas : Row(b).category \in Rules[i].categories}
           matchOf(a) == [id |-> a, category |-> Row(a).category, distance |-> None,
                          approximate |-> FALSE]
<1>1. Neighbours(i, hosts, areas) = {matchOf(a) : a \in found}
  BY DEF Neighbours
<1>2. ASSUME NEW a \in found
      PROVE  a \in Areas /\ Row(a) \in RowsOf(a) /\ matchOf(a) \in Match
  <2>1. a \in Areas /\ Row(a) \in RowsOf(a)
    BY NowSeen
  <2>2. Row(a).category \in Categories
    BY <2>1, RowFacts, RunningIs
  <2> QED BY <2>1, <2>2 DEF Match
<1>3. ASSUME NEW a \in Areas \cap areas, NEW r \in RowsSeen(a), Always(a, r),
             r.category \in Rules[i].categories
      PROVE  \E m \in Neighbours(i, hosts, areas) : m.id = a
  <2>1. a \in found
    BY <1>3, NowSeen
  <2>2. matchOf(a) \in Neighbours(i, hosts, areas) /\ matchOf(a).id = a
    BY <1>1, <2>1
  <2> QED BY <2>2
<1>4. ASSUME NEW m \in Neighbours(i, hosts, areas)
      PROVE  /\ m \in Match /\ m.id \in areas
             /\ m.distance = None /\ ~m.approximate /\ m.category \in Rules[i].categories
             /\ \E r \in RowsOf(m.id) : m.category = r.category
  <2>1. PICK a \in found : m = matchOf(a)
    BY <1>1
  <2> QED BY <1>2, <2>1
<1> QED BY <1>3, <1>4

LEMMA NeighboursOfHostKeeps ==
  ASSUME IInv, NEW i \in Conditions, NeighboursOfHost(i)
  PROVE  IInv'
<1> DEFINE old == tasks[i]
           beside(h) == {a \in Areas \ {h} : <<h, a>> \in Borders}
           more(h) == Neighbours(i, {h}, beside(h))
           with(h) == {m \in old.found : \A n \in more(h) : n.id # m.id} \cup more(h)
           task(h) == [pc |-> IF old.left \ {h} = {} THEN "done" ELSE "hosts",
                       found |-> with(h), left |-> old.left \ {h}]
<1>1. /\ pc = "conditions" /\ around # "box" /\ old.pc = "hosts"
      /\ UNCHANGED <<world, pc, asked, around, consultees, seen>>
  BY DEF NeighboursOfHost, Pooled
<1>2. PICK h \in old.left : Answers(i, task(h))
  BY DEF NeighboursOfHost
<1>3. Screened /\ TypeOK /\ SeenInv /\ TaskInv
  BY <1>1, TasksAre DEF Screened
<1>4. /\ old \in Task /\ PhaseOf(old)
      /\ old.found \in SUBSET Match /\ old.left \in SUBSET Areas
  BY <1>3, TasksAre
<1>5. Rules[i].logic # "intersection" /\ BorderHas(i, old)
  BY <1>1, <1>3 DEF TaskInv, NearHas
<1>6. /\ \A m \in more(h) :
           /\ m \in Match /\ m.id \in beside(h)
           /\ m.distance = None /\ ~m.approximate /\ m.category \in Rules[i].categories
           /\ \E r \in RowsOf(m.id) : m.category = r.category
      /\ \A a \in Areas \cap beside(h) : \A r \in RowsSeen(a) :
           Always(a, r) /\ r.category \in Rules[i].categories => \E m \in more(h) : m.id = a
  <2> HIDE DEF beside
  <2>1. \A m \in more(h) :
           /\ m \in Match /\ m.id \in beside(h)
           /\ m.distance = None /\ ~m.approximate /\ m.category \in Rules[i].categories
           /\ \E r \in RowsOf(m.id) : m.category = r.category
    BY <1>3, NeighboursAre
  <2>2. \A a \in Areas \cap beside(h) : \A r \in RowsSeen(a) :
           Always(a, r) /\ r.category \in Rules[i].categories => \E m \in more(h) : m.id = a
    BY <1>3, NeighboursAre
  <2> QED BY <2>1, <2>2
<1> HIDE DEF more
<1>7. \A a : Finds(old, a) \/ (\E m \in more(h) : m.id = a) => \E m \in with(h) : m.id = a
  BY DEF Finds
<1>8. task(h) \in Task /\ PhaseOf(task(h))
  <2>1. with(h) \subseteq Match /\ old.left \ {h} \subseteq Areas
    BY <1>4, <1>6
  <2> QED BY <2>1 DEF Task, PhaseOf
<1>9. BorderHas(i, task(h))
  <2>1. ASSUME NEW m \in with(h)
        PROVE  /\ m.distance = None /\ ~m.approximate /\ m.category \in Rules[i].categories
               /\ \E r \in RowsOf(m.id) : m.category = r.category
               /\ \E g \in Areas : HostOf(i, g) /\ Beside(g, m.id)
    <3>1. CASE m \in old.found
      BY <1>5, <3>1 DEF BorderHas
    <3>2. CASE m \in more(h)
      <4>1. h \in Areas /\ HostOf(i, h) /\ Beside(h, m.id)
        BY <1>4, <1>5, <1>6, <3>2 DEF BorderHas, Beside
      <4> QED BY <1>6, <3>2, <4>1
    <3> QED BY <3>1, <3>2
  <2>2. ASSUME NEW a \in Areas, NEW g \in Areas, NEW r \in RowsSeen(a), Always(a, r),
               r.category \in Rules[i].categories, Hosted(i, g, a)
        PROVE  (\E m \in with(h) : m.id = a) \/ g \in old.left \ {h}
    <3>1. Finds(old, a) \/ g \in old.left
      BY <1>1, <1>5, <2>2 DEF BorderHas
    <3>2. CASE g = h
      <4>1. a \in beside(h)
        BY <2>2, <3>2 DEF Hosted
      <4> HIDE DEF beside, with
      <4> QED BY <1>6, <1>7, <2>2, <4>1
    <3> QED BY <1>7, <3>1, <3>2
  <2>3. \A g \in old.left \ {h} : HostOf(i, g)
    BY <1>5 DEF BorderHas
  <2> HIDE DEF with
  <2> QED BY <1>1, <2>1, <2>2, <2>3 DEF BorderHas, Finds
<1> HIDE DEF task
<1> QED BY <1>1, <1>2, <1>3, <1>5, <1>8, <1>9, AnswersKeep, TaskNames

LEMMA NeighboursInBoxKeeps ==
  ASSUME IInv, NEW i \in Conditions, NeighboursInBox(i)
  PROVE  IInv'
<1> DEFINE old == tasks[i]
           box == AroundHosts(old.left)
           found == Neighbours(i, old.left, box)
           task == [pc |-> "done", left |-> {}, found |-> found]
<1>1. /\ pc = "conditions" /\ around = "box" /\ old.pc = "hosts" /\ Answers(i, task)
      /\ UNCHANGED <<world, pc, asked, around, consultees, seen>>
  BY DEF NeighboursInBox, Pooled
<1>2. Screened /\ TypeOK /\ SeenInv /\ TaskInv
  BY <1>1, TasksAre DEF Screened
<1>3. /\ old \in Task /\ PhaseOf(old)
      /\ old.found \in SUBSET Match /\ old.left \in SUBSET Areas
  BY <1>2, TasksAre
<1>4. Rules[i].logic # "intersection" /\ BorderHas(i, old)
  BY <1>1, <1>2 DEF TaskInv, NearHas
<1>5. /\ \A m \in found :
           /\ m \in Match
           /\ m.distance = None /\ ~m.approximate /\ m.category \in Rules[i].categories
           /\ \E r \in RowsOf(m.id) : m.category = r.category
      /\ \A a \in Areas \cap box : \A r \in RowsSeen(a) :
           Always(a, r) /\ r.category \in Rules[i].categories => \E m \in found : m.id = a
  BY <1>2, NeighboursAre
<1>6. \A h \in old.left, a \in Areas : <<h, a>> \in Borders => a \in box
  BY <1>3, ScreeningAssumption
<1> HIDE DEF found, box
<1>7. task \in Task /\ PhaseOf(task)
  BY <1>5 DEF Task, PhaseOf
<1>8. BorderHas(i, task)
  <2>1. \E h \in Areas : HostOf(i, h) /\ \A a : Beside(h, a)
    BY <1>1, <1>3, <1>4 DEF PhaseOf, BorderHas, Beside
  <2>2. ASSUME NEW a \in Areas, NEW h \in Areas, NEW r \in RowsSeen(a), Always(a, r),
               r.category \in Rules[i].categories, Hosted(i, h, a)
        PROVE  \E m \in found : m.id = a
    <3>1. h \in old.left
      BY <1>1, <1>4, <2>2 DEF BorderHas, Finds
    <3> QED BY <1>5, <1>6, <2>2, <3>1 DEF Hosted
  <2> QED BY <1>5, <2>1, <2>2 DEF BorderHas, Finds
<1> HIDE DEF task
<1> QED BY <1>1, <1>2, <1>4, <1>7, <1>8, AnswersKeep, TaskNames

------------------------------------------------------------------------------
(* Putting the answers together *)

\* What a match that identifies an area owes to its rows, and one that is nearby.
MatchFor(i, m) ==
  /\ m \in Match /\ ~m.approximate
  /\ \E r \in RowsOf(m.id) : m.category = r.category
  /\ InCategories(Rules[i].categories, m.category)
  /\ Rules[i].logic = "intersection" =>
       /\ m.distance \in Nat /\ m.distance <= Rules[i].buffer + Margin
       /\ \E r \in RowsOf(m.id) : m.distance = r[Site]
  /\ Rules[i].logic # "intersection" =>
       m.distance = None /\ \E h \in Areas : HostOf(i, h) /\ Beside(h, m.id)

MatchNear(m) ==
  /\ m \in Match /\ m.distance \in Nat
  /\ \E r \in RowsOf(m.id) : m.category = r.category
  /\ m.category \notin Excluded /\ RadiusOf(m.category) > 0
  /\ m.distance <= RadiusOf(m.category) + Margin
  /\ m.approximate => around = "cover" /\ \E r \in RowsOf(m.id) : m.distance = r[around]
  /\ ~m.approximate => \E r \in RowsOf(m.id) : m.distance = r[Site]

AllAnswered == pc = "conditions" /\ \A i \in OwnQuery : tasks[i].pc = "done"

LEMMA MatchesAre ==
  ASSUME IInv, AllAnswered
  PROVE  /\ \A i \in Conditions : \A m \in MatchesOf(i) : MatchFor(i, m)
         /\ \A m \in Nearby : MatchNear(m)
<1>1. Screened /\ SeenInv /\ TaskInv
  BY TasksAre DEF AllAnswered, Screened
<1>2. tasks[Search].pc = "done" /\ tasks[Search].left = {} /\ SearchHas(tasks[Search])
  BY <1>1 DEF AllAnswered, IInv, PhaseInv, TaskInv, PhaseOf
<1>3. \A t \in {Search} \cup Conditions : tasks[t].found \in SUBSET Match
  BY <1>1, TasksAre
<1>4. ASSUME NEW m \in tasks[Search].found
      PROVE  /\ m \in Match /\ m.distance \in Nat
             /\ \E r \in RowsOf(m.id) : m.category = r.category
             /\ m.category \notin Excluded
             /\ m.approximate => /\ around = "cover"
                                 /\ \E r \in RowsOf(m.id) : m.distance = r[around]
                                 /\ \A i \in Conditions : ~Meets(m, Rules[i])
             /\ ~m.approximate => \E r \in RowsOf(m.id) : m.distance = r[Site]
  <2>1. /\ m \in Match /\ m.category \notin Excluded
        /\ \E r \in RowsOf(m.id) : m.category = r.category
        /\ m.approximate => around = "cover" /\ \A i \in Conditions : ~Meets(m, Rules[i])
    BY <1>2, <1>3 DEF SearchHas, FoundAs
  <2>2. PICK r \in RowsOf(m.id) : m.distance = r[IF m.approximate THEN around ELSE Site]
    BY <1>2 DEF SearchHas, FoundAs, From
  <2>3. m.distance \in Nat
    BY <1>1, <2>2, RowFacts, RunningIs
  <2> QED BY <2>1, <2>2, <2>3
<1>5. ASSUME NEW i \in Conditions, NEW m \in MatchesOf(i), i \in OwnQuery
      PROVE  MatchFor(i, m)
  <2>1. m \in tasks[i].found /\ tasks[i].pc = "done" /\ m \in Match
    BY <1>3, <1>5 DEF MatchesOf, AllAnswered
  <2>2. tasks[i].left = {}
    BY <1>1, <2>1 DEF TaskInv, PhaseOf
  <2>3. CASE Rules[i].logic = "intersection"
    <3>1. /\ ~m.approximate /\ Meets(m, Rules[i]) /\ FoundAs(m, {})
      BY <1>1, <2>1, <2>2, <2>3 DEF TaskInv, NearHas
    <3>2. PICK r \in RowsOf(m.id) : m.distance = r[Site]
      BY <3>1 DEF FoundAs, From
    <3>3. m.distance \in Nat
      BY <1>1, <3>2, RowFacts, RunningIs
    <3> QED BY <2>1, <2>3, <3>1, <3>2, <3>3 DEF MatchFor, FoundAs, Meets
  <2>4. CASE Rules[i].logic # "intersection"
    BY <1>1, <2>1, <2>4 DEF TaskInv, BorderHas, MatchFor, InCategories
  <2> QED BY <2>3, <2>4
<1>6. ASSUME NEW i \in Conditions, NEW m \in MatchesOf(i), i \notin OwnQuery
      PROVE  MatchFor(i, m)
  <2>1. m \in tasks[Search].found /\ Meets(m, Rules[i]) /\ Rules[i].logic = "intersection"
    BY <1>6 DEF MatchesOf, OwnQuery, Answerable
  <2> QED BY <1>4, <2>1 DEF MatchFor, Meets
<1>7. \A m \in Nearby : MatchNear(m)
  BY <1>4 DEF Nearby, IsNearby, MatchNear
<1> QED BY <1>5, <1>6, <1>7

\* What has been there all along has a match for each condition it meets, and one nearby.
LEMMA MatchesKept ==
  ASSUME IInv, AllAnswered, NEW a \in Areas, NEW r \in RowsSeen(a), Always(a, r)
  PROVE  /\ \A i \in Conditions :
              \/ /\ Rules[i].logic = "intersection" /\ InCategories(Rules[i].categories, r.category)
                 /\ r.site <= Rules[i].buffer + Margin
              \/ /\ Rules[i].logic # "intersection" /\ r.category \in Rules[i].categories
                 /\ \E h \in Areas : Hosted(i, h, a)
              => \E m \in MatchesOf(i) : m.id = a
         /\ /\ r.category \notin Excluded /\ RadiusOf(r.category) > 0
            /\ r.site <= RadiusOf(r.category) + Margin
            => \E m \in Nearby : m.id = a /\ m.category = r.category
<1>1. Screened /\ SeenInv /\ TaskInv
  BY TasksAre DEF AllAnswered, Screened
<1>2. tasks[Search].pc = "done" /\ tasks[Search].left = {} /\ SearchHas(tasks[Search])
  BY <1>1 DEF AllAnswered, IInv, PhaseInv, TaskInv, PhaseOf
<1>3. r.site \in Nat /\ SearchRadius \in Nat /\ Margin \in Nat
  BY <1>1, RowFacts, RowsOfIs, RunningIs, RadiusReached, ScreeningAssumption DEF Always
<1>4. ASSUME r.category \notin Excluded, r.site <= SearchRadius + Margin
      PROVE  \E m \in tasks[Search].found :
               /\ m.id = a /\ m.category = r.category
               /\ m.distance \in Nat /\ m.distance <= r.site
  <2>1. PICK m \in tasks[Search].found : m.id = a
    BY <1>2, <1>4 DEF SearchHas, Finds
  <2>2. FoundAs(m, {})
    BY <1>2 DEF SearchHas
  <2>3. \A q \in RowsOf(a) : q = r
    BY RowsOfIs DEF Always
  <2>4. m.category = r.category /\ (m.distance = r[around] \/ m.distance = r[Site])
    BY <2>1, <2>2, <2>3 DEF FoundAs, From
  <2>5. r \in RowsOf(a)
    BY RowsOfIs DEF Always
  <2> QED BY <1>1, <2>1, <2>4, <2>5, RowFacts, RunningIs
<1>5. ASSUME NEW i \in Conditions, i \in OwnQuery,
             \/ /\ Rules[i].logic = "intersection" /\ InCategories(Rules[i].categories, r.category)
                /\ r.site <= Rules[i].buffer + Margin
             \/ /\ Rules[i].logic # "intersection" /\ r.category \in Rules[i].categories
                /\ \E h \in Areas : Hosted(i, h, a)
      PROVE  \E m \in MatchesOf(i) : m.id = a
  <2>1. tasks[i].pc = "done" /\ MatchesOf(i) = tasks[i].found
    BY <1>5 DEF MatchesOf, AllAnswered
  <2>2. tasks[i].left = {}
    BY <1>1, <2>1 DEF TaskInv, PhaseOf
  <2>3. CASE Rules[i].logic = "intersection"
    BY <1>1, <1>5, <2>1, <2>3 DEF TaskInv, NearHas, Finds
  <2>4. CASE Rules[i].logic # "intersection"
    <3>1. BorderHas(i, tasks[i])
      BY <1>1, <2>4 DEF TaskInv
    <3> QED BY <1>5, <2>1, <2>2, <2>4, <3>1 DEF BorderHas, Finds
  <2> QED BY <2>3, <2>4
<1>6. ASSUME NEW i \in Conditions, i \notin OwnQuery,
             InCategories(Rules[i].categories, r.category), r.site <= Rules[i].buffer + Margin
      PROVE  \E m \in MatchesOf(i) : m.id = a
  <2>1. /\ Rules[i].logic = "intersection" /\ Rules[i].buffer <= SearchRadius
        /\ Rules[i].categories # {} /\ Rules[i].categories \cap Excluded = {}
        /\ MatchesOf(i) = {m \in tasks[Search].found : Meets(m, Rules[i])}
    BY <1>6 DEF MatchesOf, OwnQuery, Answerable
  <2>2. Rules[i].buffer \in Nat
    BY ScreeningAssumption DEF Conditions
  <2>3. r.category \notin Excluded
    BY <1>6, <2>1 DEF InCategories
  <2>4. r.site <= SearchRadius + Margin
    BY <1>3, <1>6, <2>1, <2>2
  <2>5. PICK m \in tasks[Search].found : /\ m.id = a /\ m.category = r.category
                                        /\ m.distance \in Nat /\ m.distance <= r.site
    BY <1>4, <2>3, <2>4
  <2>6. Meets(m, Rules[i])
    BY <1>3, <1>6, <2>1, <2>2, <2>5 DEF Meets
  <2> QED BY <2>1, <2>5, <2>6
<1>7. ASSUME r.category \notin Excluded, RadiusOf(r.category) > 0,
             r.site <= RadiusOf(r.category) + Margin
      PROVE  \E m \in Nearby : m.id = a /\ m.category = r.category
  <2>1. RadiusOf(r.category) \in Nat /\ RadiusOf(r.category) <= SearchRadius
    BY RadiusReached
  <2>2. r.site <= SearchRadius + Margin
    BY <1>3, <1>7, <2>1
  <2>3. PICK m \in tasks[Search].found : /\ m.id = a /\ m.category = r.category
                                        /\ m.distance \in Nat /\ m.distance <= r.site
    BY <1>4, <1>7, <2>2
  <2>4. m.distance <= RadiusOf(r.category) + Margin
    BY <1>3, <1>7, <2>1, <2>3
  <2> QED BY <1>7, <2>3, <2>4 DEF Nearby, IsNearby
<1>8. \A i \in Conditions : i \notin OwnQuery => Rules[i].logic = "intersection"
  BY DEF OwnQuery, Answerable
<1> QED BY <1>5, <1>6, <1>7, <1>8

\* An area's matches, those with a distance, and one with the nearest.
MatchesWith(a) == {m \in Nearby \cup UNION {MatchesOf(i) : i \in Conditions} : m.id = a}
DistancesOf(a) == {m \in MatchesWith(a) : m.distance # None}
NearestOf(a) == CHOOSE m \in DistancesOf(a) : \A n \in DistancesOf(a) : m.distance <= n.distance

LEMMA CombinedIs ==
  /\ DOMAIN Combined = {b \in Areas : MatchesWith(b) # {}}
  /\ \A a \in DOMAIN Combined :
       Combined[a] =
         [distance |-> IF DistancesOf(a) = {} THEN None ELSE NearestOf(a).distance,
          approximate |-> DistancesOf(a) # {} /\ NearestOf(a).approximate,
          conditions |-> {i \in Conditions : \E m \in MatchesOf(i) : m.id = a},
          nearby |-> {RadiusOf(m.category) : m \in {n \in Nearby : n.id = a}}]
BY DEF Combined, MatchesWith, DistancesOf, NearestOf

LEMMA CombinedFields ==
  ASSUME NEW a \in DOMAIN Combined
  PROVE  /\ a \in Areas /\ MatchesWith(a) # {}
         /\ Combined[a].distance = IF DistancesOf(a) = {} THEN None ELSE NearestOf(a).distance
         /\ Combined[a].approximate = (DistancesOf(a) # {} /\ NearestOf(a).approximate)
         /\ Combined[a].conditions = {i \in Conditions : \E m \in MatchesOf(i) : m.id = a}
         /\ Combined[a].nearby = {RadiusOf(m.category) : m \in {n \in Nearby : n.id = a}}
<1> DEFINE d == IF DistancesOf(a) = {} THEN None ELSE NearestOf(a).distance
           x == DistancesOf(a) # {} /\ NearestOf(a).approximate
           c == {i \in Conditions : \E m \in MatchesOf(i) : m.id = a}
           n == {RadiusOf(m.category) : m \in {k \in Nearby : k.id = a}}
<1>1. Combined[a] = [distance |-> d, approximate |-> x, conditions |-> c, nearby |-> n]
  BY CombinedIs
<1>2. a \in Areas /\ MatchesWith(a) # {}
  BY CombinedIs
<1> HIDE DEF d, x, c, n
<1>3. Combined[a].distance = d /\ Combined[a].approximate = x
      /\ Combined[a].conditions = c /\ Combined[a].nearby = n
  BY <1>1
<1> QED BY <1>2, <1>3 DEF d, x, c, n

LEMMA MatchesWithAre ==
  ASSUME IInv, AllAnswered, NEW a \in Areas
  PROVE  /\ \A m \in MatchesWith(a) : /\ m \in Match /\ m.id = a
                                      /\ m.distance \in Nat \/ m.distance = None
                                      /\ MatchNear(m) \/ \E i \in Conditions : m \in MatchesOf(i)
         /\ \A m \in Nearby : m.id = a => m \in DistancesOf(a)
         /\ \A i \in Conditions : \A m \in MatchesOf(i) : m.id = a => m \in MatchesWith(a)
         /\ DistancesOf(a) # {} =>
              /\ NearestOf(a) \in DistancesOf(a) /\ NearestOf(a).distance \in Nat
              /\ \A n \in DistancesOf(a) : n.distance \in Nat /\ NearestOf(a).distance <= n.distance
<1>1. /\ \A i \in Conditions : \A m \in MatchesOf(i) : MatchFor(i, m)
      /\ \A m \in Nearby : MatchNear(m)
  BY MatchesAre
<1>2. ASSUME NEW m \in MatchesWith(a)
      PROVE  /\ m \in Match /\ m.id = a
             /\ m.distance \in Nat \/ m.distance = None
             /\ MatchNear(m) \/ \E i \in Conditions : m \in MatchesOf(i)
  <2>1. m.id = a /\ (m \in Nearby \/ \E i \in Conditions : m \in MatchesOf(i))
    BY DEF MatchesWith
  <2>2. m \in Match
    BY <1>1, <2>1 DEF MatchFor, MatchNear
  <2> QED BY <1>1, <2>1, <2>2 DEF Match
<1>3. \A m \in Nearby : m.id = a => m \in DistancesOf(a)
  BY <1>1, ScreeningAssumption DEF MatchNear, DistancesOf, MatchesWith
<1>4. \A i \in Conditions : \A m \in MatchesOf(i) : m.id = a => m \in MatchesWith(a)
  BY DEF MatchesWith
<1>5. ASSUME DistancesOf(a) # {}
      PROVE  /\ NearestOf(a) \in DistancesOf(a) /\ NearestOf(a).distance \in Nat
             /\ \A n \in DistancesOf(a) : n.distance \in Nat /\ NearestOf(a).distance <= n.distance
  <2> DEFINE numbers == {m.distance : m \in DistancesOf(a)}
  <2>1. \A m \in DistancesOf(a) : m.distance \in Nat
    BY <1>2 DEF DistancesOf
  <2>2. numbers \subseteq Nat /\ numbers # {}
    BY <1>5, <2>1
  <2>3. PICK x \in numbers : \A y \in numbers : x <= y
    <3> HIDE DEF numbers
    <3> QED BY <2>2, LeastNumber
  <2>4. PICK m \in DistancesOf(a) : m.distance = x
    OBVIOUS
  <2>5. \A n \in DistancesOf(a) : m.distance <= n.distance
    BY <2>3, <2>4
  <2>6. NearestOf(a) \in DistancesOf(a)
        /\ \A n \in DistancesOf(a) : NearestOf(a).distance <= n.distance
    BY <2>5 DEF NearestOf
  <2> QED BY <2>1, <2>6
<1> QED BY <1>2, <1>3, <1>4, <1>5

\* What _combine gives has its reasons, and its distance or is still to be measured.
LEMMA CombinedHas ==
  ASSUME IInv, AllAnswered, NEW unmeasured,
         unmeasured = {a \in DOMAIN Combined :
           \/ Combined[a].distance = None
           \/ Combined[a].approximate /\ Combined[a].conditions # {}}
  PROVE  /\ AnswerHas(Combined, unmeasured)
         /\ DOMAIN Combined \subseteq Areas
         /\ \A a \in DOMAIN Combined : Combined[a] \in Consultee
<1>1. /\ \A i \in Conditions : \A m \in MatchesOf(i) : MatchFor(i, m)
      /\ \A m \in Nearby : MatchNear(m)
  BY MatchesAre
<1>2. Screened /\ SeenInv
  BY TasksAre DEF AllAnswered, Screened
<1>3. ASSUME NEW a \in DOMAIN Combined
      PROVE  Combined[a] \in Consultee
  <2>1. a \in Areas
    BY CombinedIs
  <2>2. DistancesOf(a) # {} => NearestOf(a) \in Match /\ NearestOf(a).distance \in Nat
    BY <2>1, MatchesWithAre DEF DistancesOf
  <2>3. {RadiusOf(m.category) : m \in {n \in Nearby : n.id = a}} \subseteq Nat
    BY RadiusReached
  <2> DEFINE d == IF DistancesOf(a) = {} THEN None ELSE NearestOf(a).distance
             x == DistancesOf(a) # {} /\ NearestOf(a).approximate
             c == {i \in Conditions : \E m \in MatchesOf(i) : m.id = a}
             n == {RadiusOf(m.category) : m \in {k \in Nearby : k.id = a}}
  <2>4. Combined[a] = [distance |-> d, approximate |-> x, conditions |-> c, nearby |-> n]
    BY CombinedIs
  <2>5. d \in Nat \cup {None} /\ x \in BOOLEAN /\ c \subseteq Conditions /\ n \subseteq Nat
    BY <2>2, <2>3
  <2> HIDE DEF d, x, c, n
  <2> QED BY <2>4, <2>5 DEF Consultee
<1>4. ASSUME NEW a \in DOMAIN Combined
      PROVE  /\ a \in Areas
             /\ \A i \in Combined[a].conditions :
                  i \in Conditions /\ \E m \in MatchesOf(i) : m.id = a
             /\ \A radius \in Combined[a].nearby :
                  \E m \in Nearby : m.id = a /\ radius = RadiusOf(m.category)
             /\ \A i \in Conditions : \A m \in MatchesOf(i) :
                  m.id = a => i \in Combined[a].conditions
             /\ \A m \in Nearby : m.id = a => RadiusOf(m.category) \in Combined[a].nearby
  BY CombinedFields
<1>5. ASSUME NEW a \in DOMAIN Combined
      PROVE  ReasonsOf(a, Combined[a], unmeasured)
  <2>1. ASSUME NEW i \in Combined[a].conditions
        PROVE  /\ \E r \in RowsOf(a) : InCategories(Rules[i].categories, r.category)
               /\ Rules[i].logic = "intersection" =>
                    \E r \in RowsOf(a) : r[Site] <= Rules[i].buffer + Margin
               /\ Rules[i].logic # "intersection" =>
                    \E h \in Areas : HostOf(i, h) /\ Beside(h, a)
    <3>1. i \in Conditions
      BY <1>4
    <3>2. PICK m \in MatchesOf(i) : m.id = a
      BY <1>4
    <3> QED BY <1>1, <3>1, <3>2 DEF MatchFor
  <2>2. ASSUME NEW radius \in Combined[a].nearby
        PROVE  /\ \E r \in RowsOf(a) : RadiusOf(r.category) = radius /\ r.category \notin Excluded
               /\ \E s \in RowsOf(a) : s[around] <= radius + Margin
               /\ radius > 0
    <3>1. PICK m \in Nearby : m.id = a /\ radius = RadiusOf(m.category)
      BY <1>4
    <3>2. MatchNear(m)
      BY <1>1
    <3>3. PICK s \in RowsOf(a) : m.distance = s[around] \/ m.distance = s[Site]
      BY <3>1, <3>2 DEF MatchNear
    <3>4. s[around] \in Nat /\ s[Site] \in Nat /\ s[around] <= s[Site]
      BY <1>2, RowFacts, RunningIs
    <3>5. radius \in Nat /\ Margin \in Nat
      BY <3>1, RadiusReached, ScreeningAssumption
    <3>6. s[around] <= radius + Margin
      BY <3>1, <3>2, <3>3, <3>4, <3>5 DEF MatchNear
    <3> QED BY <3>1, <3>2, <3>6 DEF MatchNear
  <2>3. MatchesWith(a) # {}
    BY CombinedIs
  <2>4. Combined[a].conditions # {} \/ Combined[a].nearby # {}
    BY <1>4, <2>3 DEF MatchesWith
  <2>5. a \in unmeasured => Combined[a].conditions # {}
    <3>1. ASSUME Combined[a].distance = None
          PROVE  Combined[a].conditions # {}
      <4>1. DistancesOf(a) = {}
        BY <1>4, <3>1, CombinedFields, MatchesWithAre, ScreeningAssumption
      <4>2. \A m \in Nearby : m.id # a
        BY <1>4, <4>1, MatchesWithAre
      <4> QED BY <1>4, <2>3, <4>2 DEF MatchesWith
    <3> QED BY <3>1
  <2>6. Combined[a].distance = None => a \in unmeasured
    OBVIOUS
  <2> QED BY <2>1, <2>2, <2>4, <2>5, <2>6 DEF ReasonsOf
<1>6. ASSUME NEW a \in DOMAIN Combined
      PROVE  DistanceOf(a, Combined[a], unmeasured)
  <2>1. SUFFICES ASSUME NEW r \in RowsSeen(a), Always(a, r), around # "box",
                        Combined[a].conditions # {} \/ around = "site", a \notin unmeasured
                 PROVE  /\ Combined[a].distance = r.site
                        /\ \A radius \in Combined[a].nearby : r.site <= radius + Margin
    BY DEF DistanceOf
  <2>2. a \in Areas /\ Combined[a].distance # None
    BY <1>4, <2>1
  <2>3. /\ DistancesOf(a) # {}
        /\ Combined[a].distance = NearestOf(a).distance
        /\ Combined[a].approximate = NearestOf(a).approximate
    <3>1. DistancesOf(a) # {} /\ Combined[a].distance = NearestOf(a).distance
      BY <2>2, CombinedFields
    <3>2. NearestOf(a).approximate \in BOOLEAN
      BY <2>2, <3>1, MatchesWithAre DEF DistancesOf, Match
    <3> QED BY <3>1, <3>2, CombinedFields
  <2>4. Site = "site"
    BY <1>2, <2>1, RunningIs DEF Site, SeenInv
  <2>5. (\A q \in RowsOf(a) : q = r) /\ r \in RowsOf(a)
    BY <2>1, RowsOfIs DEF Always
  <2>6. ASSUME NEW m \in DistancesOf(a)
        PROVE  /\ ~m.approximate => m.distance = r.site
               /\ m.approximate => around = "cover" /\ m.distance = r.cover
    <3>1. m.id = a /\ m.distance # None /\ m \in MatchesWith(a)
      BY DEF DistancesOf, MatchesWith
    <3>2. CASE MatchNear(m)
      BY <2>4, <2>5, <3>1, <3>2 DEF MatchNear
    <3>3. CASE \E i \in Conditions : m \in MatchesOf(i)
      BY <1>1, <2>4, <2>5, <3>1, <3>3 DEF MatchFor
    <3> QED BY <2>2, <3>1, <3>2, <3>3, MatchesWithAre
  <2>7. ~NearestOf(a).approximate
    <3>1. CASE around = "site"
      BY <2>2, <2>3, <2>6, <3>1, MatchesWithAre
    <3>2. CASE Combined[a].conditions # {}
      BY <2>1, <2>3, <3>2
    <3> QED BY <2>1, <3>1, <3>2
  <2>8. Combined[a].distance = r.site /\ \A m \in DistancesOf(a) : r.site <= m.distance
    BY <2>2, <2>3, <2>6, <2>7, MatchesWithAre
  <2>9. ASSUME NEW radius \in Combined[a].nearby
        PROVE  r.site <= radius + Margin
    <3>1. PICK m \in Nearby : m.id = a /\ radius = RadiusOf(m.category)
      BY <1>4
    <3>2. m \in DistancesOf(a) /\ m.distance \in Nat /\ m.distance <= radius + Margin
      BY <1>1, <2>2, <3>1, MatchesWithAre DEF MatchNear
    <3>3. r.site \in Nat /\ radius \in Nat /\ Margin \in Nat /\ r.site <= m.distance
      BY <1>2, <2>5, <2>8, <3>1, <3>2, RowFacts, RunningIs, RadiusReached, ScreeningAssumption
    <3> QED BY <3>2, <3>3
  <2> QED BY <2>8, <2>9
<1>7. ASSUME NEW a \in Areas
      PROVE  HasReasons(a, Combined)
  <2>1. SUFFICES ASSUME NEW r \in RowsSeen(a), Always(a, r)
                 PROVE  /\ \A i \in Conditions :
                             \/ /\ Rules[i].logic = "intersection"
                                /\ InCategories(Rules[i].categories, r.category)
                                /\ r.site <= Rules[i].buffer + Margin
                             \/ /\ Rules[i].logic # "intersection"
                                /\ r.category \in Rules[i].categories
                                /\ \E h \in Areas : Hosted(i, h, a)
                             => a \in DOMAIN Combined /\ i \in Combined[a].conditions
                        /\ /\ r.category \notin Excluded /\ RadiusOf(r.category) > 0
                           /\ r.site <= RadiusOf(r.category) + Margin
                           => a \in DOMAIN Combined /\ RadiusOf(r.category) \in Combined[a].nearby
    BY DEF HasReasons
  <2>2. ASSUME NEW i \in Conditions, \E m \in MatchesOf(i) : m.id = a
        PROVE  a \in DOMAIN Combined /\ i \in Combined[a].conditions
    <3>1. a \in DOMAIN Combined
      BY <2>2, CombinedIs, MatchesWithAre
    <3> QED BY <1>4, <2>2, <3>1
  <2>3. ASSUME \E m \in Nearby : m.id = a /\ m.category = r.category
        PROVE  a \in DOMAIN Combined /\ RadiusOf(r.category) \in Combined[a].nearby
    <3>1. PICK m \in Nearby : m.id = a /\ m.category = r.category
      BY <2>3
    <3>2. m \in MatchesWith(a)
      BY <3>1 DEF MatchesWith
    <3>3. a \in DOMAIN Combined
      BY <3>2, CombinedIs
    <3> QED BY <1>4, <3>1, <3>3
  <2> QED BY <2>1, <2>2, <2>3, MatchesKept
<1>8. DOMAIN Combined \subseteq Areas
  BY CombinedIs
<1> QED BY <1>3, <1>5, <1>6, <1>7, <1>8 DEF AnswerHas

LEMMA CombineKeeps ==
  ASSUME IInv, Combine
  PROVE  IInv'
<1> DEFINE unmeasured == {a \in DOMAIN Combined :
             \/ Combined[a].distance = None
             \/ Combined[a].approximate /\ Combined[a].conditions # {}}
<1>1. /\ AllAnswered /\ pc = "conditions" /\ consultees' = Combined
      /\ tasks' = [tasks EXCEPT ![Measure].left = unmeasured]
      /\ pc' = IF unmeasured = {} THEN "done" ELSE "measure"
      /\ UNCHANGED <<present, inUse, changes, asked, around, seen>>
  BY DEF Combine, AllAnswered, world
<1>2. /\ AnswerHas(Combined, unmeasured)
      /\ DOMAIN Combined \subseteq Areas
      /\ \A a \in DOMAIN Combined : Combined[a] \in Consultee
  BY <1>1, CombinedHas
<1>3. unmeasured \subseteq Areas /\ \A a \in DOMAIN Combined : Combined[a].distance = None => a \in unmeasured
  BY <1>2
<1> HIDE DEF unmeasured
<1>4. Screened /\ TypeOK /\ SeenInv /\ TaskInv /\ PhaseInv
  BY <1>1, TasksAre DEF Screened, IInv
<1>5. /\ tasks' \in [Search..Measure -> Task] /\ tasks'[Measure].left = unmeasured
      /\ \A t \in {Search} \cup Conditions : tasks'[t] = tasks[t]
  <2>1. tasks \in [Search..Measure -> Task] /\ Measure \in Search..Measure
    BY <1>4, TaskNames DEF TypeOK
  <2>2. tasks'[Measure] = [tasks[Measure] EXCEPT !.left = unmeasured]
    BY <1>1, <2>1
  <2>3. tasks'[Measure] \in Task /\ tasks'[Measure].left = unmeasured
    BY <1>3, <2>1, <2>2 DEF Task
  <2>4. \A t \in Search..Measure : t # Measure => tasks'[t] = tasks[t]
    BY <1>1, <2>1
  <2>5. DOMAIN tasks' = Search..Measure /\ tasks' = [t \in Search..Measure |-> tasks'[t]]
    BY <1>1, <2>1
  <2>6. tasks' \in [Search..Measure -> Task]
    BY <2>1, <2>3, <2>4, <2>5
  <2> QED BY <2>3, <2>4, <2>6, TaskNames
<1>6. TypeOK'
  BY <1>1, <1>2, <1>3, <1>4, <1>5 DEF TypeOK
<1>7. SeenInv' /\ PhaseInv'
  BY <1>1, <1>4, <1>5, RunningIs
     DEF SeenInv, PhaseInv, Running, Screened, Visible, Rows, Table
<1>8. TaskInv'
  BY <1>1, <1>4, <1>5, SeenAlone DEF TaskInv
<1>9. AnswerInv'
  BY <1>1, <1>2, <1>5, SeenAlone DEF AnswerInv
<1> QED BY <1>6, <1>7, <1>8, <1>9 DEF IInv

LEMMA MeasureUnmeasuredKeeps ==
  ASSUME IInv, MeasureUnmeasured
  PROVE  IInv'
<1> DEFINE left == tasks[Measure].left
           rows == Rows(asked.dataset)
<1>1. PICK b \in Batches(left) :
        /\ consultees' =
            [a \in DOMAIN consultees \ (b \ rows) |->
               IF a \notin b THEN consultees[a]
               ELSE [consultees[a] EXCEPT !.distance = Row(a)[Site], !.approximate = FALSE,
                       !.nearby = {r \in @ : Row(a)[Site] <= r + Margin}]]
        /\ tasks' = [tasks EXCEPT ![Measure].left = @ \ b]
        /\ pc' = IF b = left THEN "done" ELSE "measure"
  BY DEF MeasureUnmeasured
<1>2. pc = "measure" /\ UNCHANGED <<present, inUse, changes, asked, around, seen>>
  BY DEF MeasureUnmeasured, world
<1>3. /\ Screened /\ TypeOK /\ SeenInv /\ TaskInv /\ PhaseInv
      /\ AnswerHas(consultees, left) /\ b \subseteq left
  BY <1>2, TasksAre, RunningIs, BatchesOf DEF Screened, IInv, AnswerInv, HasAnswer
<1>4. ASSUME NEW a \in DOMAIN consultees'
      PROVE  /\ a \in DOMAIN consultees /\ a \in Areas /\ (a \in b => a \in rows)
             /\ a \notin b => consultees'[a] = consultees[a]
             /\ a \in b => /\ consultees'[a].distance = Row(a)[Site]
                           /\ consultees'[a].conditions = consultees[a].conditions
                           /\ consultees'[a].nearby =
                                {r \in consultees[a].nearby : Row(a)[Site] <= r + Margin}
             /\ consultees'[a] \in Consultee
  <2>1. /\ a \in DOMAIN consultees /\ a \in Areas /\ (a \in b => a \in rows)
        /\ consultees[a] \in Consultee
    BY <1>1, <1>3 DEF TypeOK
  <2>2. CASE a \notin b
    BY <1>1, <2>1, <2>2
  <2>3. CASE a \in b
    <3> DEFINE near == {r \in consultees[a].nearby : Row(a)[Site] <= r + Margin}
    <3>1. consultees'[a] = [consultees[a] EXCEPT !.distance = Row(a)[Site], !.approximate = FALSE,
                              !.nearby = near]
      BY <1>1, <2>1, <2>3
    <3>2. Row(a)[Site] \in Nat
      BY <1>3, <2>1, <2>3, NowSeen, RowFacts, RunningIs
    <3>3. near \subseteq Nat
      BY <2>1 DEF Consultee
    <3> HIDE DEF near
    <3>4. /\ consultees'[a].distance = Row(a)[Site]
          /\ consultees'[a].conditions = consultees[a].conditions
          /\ consultees'[a].nearby = near /\ consultees'[a] \in Consultee
      BY <2>1, <3>1, <3>2, <3>3 DEF Consultee
    <3> QED BY <2>1, <2>3, <3>4 DEF near
  <2> QED BY <2>2, <2>3
<1>5. ASSUME NEW a \in DOMAIN consultees, a \in b => a \in rows
      PROVE  a \in DOMAIN consultees'
  BY <1>1, <1>5
<1>6. ASSUME NEW a \in DOMAIN consultees'
      PROVE  ReasonsOf(a, consultees'[a], left \ b)
  <2>1. ReasonsOf(a, consultees[a], left)
    BY <1>3, <1>4 DEF AnswerHas
  <2>2. CASE a \notin b
    BY <1>4, <2>1, <2>2 DEF ReasonsOf
  <2>3. CASE a \in b
    <3>1. a \in left /\ Row(a)[Site] # None
      BY <1>3, <1>4, <2>3, NowSeen, RowFacts, RunningIs, ScreeningAssumption
    <3> QED BY <1>4, <2>1, <2>3, <3>1 DEF ReasonsOf
  <2> QED BY <2>2, <2>3
<1>7. ASSUME NEW a \in DOMAIN consultees'
      PROVE  DistanceOf(a, consultees'[a], left \ b)
  <2>1. DistanceOf(a, consultees[a], left)
    BY <1>3, <1>4 DEF AnswerHas
  <2>2. CASE a \notin b
    BY <1>4, <2>1, <2>2 DEF DistanceOf
  <2>3. CASE a \in b
    <3>1. \A r \in RowsSeen(a) : Always(a, r) => Row(a) = r
      BY <1>3, <1>4, NowSeen
    <3>2. around # "box" => Site = "site"
      BY <1>3, RunningIs DEF SeenInv, Site
    <3> QED BY <1>4, <2>3, <3>1, <3>2 DEF DistanceOf
  <2> QED BY <2>2, <2>3
<1>8. ASSUME NEW a \in Areas
      PROVE  HasReasons(a, consultees')
  <2>1. HasReasons(a, consultees)
    BY <1>3 DEF AnswerHas
  <2>2. ASSUME NEW r \in RowsSeen(a), Always(a, r), a \in DOMAIN consultees
        PROVE  /\ a \in DOMAIN consultees'
               /\ consultees'[a].conditions = consultees[a].conditions
               /\ \A radius \in consultees[a].nearby :
                    r.site <= radius + Margin => radius \in consultees'[a].nearby
    <3>1. a \in rows /\ Row(a) = r /\ r \in RowsOf(a)
      BY <1>3, <2>2, NowSeen, RowsOfIs DEF Always
    <3>2. a \in DOMAIN consultees'
      BY <1>5, <2>2, <3>1
    <3>3. /\ r.site \in Nat /\ r[Site] \in Nat /\ r[Site] <= r.site /\ Margin \in Nat
          /\ consultees[a].nearby \subseteq Nat
      BY <1>3, <2>2, <3>1, RowFacts, RunningIs, ScreeningAssumption DEF TypeOK, Consultee
    <3>4. \A radius \in consultees[a].nearby :
            r.site <= radius + Margin => r[Site] <= radius + Margin
      BY <3>3
    <3> QED BY <1>4, <3>1, <3>2, <3>4
  <2> QED BY <2>1, <2>2 DEF HasReasons
<1>9. AnswerHas(consultees', left \ b)
  BY <1>6, <1>7, <1>8 DEF AnswerHas
<1>10. /\ tasks' \in [Search..Measure -> Task] /\ tasks'[Measure].left = left \ b
       /\ \A t \in {Search} \cup Conditions : tasks'[t] = tasks[t]
  <2>1. tasks \in [Search..Measure -> Task] /\ Measure \in Search..Measure
    BY <1>3, TaskNames DEF TypeOK
  <2>2. tasks'[Measure] = [tasks[Measure] EXCEPT !.left = left \ b]
    BY <1>1, <2>1
  <2>3. tasks'[Measure] \in Task /\ tasks'[Measure].left = left \ b
    BY <2>1, <2>2 DEF Task
  <2>4. \A t \in Search..Measure : t # Measure => tasks'[t] = tasks[t]
    BY <1>1, <2>1
  <2>5. DOMAIN tasks' = Search..Measure /\ tasks' = [t \in Search..Measure |-> tasks'[t]]
    BY <1>1, <2>1
  <2>6. tasks' \in [Search..Measure -> Task]
    BY <2>1, <2>3, <2>4, <2>5
  <2> QED BY <2>3, <2>4, <2>6, TaskNames
<1>11. pc' = "done" => left \ b = {}
  BY <1>1
<1>12. TypeOK'
  <2>1. \A a \in DOMAIN consultees' : consultees'[a].distance = None => a \in left \ b
    BY <1>6 DEF ReasonsOf
  <2>2. \A a \in DOMAIN consultees' : a \in Areas /\ consultees'[a] \in Consultee
    BY <1>4
  <2>3. pc' \in {"measure", "done"}
    BY <1>1
  <2> QED BY <1>2, <1>3, <1>10, <1>11, <2>1, <2>2, <2>3 DEF TypeOK
<1>13. SeenInv' /\ PhaseInv'
  <2>1. pc' \in {"measure", "done"}
    BY <1>1
  <2> QED BY <1>2, <1>3, <1>10, <1>11, <2>1, RunningIs
          DEF SeenInv, PhaseInv, Running, Screened, Visible, Rows, Table
<1>14. TaskInv'
  BY <1>2, <1>3, <1>10, SeenAlone DEF TaskInv
<1>15. AnswerInv'
  BY <1>2, <1>9, <1>10, SeenAlone DEF AnswerInv
<1> QED BY <1>12, <1>13, <1>14, <1>15 DEF IInv

------------------------------------------------------------------------------
(* A run begins or fails, and reference data changes *)

LEMMA InitHolds ==
  ASSUME Init
  PROVE  IInv
<1>1. NoTask \in Task
  BY DEF NoTask, Task
<1>2. TypeOK
  BY <1>1, ScreeningAssumption DEF Init, TypeOK
<1>3. SeenInv /\ PhaseInv /\ ~Running
  BY DEF Init, SeenInv, PhaseInv, Running, Screened
<1> QED BY <1>2, <1>3 DEF IInv

LEMMA BeginKeeps ==
  ASSUME IInv, NEW request \in Asked, Begin(request)
  PROVE  IInv'
<1>1. /\ pc = "idle" /\ request.dataset \in Datasets \cup {None}
      /\ pc' = "search" /\ asked' = request /\ seen' = Visible(request.dataset)
      /\ around' \in {"site", "cover", "box"}
      /\ UNCHANGED <<present, inUse, changes, tasks, consultees>>
  BY DEF Begin, world
<1>2. TypeOK /\ tasks = [t \in Search..Measure |-> NoTask] /\ inUse \in Datasets
  BY <1>1 DEF IInv, SeenInv, TypeOK
<1>3. TypeOK'
  BY <1>1, <1>2 DEF TypeOK
<1>4. SeenInv'
  <2>1. Table(request.dataset) \in Datasets
    BY <1>1, <1>2 DEF Table
  <2>2. \A s \in Visible(request.dataset) :
          s[1] \in Areas /\ (s[2] # None => s[2] = RowOf[Table(request.dataset)][s[1]])
    BY DEF Visible
  <2>3. Visible(asked.dataset)' = Visible(request.dataset)
    BY <1>1 DEF Visible, Rows, Table
  <2>4. asked' # None /\ asked' \in Asked
    BY <1>1, ScreeningAssumption
  <2>5. \A s \in seen' : s[1] \in Areas /\ (s[2] # None => \E d \in Datasets : s[2] = RowOf[d][s[1]])
    BY <1>1, <2>1, <2>2
  <2>6. pc' # "idle" /\ asked'.dataset \in Datasets \cup {None} /\ Visible(asked.dataset)' \subseteq seen'
    BY <1>1, <2>3
  <2> QED BY <1>1, <2>4, <2>5, <2>6 DEF SeenInv
<1>5. PhaseInv' /\ ~HasAnswer'
  BY <1>1 DEF PhaseInv, HasAnswer
<1>6. /\ PhaseOf(NoTask)' /\ SearchHas(NoTask)'
      /\ \A i : NearHas(i, NoTask)' /\ BorderHas(i, NoTask)'
  BY DEF NoTask, PhaseOf, SearchHas, NearHas, BorderHas
<1>7. \A t \in {Search} \cup Conditions : tasks'[t] = NoTask
  BY <1>1, <1>2, TaskNames
<1>8. TaskInv'
  BY <1>6, <1>7 DEF TaskInv
<1> QED BY <1>3, <1>4, <1>5, <1>8 DEF IInv, AnswerInv

LEMMA NoAnswerKeeps ==
  ASSUME IInv, Fail \/ \E request \in Asked : RefuseDataset(request)
  PROVE  IInv'
<1>1. /\ pc' \in {"failed", "unknownDataset"} /\ asked' \in {asked} \cup Asked
      /\ UNCHANGED <<present, inUse, changes, around, tasks, consultees, seen>>
  BY DEF Fail, RefuseDataset, world
<1>2. TypeOK'
  BY <1>1 DEF IInv, TypeOK
<1>3. SeenInv' /\ PhaseInv' /\ ~Running'
  BY <1>1 DEF IInv, SeenInv, PhaseInv, Running, Screened
<1> QED BY <1>2, <1>3 DEF IInv

\* What was said of a task or of consultees stays true as more is seen.
LEMMA SeenMore ==
  ASSUME around' = around, seen \subseteq seen', \A a \in Areas : RowsSeen(a) # {},
         NEW answer, DOMAIN answer \subseteq Areas, NEW left
  PROVE  /\ \A task : PhaseOf(task) => PhaseOf(task)'
         /\ \A task : SearchHas(task) => SearchHas(task)'
         /\ \A i, task : NearHas(i, task) => NearHas(i, task)'
         /\ \A i, task : BorderHas(i, task) => BorderHas(i, task)'
         /\ AnswerHas(answer, left) => AnswerHas(answer, left)'
<1>1. /\ Site' = Site
      /\ \A a : RowsSeen(a) \subseteq RowsSeen(a)' /\ RowsOf(a) \subseteq RowsOf(a)'
  BY DEF Site, RowsSeen, RowsOf
<1>2. ASSUME NEW a \in Areas, NEW r, Always(a, r)'
      PROVE  Always(a, r) /\ r \in RowsSeen(a)
  BY <1>1, <1>2 DEF Always
<1>3. \A task : PhaseOf(task) => PhaseOf(task)'
  BY DEF PhaseOf
<1>4. \A m, x : FoundAs(m, x) => FoundAs(m, x)'
  BY <1>1 DEF FoundAs, From
<1>5. \A m, rule : Meets(m, rule)' <=> Meets(m, rule)
  BY DEF Meets, InCategories
<1>6. \A task, a : Finds(task, a)' <=> Finds(task, a)
  BY DEF Finds
<1>7. \A i, h : HostOf(i, h) => HostOf(i, h)'
  BY <1>1 DEF HostOf
<1>8. \A h, a : Beside(h, a)' <=> Beside(h, a)
  BY DEF Beside
<1>9. \A i, a : \A h \in Areas : Hosted(i, h, a)' => Hosted(i, h, a)
  BY <1>2 DEF Hosted
<1>10. \A task : SearchHas(task) => SearchHas(task)'
  <2> TAKE task
  <2> HAVE SearchHas(task)
  <2>1. \A m \in task.found : FoundAs(m, task.left)' /\ m.category \notin Excluded
    BY <1>4 DEF SearchHas
  <2>2. \A m \in task.found : m.approximate => /\ around' = "cover" /\ m.id \notin task.left
                                               /\ \A i \in Conditions : ~Meets(m, Rules[i])
    BY DEF SearchHas
  <2>3. ASSUME task.pc # "waiting", NEW a \in Areas, NEW r, Always(a, r)',
               r.category \notin Excluded, r.site <= SearchRadius + Margin
        PROVE  Finds(task, a)
    BY <1>2, <2>3 DEF SearchHas
  <2> QED BY <1>5, <1>6, <2>1, <2>2, <2>3 DEF SearchHas
<1>11. \A i, task : NearHas(i, task) => NearHas(i, task)'
  <2> TAKE i, task
  <2> HAVE NearHas(i, task)
  <2>1. \A m \in task.found : FoundAs(m, task.left)' /\ ~m.approximate /\ Meets(m, Rules[i])
    BY <1>4 DEF NearHas
  <2>2. ASSUME task.pc # "waiting", NEW a \in Areas, NEW r, Always(a, r)',
               InCategories(Rules[i].categories, r.category), r.site <= Rules[i].buffer + Margin
        PROVE  Finds(task, a)
    BY <1>2, <2>2 DEF NearHas
  <2> QED BY <1>5, <1>6, <2>1, <2>2 DEF NearHas
<1>12. \A i, task : BorderHas(i, task) => BorderHas(i, task)'
  <2> TAKE i, task
  <2> HAVE BorderHas(i, task)
  <2>1. \A h \in task.left : HostOf(i, h)'
    BY <1>7 DEF BorderHas
  <2>2. \A m \in task.found :
          /\ m.distance = None /\ ~m.approximate /\ m.category \in Rules[i].categories
          /\ \E r \in RowsOf(m.id)' : m.category = r.category
          /\ \E h \in Areas : HostOf(i, h)' /\ Beside(h, m.id)
    BY <1>1, <1>7 DEF BorderHas
  <2>3. ASSUME task.pc # "waiting", NEW a \in Areas, NEW h \in Areas, NEW r, Always(a, r)',
               r.category \in Rules[i].categories, Hosted(i, h, a)'
        PROVE  Finds(task, a) \/ h \in task.left
    BY <1>2, <1>9, <2>3 DEF BorderHas
  <2>4. task.pc # "measure" /\ (task.pc = "hosts" /\ around' = "box" => task.found = {})
    BY DEF BorderHas
  <2> QED BY <1>6, <1>8, <2>1, <2>2, <2>3, <2>4 DEF BorderHas
<1>13. AnswerHas(answer, left) => AnswerHas(answer, left)'
  <2> HAVE AnswerHas(answer, left)
  <2>1. ASSUME NEW a \in DOMAIN answer
        PROVE  ReasonsOf(a, answer[a], left)'
    <3>1. ReasonsOf(a, answer[a], left)
      BY DEF AnswerHas
    <3> QED BY <1>1, <1>7, <1>8, <3>1 DEF ReasonsOf
  <2>2. ASSUME NEW a \in DOMAIN answer
        PROVE  DistanceOf(a, answer[a], left)'
    <3>1. DistanceOf(a, answer[a], left) /\ a \in Areas
      BY DEF AnswerHas
    <3> QED BY <1>2, <3>1 DEF DistanceOf
  <2>3. ASSUME NEW a \in Areas
        PROVE  HasReasons(a, answer)'
    <3>1. HasReasons(a, answer)
      BY DEF AnswerHas
    <3> QED BY <1>2, <1>9, <3>1 DEF HasReasons
  <2> QED BY <2>1, <2>2, <2>3 DEF AnswerHas
<1> QED BY <1>3, <1>10, <1>11, <1>12, <1>13

LEMMA ReloadKeeps ==
  ASSUME IInv, Reload
  PROVE  IInv'
<1>1. /\ Screened /\ changes < MaxChanges
      /\ LoadRows \/ Switch
      /\ changes' = changes + 1 /\ UNCHANGED <<pc, asked, around, tasks, consultees>>
      /\ seen' = seen \cup Visible(asked.dataset)'
  BY DEF Reload
<1>2. TypeOK /\ SeenInv /\ TaskInv /\ PhaseInv /\ AnswerInv
  BY <1>1, TasksAre, RunningIs DEF IInv
<1>3. present' \in [Datasets -> SUBSET Areas] /\ inUse' \in Datasets
  <2>1. CASE LoadRows
    BY <1>2, <2>1 DEF LoadRows, LoadStatement, TypeOK
  <2>2. CASE Switch
    BY <1>2, <2>2 DEF Switch, TypeOK
  <2> QED BY <1>1, <2>1, <2>2
<1>4. TypeOK'
  BY <1>1, <1>2, <1>3, ScreeningAssumption DEF TypeOK
<1>5. SeenInv'
  <2>1. asked.dataset \in Datasets \cup {None} /\ pc # "idle"
    BY <1>1, <1>2, RunningIs DEF SeenInv
  <2>2. Table(asked.dataset)' \in Datasets
    BY <1>1, <1>3, <2>1 DEF Table
  <2>3. \A s \in Visible(asked.dataset)' :
          s[1] \in Areas /\ (s[2] # None => s[2] = RowOf[Table(asked.dataset)'][s[1]])
    BY <1>1 DEF Visible
  <2>4. \A s \in seen' : s[1] \in Areas /\ (s[2] # None => \E d \in Datasets : s[2] = RowOf[d][s[1]])
    BY <1>1, <1>2, <2>2, <2>3, RunningIs DEF SeenInv
  <2>5. Visible(asked.dataset)' \subseteq seen'
    BY <1>1
  <2> QED BY <1>1, <1>2, <2>4, <2>5, RunningIs DEF SeenInv, Running, Screened
<1>6. \A a \in Areas : RowsSeen(a) # {}
  <2> TAKE a \in Areas
  <2> DEFINE row == IF a \in Rows(asked.dataset) THEN RowOf[Table(asked.dataset)][a] ELSE None
  <2>1. <<a, row>> \in Visible(asked.dataset)
    BY DEF Visible
  <2> HIDE DEF row
  <2>2. <<a, row>> \in seen
    BY <1>1, <1>2, <2>1 DEF SeenInv
  <2> QED BY <2>2 DEF RowsSeen
<1>7. DOMAIN consultees \subseteq Areas
  BY <1>2 DEF TypeOK
<1>8. TaskInv'
  BY <1>1, <1>2, <1>6, <1>7, SeenMore DEF TaskInv
<1>9. AnswerInv'
  <2> DEFINE left == tasks[Measure].left
  <2>1. AnswerHas(consultees, left) => AnswerHas(consultees, left)'
    <3>1. \A answer, some : DOMAIN answer \subseteq Areas /\ AnswerHas(answer, some)
                            => AnswerHas(answer, some)'
      BY <1>1, <1>6, SeenMore
    <3> QED BY <1>1, <1>7, <3>1
  <2> QED BY <1>1, <1>2, <2>1 DEF AnswerInv, HasAnswer
<1> QED BY <1>1, <1>2, <1>4, <1>5, <1>8, <1>9 DEF IInv, PhaseInv

LEMMA Inductive ==
  ASSUME IInv, [Next]_vars
  PROVE  IInv'
<1>1. ASSUME NEW request \in Asked, Begin(request) \/ RefuseDataset(request)
      PROVE  IInv'
  BY <1>1, BeginKeeps, NoAnswerKeeps
<1>2. CASE SearchNearby
  BY <1>2, SearchNearbyKeeps
<1>3. CASE MeasureNearby
  BY <1>3, MeasureNearbyKeeps
<1>4. CASE StartConditions
  BY <1>4, StartConditionsKeeps
<1>5. ASSUME NEW i \in Conditions,
             Near(i) \/ MeasureNear(i) \/ Hosts(i) \/ NeighboursOfHost(i) \/ NeighboursInBox(i)
      PROVE  IInv'
  BY <1>5, NearKeeps, MeasureNearKeeps, HostsKeeps, NeighboursOfHostKeeps, NeighboursInBoxKeeps
<1>6. CASE Combine
  BY <1>6, CombineKeeps
<1>7. CASE MeasureUnmeasured
  BY <1>7, MeasureUnmeasuredKeeps
<1>8. CASE Fail
  BY <1>8, NoAnswerKeeps
<1>9. CASE Reload
  BY <1>9, ReloadKeeps
<1>10. CASE UNCHANGED vars
  <2>1. UNCHANGED <<present, inUse, changes, pc, asked, around, tasks, consultees, seen>>
    BY <1>10 DEF vars
  <2>2. TypeOK'
    BY <2>1 DEF IInv, TypeOK
  <2>3. SeenInv' /\ PhaseInv'
    BY <2>1 DEF IInv, SeenInv, PhaseInv, Running, Screened, Visible, Rows, Table
  <2>4. Running' => TaskInv' /\ AnswerInv'
    BY <2>1, SeenAlone DEF IInv, Running, Screened, TaskInv, AnswerInv, HasAnswer
  <2> QED BY <2>2, <2>3, <2>4 DEF IInv
<1> QED BY <1>1, <1>2, <1>3, <1>4, <1>5, <1>6, <1>7, <1>8, <1>9, <1>10 DEF Next, Query

LEMMA Invariant == Spec => []IInv
<1>1. Init => IInv
  BY InitHolds
<1>2. IInv /\ [Next]_vars => IInv'
  BY Inductive
<1> QED BY <1>1, <1>2, PTL DEF Spec

------------------------------------------------------------------------------
(* What a run promises *)

\* Every variable of a run has a value of its kind, and no consultee of an answer
\* is without a distance (_combine's min, _measure_unmeasured).
THEOREM TypeCorrect == Spec => []TypeOK
<1>1. IInv => TypeOK
  BY DEF IInv
<1> QED BY <1>1, Invariant, PTL

\* At the end everything that is to be measured has been.
LEMMA AtTheEnd ==
  ASSUME IInv, pc = "done"
  PROVE  /\ TypeOK /\ SeenInv /\ Running /\ AnswerHas(consultees, {})
         /\ \A a : Stable(a) => /\ StableRow(a) \in RowsSeen(a) /\ StableRow(a) \in RowsOf(a)
                                /\ Always(a, StableRow(a))
<1>1. TypeOK /\ SeenInv /\ Running /\ AnswerHas(consultees, {})
  BY DEF IInv, PhaseInv, Running, AnswerInv, HasAnswer
<1>2. ASSUME NEW a, Stable(a)
      PROVE  /\ StableRow(a) \in RowsSeen(a) /\ StableRow(a) \in RowsOf(a)
             /\ Always(a, StableRow(a))
  <2>1. PICK r \in RowsSeen(a) : r # None /\ RowsSeen(a) = {r}
    BY <1>2 DEF Stable
  <2>2. StableRow(a) \in RowsSeen(a)
    BY <2>1 DEF StableRow
  <2> QED BY <2>1, <2>2, RowsOfIs DEF Always
<1> QED BY <1>1, <1>2

\* "Consulting one body too many is acceptable; missing one isn't": screen_consultees
\* lists an area that stays as it is for every condition it meets, and as nearby.
THEOREM StableAreasAreFound == Spec => []StableIsFound
<1>1. ASSUME IInv
      PROVE  StableIsFound
  <2>1. SUFFICES ASSUME pc = "done", NEW a \in StableAreas
                 PROVE  /\ \A i \in Conditions : Identifies(Rules[i], a) =>
                             a \in DOMAIN consultees /\ i \in consultees[a].conditions
                        /\ IsNear(a) => a \in DOMAIN consultees /\ consultees[a].nearby # {}
    BY DEF StableIsFound
  <2> DEFINE r == StableRow(a)
  <2>2. a \in Areas /\ r \in RowsSeen(a) /\ Always(a, r) /\ HasReasons(a, consultees)
    BY <1>1, <2>1, AtTheEnd DEF StableAreas, AnswerHas
  <2> HIDE DEF r
  <2>3. ASSUME NEW i \in Conditions, Identifies(Rules[i], a)
        PROVE  a \in DOMAIN consultees /\ i \in consultees[a].conditions
    <3>1. CASE Rules[i].logic = "intersection"
      BY <2>2, <2>3, <3>1 DEF HasReasons, Identifies, r
    <3>2. CASE Rules[i].logic # "intersection"
      <4>1. r.category \in Rules[i].categories
        BY <2>3, <3>2, ScreeningAssumption DEF Identifies, InCategories, Conditions, r
      <4>2. PICK h \in StableAreas :
              /\ <<h, a>> \in Borders /\ h # a
              /\ StableRow(h).category = Rules[i].host /\ StableRow(h).site <= Margin
        BY <2>3, <3>2 DEF Identifies
      <4>3. h \in Areas /\ StableRow(h) \in RowsSeen(h) /\ Always(h, StableRow(h))
        BY <1>1, <2>1, AtTheEnd DEF StableAreas
      <4>4. Hosted(i, h, a)
        BY <4>2, <4>3 DEF Hosted
      <4> QED BY <2>2, <3>2, <4>1, <4>3, <4>4 DEF HasReasons
    <3> QED BY <3>1, <3>2
  <2>4. ASSUME IsNear(a)
        PROVE  a \in DOMAIN consultees /\ consultees[a].nearby # {}
    BY <2>2, <2>4 DEF HasReasons, IsNear, r
  <2> QED BY <2>3, <2>4
<1> QED BY <1>1, Invariant, PTL

\* "The consultees a condition identifies, and their distances, are exactly the
\* outline's": around the site or a covering outline, an area that stays as it is
\* is identified by no intersection condition it does not meet.
THEOREM OutlineIsExact == Spec => []ExactlyTheOutlines
<1>1. ASSUME IInv
      PROVE  ExactlyTheOutlines
  <2>1. SUFFICES ASSUME pc = "done", around # "box", NEW a \in StableAreas \cap DOMAIN consultees
                 PROVE  /\ \A i \in consultees[a].conditions :
                             Rules[i].logic = "intersection" => Identifies(Rules[i], a)
                        /\ consultees[a].conditions # {} \/ around = "site" =>
                             /\ consultees[a].distance = StableRow(a).site
                             /\ consultees[a].nearby # {} => IsNear(a)
    BY DEF ExactlyTheOutlines
  <2> DEFINE r == StableRow(a)
  <2>2. /\ a \in Areas /\ r \in RowsSeen(a) /\ Always(a, r) /\ r \in RowsOf(a)
        /\ ReasonsOf(a, consultees[a], {}) /\ DistanceOf(a, consultees[a], {})
    BY <1>1, <2>1, AtTheEnd DEF StableAreas, AnswerHas
  <2> HIDE DEF r
  <2>3. \A q \in RowsOf(a) : q = r
    BY <2>2, RowsOfIs DEF Always
  <2>4. Site = "site"
    BY <1>1, <2>1, AtTheEnd DEF SeenInv, Site
  <2>5. ASSUME NEW i \in consultees[a].conditions, Rules[i].logic = "intersection"
        PROVE  Identifies(Rules[i], a)
    BY <2>2, <2>3, <2>4, <2>5 DEF ReasonsOf, Identifies, r
  <2>6. ASSUME consultees[a].conditions # {} \/ around = "site"
        PROVE  /\ consultees[a].distance = r.site
               /\ \A radius \in consultees[a].nearby : r.site <= radius + Margin
    BY <2>1, <2>2, <2>6 DEF DistanceOf
  <2>7. ASSUME consultees[a].conditions # {} \/ around = "site", consultees[a].nearby # {}
        PROVE  IsNear(a)
    <3>1. PICK radius \in consultees[a].nearby : TRUE
      BY <2>7
    <3>2. RadiusOf(r.category) = radius /\ r.category \notin Excluded /\ radius > 0
      BY <2>2, <2>3, <3>1 DEF ReasonsOf
    <3> QED BY <2>6, <2>7, <3>1, <3>2 DEF IsNear, r
  <2> QED BY <2>5, <2>6, <2>7 DEF r
<1> QED BY <1>1, Invariant, PTL

\* Nobody is told of a consultee for a reason the data never gave: each rests on
\* rows there were while screen_consultees ran.
THEOREM ReasonsWereSeen == Spec => []ReasonsSeen
<1>1. ASSUME IInv
      PROVE  ReasonsSeen
  <2>1. SUFFICES ASSUME pc = "done", NEW a \in DOMAIN consultees
                 PROVE  /\ \A i \in consultees[a].conditions :
                             /\ \E r \in RowsOf(a) : InCategories(Rules[i].categories, r.category)
                             /\ IF Rules[i].logic = "intersection"
                                THEN \E r \in RowsOf(a) : r[Site] <= Rules[i].buffer + Margin
                                ELSE \E h \in Areas : \E r \in RowsOf(h) :
                                       /\ r.category = Rules[i].host /\ r[Site] <= Margin
                                       /\ around # "box" => h # a /\ <<h, a>> \in Borders
                        /\ \A radius \in consultees[a].nearby :
                             \E r \in RowsOf(a), s \in RowsOf(a) :
                               /\ RadiusOf(r.category) = radius /\ r.category \notin Excluded
                               /\ s[around] <= radius + Margin
                        /\ consultees[a].conditions # {} \/ consultees[a].nearby # {}
    BY DEF ReasonsSeen, RowsOf
  <2>2. ReasonsOf(a, consultees[a], {})
    BY <1>1, <2>1, AtTheEnd DEF AnswerHas
  <2>3. \A i \in consultees[a].conditions :
          /\ \E r \in RowsOf(a) : InCategories(Rules[i].categories, r.category)
          /\ Rules[i].logic = "intersection" =>
               \E r \in RowsOf(a) : r[Site] <= Rules[i].buffer + Margin
          /\ Rules[i].logic # "intersection" =>
               \E h \in Areas : \E r \in RowsOf(h) :
                 /\ r.category = Rules[i].host /\ r[Site] <= Margin
                 /\ around # "box" => h # a /\ <<h, a>> \in Borders
    BY <2>2 DEF ReasonsOf, HostOf, Beside
  <2>4. \A radius \in consultees[a].nearby :
          \E r \in RowsOf(a), s \in RowsOf(a) :
            /\ RadiusOf(r.category) = radius /\ r.category \notin Excluded
            /\ s[around] <= radius + Margin
    BY <2>2 DEF ReasonsOf
  <2>5. consultees[a].conditions # {} \/ consultees[a].nearby # {}
    BY <2>2 DEF ReasonsOf
  <2> QED BY <2>3, <2>4, <2>5
<1> QED BY <1>1, Invariant, PTL

-----------------------------------------------------------------------------
(* The time a run takes. NeverOutlivesTheRequest compares two clocks, the  *)
(* app's from when it asked and the function's from when it began; TimeInv *)
(* says how far each has got. ClosedWhenQuiet rests on whose turn it is:   *)
(* StageInv says which queries may be on the database at each point.       *)

QueryStates == {"waiting", "running", "backoff", "done"} \cup Bad \cup {"cancelled"}

RunTypeInv ==
  /\ now \in Nat /\ began \in 0 .. now
  /\ fn \in {"queued"} \cup FnRunning \cup Ended
  /\ query \in [Queries -> QueryStates]

\* The app gives up at its timeout, and a query is stopped soon after the function's.
TimeInv ==
  /\ app = "gaveUp" => now >= AppTimeout
  /\ \A q \in Queries : Busy(q) => now <= Deadline + Overrun

\* Before its turn a query waits, and after it no thread is busy with it. Once the
\* pool is stopping, none of its queries is still to be taken.
StageInv ==
  /\ fn = "queued" => query[SearchQuery] = "waiting"
  /\ fn \in {"queued", "search"} => \A q \in InPool : query[q] = "waiting"
  /\ fn \in {"queued", "search", "pool", "stopping"} => query[MeasureQuery] = "waiting"
  /\ fn \in {"pool", "stopping", "measure"} => ~Busy(SearchQuery)
  /\ fn = "stopping" => \A q \in InPool : query[q] # "waiting"
  /\ fn = "measure" => \A q \in InPool : ~Busy(q)
  /\ ClosedWhenQuiet

DeadlineInv == RunTypeInv /\ TimeInv /\ StageInv

\* The queries are the search, the pool's and the measurement, and no two are one.
LEMMA QueriesByTurn ==
  /\ Queries = {SearchQuery} \cup InPool \cup {MeasureQuery}
  /\ SearchQuery \notin InPool /\ MeasureQuery \notin InPool /\ SearchQuery # MeasureQuery
BY RunAssumption, SMT DEF Queries, SearchQuery, InPool, MeasureQuery

LEMMA DeadlineBegins ==
  ASSUME DeadlineInit
  PROVE  DeadlineInv
<1>1. \A q \in Queries : query[q] = "waiting" /\ ~Busy(q)
  BY DEF DeadlineInit, Busy
<1>2. RunTypeInv
  BY DEF DeadlineInit, RunTypeInv, QueryStates
<1>3. TimeInv
  BY <1>1 DEF DeadlineInit, TimeInv
<1>4. StageInv
  BY <1>1, QueriesByTurn DEF DeadlineInit, StageInv, ClosedWhenQuiet, Ended
<1> QED BY <1>2, <1>3, <1>4 DEF DeadlineInv

\* A step of one query leaves the others as they are, and puts it on the database only
\* if it was there, or at its turn and with time left.
LEMMA QueryStepIs ==
  ASSUME DeadlineInv, NEW q \in Queries, QueryStep(q)
  PROVE  /\ UNCHANGED <<now, app, fn, began>>
         /\ query' \in [Queries -> QueryStates]
         /\ \A p \in Queries \ {q} : query'[p] = query[p]
         /\ query'[q] # "waiting"
         /\ Busy(q) \/ (query[q] = "waiting" /\ Turn(q))
         /\ Busy(q)' => Busy(q) \/ ~Late
<1> USE DEF DeadlineInv, RunTypeInv
<1>1. CASE Attempt(q)
  BY <1>1 DEF Attempt, Busy, QueryStates, Bad
<1>2. CASE Answered(q)
  BY <1>2 DEF Answered, Busy, QueryStates, Bad
<1>3. CASE Deadlocked(q)
  BY <1>3 DEF Deadlocked, Busy, QueryStates, Bad
<1>4. CASE Fails(q)
  BY <1>4 DEF Fails, Busy, QueryStates, Bad
<1> QED BY <1>1, <1>2, <1>3, <1>4 DEF QueryStep

LEMMA QueryStepKeeps ==
  ASSUME DeadlineInv, NEW q \in Queries, QueryStep(q)
  PROVE  DeadlineInv'
<1>1. RunTypeInv'
  BY QueryStepIs DEF DeadlineInv, RunTypeInv
<1>2. TimeInv'
  <2>1. ASSUME NEW p \in Queries, Busy(p)' PROVE (now <= Deadline + Overrun)'
    <3>1. CASE p = q /\ ~Busy(q)
      BY RunAssumption, <2>1, <3>1, QueryStepIs
        DEF DeadlineInv, RunTypeInv, Late, Deadline, TimeoutSeconds
    <3>2. CASE p # q \/ Busy(q)
      <4>1. Busy(p)
        BY <2>1, <3>2, QueryStepIs DEF Busy
      <4> QED BY <4>1, QueryStepIs DEF DeadlineInv, TimeInv, Deadline
    <3> QED BY <3>1, <3>2
  <2> QED BY <2>1, QueryStepIs DEF DeadlineInv, TimeInv
<1>3. StageInv'
  <2>1. CASE q = SearchQuery
    <3>1. fn = "search"
      BY <2>1, QueryStepIs, QueriesByTurn
        DEF DeadlineInv, RunTypeInv, StageInv, ClosedWhenQuiet, Turn, FnRunning, Busy
    <3> QED BY <2>1, <3>1, QueryStepIs, QueriesByTurn DEF DeadlineInv, StageInv, ClosedWhenQuiet, Ended
  <2>2. CASE q \in InPool
    <3>1. fn \in {"pool", "stopping"}
      BY <2>2, QueryStepIs, QueriesByTurn
        DEF DeadlineInv, RunTypeInv, StageInv, ClosedWhenQuiet, Turn, FnRunning, Busy
    <3> QED BY <2>2, <3>1, QueryStepIs, QueriesByTurn
          DEF DeadlineInv, StageInv, ClosedWhenQuiet, Ended, Busy
  <2>3. CASE q = MeasureQuery
    <3>1. fn = "measure"
      BY <2>3, QueryStepIs, QueriesByTurn
        DEF DeadlineInv, RunTypeInv, StageInv, ClosedWhenQuiet, Turn, FnRunning, Busy
    <3> QED BY <2>3, <3>1, QueryStepIs, QueriesByTurn
          DEF DeadlineInv, StageInv, ClosedWhenQuiet, Ended, Busy
  <2> QED BY <2>1, <2>2, <2>3, QueriesByTurn
<1> QED BY <1>1, <1>2, <1>3 DEF DeadlineInv

\* The function's time starts later, and so ends later.
LEMMA FnBeginKeeps ==
  ASSUME DeadlineInv, BeginRun
  PROVE  DeadlineInv'
<1>1. RunTypeInv'
  BY DEF BeginRun, DeadlineInv, RunTypeInv, FnRunning
<1>2. TimeInv'
  BY RunAssumption DEF BeginRun, DeadlineInv, RunTypeInv, TimeInv, Deadline, TimeoutSeconds, Busy
<1>3. StageInv'
  BY DEF BeginRun, DeadlineInv, StageInv, ClosedWhenQuiet, Ended
<1> QED BY <1>1, <1>2, <1>3 DEF DeadlineInv

\* A run goes on, or ends, only when what it waited for has left the database.
LEMMA RunStepKeeps ==
  ASSUME DeadlineInv, RunStep
  PROVE  DeadlineInv'
<1> DEFINE Quiet(q) == query[q] \in Bad \cup {"done", "waiting"}
<1>0. \A q \in Queries : Quiet(q) => ~Busy(q)
  BY DEF Bad, Busy
<1>1. \A q : EndedBy(q) \in Ended
  BY DEF EndedBy, Ended
<1>2. UNCHANGED <<now, app, began>> /\ fn \in FnRunning
      /\ fn' \in FnRunning \cup Ended
  BY <1>1 DEF RunStep, Searched, PoolMeetsFailure, PoolStops, PoolDone, Measured, FnRunning, Ended
<1>3. query' \in [Queries -> QueryStates] /\ \A q \in Queries : Busy(q)' => Busy(q)
  <2>1. CASE PoolMeetsFailure
    BY <2>1 DEF PoolMeetsFailure, DeadlineInv, RunTypeInv, QueryStates, Busy
  <2>2. CASE ~PoolMeetsFailure
    BY <2>2 DEF RunStep, Searched, PoolStops, PoolDone, Measured, DeadlineInv, RunTypeInv, Busy
  <2> QED BY <2>1, <2>2
<1>4. RunTypeInv'
  BY <1>2, <1>3 DEF DeadlineInv, RunTypeInv
<1>5. TimeInv'
  BY <1>2, <1>3 DEF DeadlineInv, TimeInv, Deadline
<1>6. StageInv'
  <2>1. CASE Searched
    BY <2>1, <1>0, <1>1, QueriesByTurn DEF Searched, DeadlineInv, StageInv, ClosedWhenQuiet, Busy, Ended
  <2>2. CASE PoolMeetsFailure
    BY <2>2, QueriesByTurn DEF PoolMeetsFailure, DeadlineInv, StageInv, ClosedWhenQuiet, Busy, Ended
  <2>3. CASE PoolStops
    BY <2>3, <1>1, QueriesByTurn DEF PoolStops, DeadlineInv, StageInv, ClosedWhenQuiet, Busy, Ended
  <2>4. CASE PoolDone
    BY <2>4, QueriesByTurn DEF PoolDone, DeadlineInv, StageInv, ClosedWhenQuiet, Busy, Ended
  <2>5. CASE Measured
    BY <2>5, <1>0, <1>1, QueriesByTurn DEF Measured, DeadlineInv, StageInv, ClosedWhenQuiet, Busy, Ended
  <2> QED BY <2>1, <2>2, <2>3, <2>4, <2>5 DEF RunStep
<1> QED BY <1>4, <1>5, <1>6 DEF DeadlineInv

LEMMA AppStepKeeps ==
  ASSUME DeadlineInv, AppStep
  PROVE  DeadlineInv'
BY DEF AppStep, AppAnswered, AppGivesUp, DeadlineInv, RunTypeInv, TimeInv, StageInv, ClosedWhenQuiet,
       Busy, Deadline

\* Time passes a query's end only once it has ended.
LEMMA TickKeeps ==
  ASSUME DeadlineInv, Tick
  PROVE  DeadlineInv'
<1>1. RunTypeInv'
  BY DEF Tick, DeadlineInv, RunTypeInv
<1>2. TimeInv'
  <2>1. ASSUME NEW q \in Queries, Busy(q)' PROVE (now <= Deadline + Overrun)'
    BY RunAssumption, <2>1 DEF Tick, DeadlineInv, RunTypeInv, Deadline, TimeoutSeconds, Busy
  <2>2. app' = "gaveUp" => now' >= AppTimeout
    BY RunAssumption DEF Tick, DeadlineInv, TimeInv, RunTypeInv
  <2> QED BY <2>1, <2>2 DEF TimeInv
<1>3. StageInv'
  BY DEF Tick, DeadlineInv, StageInv, ClosedWhenQuiet, Busy
<1> QED BY <1>1, <1>2, <1>3 DEF DeadlineInv

LEMMA DeadlineKept ==
  ASSUME DeadlineInv, [DeadlineNext]_runVars
  PROVE  DeadlineInv'
<1>1. CASE UNCHANGED runVars
  BY <1>1 DEF runVars, DeadlineInv, RunTypeInv, TimeInv, StageInv, ClosedWhenQuiet, Busy, Deadline
<1> QED BY <1>1, FnBeginKeeps, QueryStepKeeps, RunStepKeeps, AppStepKeeps, TickKeeps DEF DeadlineNext

\* A query on the database when the app gives up would have begun too late.
LEMMA InTime ==
  ASSUME DeadlineInv
  PROVE  NeverOutlivesTheRequest
BY RunAssumption DEF DeadlineInv, RunTypeInv, TimeInv, NeverOutlivesTheRequest, Deadline, TimeoutSeconds

\* When the app gives up on a run that did not wait longer than the time to spare, no query
\* of it is on the database (ruleset-runner.ts's FUNCTION_STOPS_EARLIER_MS).
THEOREM QueriesEndInTime ==
  DeadlineSpec => []NeverOutlivesTheRequest
<1>1. DeadlineInit => DeadlineInv
  BY DeadlineBegins
<1>2. DeadlineInv /\ [DeadlineNext]_runVars => DeadlineInv'
  BY DeadlineKept
<1>3. DeadlineInv => NeverOutlivesTheRequest
  BY InTime
<1> QED BY <1>1, <1>2, <1>3, PTL DEF DeadlineSpec

\* A run has ended, and its connections are closed, only when no thread uses one
\* (intersector/database.py, run_ruleset's pool).
THEOREM ConnectionsCloseQuietly ==
  DeadlineSpec => []ClosedWhenQuiet
<1>1. DeadlineInit => DeadlineInv
  BY DeadlineBegins
<1>2. DeadlineInv /\ [DeadlineNext]_runVars => DeadlineInv'
  BY DeadlineKept
<1>3. DeadlineInv => ClosedWhenQuiet
  BY DEF DeadlineInv, StageInv
<1> QED BY <1>1, <1>2, <1>3, PTL DEF DeadlineSpec

=============================================================================

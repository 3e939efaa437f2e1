--------------------------------- MODULE MapsProofs ---------------------------------
(***************************************************************************)
(* Two theorems about the maps.                                            *)
(*                                                                         *)
(* Of StaticImages, for all lifetimes, tiles and bounds: what is shown is  *)
(* never older than the browser keeps an image, and the session a run.     *)
(* ShownIsRecent is not inductive: it says nothing of what may be shown    *)
(* next. IInv adds how old the browser's copy was when it was last known   *)
(* good (CopyInv) and the run that the session keeps when it was made      *)
(* (RunInv). A boundary page's image is of the files of its time: no run   *)
(* makes it older than that (Behind).                                                               *)
(*                                                                         *)
(* Of CaseMap, for all consultees, categories, files and styles: the       *)
(* interactive map, its panel and the image show the same. Most of it is   *)
(* about the lists a page makes, of sorted consultees, layers and files:   *)
(* OneAtEach says that of a strict order just one member has each number   *)
(* of others before it, and OrderedIs that the list of them by that number *)
(* has each once. MapsInv is what a visit changes: a row's layer is hidden *)
(* while the row is unticked, and an image is of some list of files.       *)
(***************************************************************************)
EXTENDS StaticImages, CaseMap, FiniteSetTheorems, FunctionTheorems, SequenceTheorems, TLAPS

-----------------------------------------------------------------------------
(* The image on the page *)


IsImage(i) ==
  /\ i.run \in 0 .. version
  /\ i.areas \in (0 .. version) \cup {NotDrawn}

\* How far an image may be behind the data when it is drawn.
Behind == IF imageOf = "category" THEN RunMaxAge ELSE 0

\* The time there is, and that the versions' times are not in the future.
TimeInv ==
  /\ imageOf \in {"category", "boundary"}
  /\ version \in Nat /\ clock \in Nat /\ drawnWithout \in Int
  /\ \A v \in 1 .. version : reloadedAt[v] \in 0 .. clock

\* A run was of the reference data of its time.
RunInv ==
  keptRun # NoRunKept =>
    /\ keptRun.version \in 0 .. version /\ keptRun.ranAt \in 0 .. clock
    /\ keptRun.version < version => reloadedAt[keptRun.version + 1] >= keptRun.ranAt

\* A copy was last good with a run not yet too old and the areas of its time, and is
\* told from others by its tag.
CopyInv ==
  browserCopy # NoImage =>
    LET i == browserCopy.image
        at == browserCopy.at
    IN /\ IsImage(i) /\ at \in 0 .. clock
       /\ browserCopy = [image |-> i, etag |-> <<i.run, i.areas>>, at |-> at]
       /\ i.run < version => at - reloadedAt[i.run + 1] <= Behind
       /\ i.areas # NotDrawn /\ i.areas < version => reloadedAt[i.areas + 1] >= at
       /\ i.areas = NotDrawn => imageOf = "category" /\ drawnWithout >= at

IInv == TimeInv /\ RunInv /\ CopyInv /\ (shown # NoImage => IsImage(shown)) /\ ShownIsRecent

LEMMA InitHolds == ImagesInit => IInv
BY ImagesAssumption DEF ImagesInit, IInv, TimeInv, RunInv, CopyInv, ShownIsRecent

LEMMA TickKeeps == IInv /\ Tick => IInv'
BY ImagesAssumption DEF Tick, IInv, TimeInv, RunInv, CopyInv, IsImage, ShownIsRecent, Behind

\* What is replaced now was good until now.
LEMMA ReloadKeeps == IInv /\ ReloadData => IInv'
<1> SUFFICES ASSUME IInv, ReloadData PROVE IInv'
  OBVIOUS
<1> USE ImagesAssumption DEF ReloadData, IInv, TimeInv, IsImage
<1>1. /\ version \in Nat /\ version' = version + 1 /\ clock \in Nat /\ clock' = clock
      /\ \A v \in 1 .. version : reloadedAt'[v] = reloadedAt[v]
      /\ reloadedAt'[version + 1] = clock
  OBVIOUS
<1>2. TimeInv'
  BY <1>1
<1>3. RunInv'
  BY <1>1 DEF RunInv
<1>4. CopyInv'
  <2>1. UNCHANGED <<browserCopy, drawnWithout, imageOf>> /\ Behind' = Behind /\ Behind \in Nat
    BY DEF Behind
  <2>2. SUFFICES ASSUME browserCopy # NoImage PROVE CopyInv'
    BY <2>1 DEF CopyInv
  <2> DEFINE i == browserCopy.image
             at == browserCopy.at
  <2>3. /\ IsImage(i) /\ at \in 0 .. clock
        /\ browserCopy = [image |-> i, etag |-> <<i.run, i.areas>>, at |-> at]
        /\ i.run < version => at - reloadedAt[i.run + 1] <= Behind
        /\ i.areas # NotDrawn /\ i.areas < version => reloadedAt[i.areas + 1] >= at
        /\ i.areas = NotDrawn => imageOf = "category" /\ drawnWithout >= at
    BY <2>2 DEF CopyInv
  <2> HIDE DEF i, at
  <2>4. /\ i.run < version + 1 => at - reloadedAt'[i.run + 1] <= Behind
        /\ i.areas # NotDrawn /\ i.areas < version + 1 => reloadedAt'[i.areas + 1] >= at
    BY <1>1, <2>1, <2>3
  <2>5. i.run \in 0 .. version' /\ i.areas \in (0 .. version') \cup {NotDrawn}
    BY <1>1, <2>3
  <2> QED
    BY <1>1, <2>1, <2>3, <2>4, <2>5 DEF CopyInv, i, at
<1>5. (shown # NoImage => IsImage(shown))' /\ ShownIsRecent'
  BY <1>1 DEF ShownIsRecent
<1> QED
  BY <1>2, <1>3, <1>4, <1>5

LEMMA OwnCopyKeeps == IInv /\ ShowOwnCopy => IInv'
BY ImagesAssumption
   DEF ShowOwnCopy, Fresh, IInv, TimeInv, RunInv, CopyInv, IsImage, ShownIsRecent, Behind

\* A run that is used is of data replaced less than a run's age ago, if at all.
LEMMA RunIsRecent ==
  ASSUME IInv, NEW run \in {storedRun, NewRun} \ {NoRunKept},
         runRulesetSafely(run)
  PROVE  /\ run.version \in 0 .. version /\ run.ranAt \in 0 .. clock
         /\ run.version < version =>
              /\ reloadedAt[run.version + 1] >= run.ranAt
              /\ clock - reloadedAt[run.version + 1] <= Behind
<1>1. CASE imageOf = "category" /\ storedRun # NoRunKept
  BY <1>1, ImagesAssumption DEF storedRun, runRulesetSafely, IInv, TimeInv, RunInv, Behind
<1>2. CASE ~(imageOf = "category" /\ storedRun # NoRunKept)
  <2>1. run = NewRun
    BY <1>2 DEF runRulesetSafely
  <2> QED
    BY <2>1 DEF IInv, TimeInv, NewRun
<1> QED
  BY <1>1, <1>2

\* However an image came to be the copy that is shown, it is as good as one drawn now.
LEMMA ShownNowKeeps ==
  ASSUME IInv, NEW run \in {storedRun, NewRun} \ {NoRunKept},
         NEW areas \in buildSearchAreaSafely, runRulesetSafely(run),
         NEW image, image.run = run.version, image.areas = areas,
         UNCHANGED <<version, reloadedAt, clock>>, keptRun' \in {run, keptRun},
         UNCHANGED imageOf,
         drawnWithout' = (IF areas = NotDrawn THEN clock ELSE drawnWithout), shown' = image,
         browserCopy' = [image |-> image, etag |-> <<run.version, areas>>, at |-> clock]
  PROVE  IInv'
<1>1. /\ run.version \in 0 .. version /\ run.ranAt \in 0 .. clock
      /\ run.version < version =>
           /\ reloadedAt[run.version + 1] >= run.ranAt
           /\ clock - reloadedAt[run.version + 1] <= Behind
  BY RunIsRecent
<1>2. /\ areas \in {version, NotDrawn} /\ version \in Nat /\ clock \in Nat
      /\ areas = NotDrawn => imageOf = "category"
  BY ImagesAssumption DEF buildSearchAreaSafely, IInv, TimeInv
<1> Behind' = Behind /\ Behind \in Nat
  BY ImagesAssumption DEF Behind
<1>3. IsImage(image)' /\ TimeInv' /\ RunInv'
  BY <1>1, <1>2 DEF IInv, TimeInv, RunInv, IsImage
<1>4. CopyInv'
  BY <1>1, <1>2, <1>3 DEF CopyInv
<1>5. ShownIsRecent'
  BY <1>1, <1>2, ImagesAssumption DEF ShownIsRecent, IInv, TimeInv, Behind
<1> QED
  BY <1>3, <1>4, <1>5 DEF IInv

LEMMA NotModifiedKeeps == IInv /\ NotModified => IInv'
<1> SUFFICES ASSUME IInv, NotModified PROVE IInv'
  OBVIOUS
<1>1. PICK run \in {storedRun, NewRun} \ {NoRunKept},
           areas \in buildSearchAreaSafely :
        /\ runRulesetSafely(run)
        /\ etagMatches(<<run.version, areas>>)
        /\ keptRun' \in {run, keptRun}
        /\ browserCopy' = [browserCopy EXCEPT !.at = clock]
        /\ shown' = browserCopy.image
        /\ drawnWithout' = IF areas = NotDrawn THEN clock ELSE drawnWithout
        /\ UNCHANGED <<imageOf, version, reloadedAt, clock, osmTileCache>>
  BY DEF NotModified, buildStaticMapFingerprint, Image, runRulesetSafely
<1>2. browserCopy # NoImage /\ browserCopy.etag = <<run.version, areas>>
  BY <1>1 DEF etagMatches
<1> DEFINE image == browserCopy.image
<1>3. image.run = run.version /\ image.areas = areas
  BY <1>2 DEF IInv, CopyInv
<1>4. browserCopy' = [image |-> image, etag |-> <<run.version, areas>>, at |-> clock]
  BY <1>1, <1>2 DEF IInv, CopyInv
<1> QED
  BY <1>1, <1>3, <1>4, ShownNowKeeps

LEMMA DrawnKeeps == IInv /\ Drawn => IInv'
<1> SUFFICES ASSUME IInv, Drawn PROVE IInv'
  OBVIOUS
<1>1. PICK run \in {storedRun, NewRun} \ {NoRunKept},
           areas \in buildSearchAreaSafely, given \in SUBSET Tiles, google \in BOOLEAN :
        LET image == Image(run.version, areas, IF google THEN {"google"} ELSE given \cup KeptTiles)
        IN /\ runRulesetSafely(run)
           /\ browserCopy' = [image |-> image, etag |-> <<run.version, areas>>, at |-> clock]
           /\ shown' = image
           /\ drawnWithout' = IF areas = NotDrawn THEN clock ELSE drawnWithout
           /\ UNCHANGED <<imageOf, version, reloadedAt, clock>>
  BY Zenon DEF Drawn, buildStaticMapFingerprint, Image
<1> keptRun' \in {run, keptRun}
  BY <1>1 DEF runRulesetSafely
<1> DEFINE image == Image(run.version, areas, IF google THEN {"google"} ELSE given \cup KeptTiles)
<1>2. image.run = run.version /\ image.areas = areas
  BY DEF Image
<1> QED
  BY <1>1, <1>2, ShownNowKeeps

LEMMA InvariantKeeps == IInv /\ [ImagesNext]_imageVars => IInv'
<1> SUFFICES ASSUME IInv, [ImagesNext]_imageVars PROVE IInv'
  OBVIOUS
<1>1. CASE RunFails
  BY <1>1 DEF RunFails, IInv, TimeInv, RunInv, CopyInv, IsImage, ShownIsRecent, Behind
<1>2. CASE UNCHANGED imageVars
  BY <1>2 DEF imageVars, IInv, TimeInv, RunInv, CopyInv, IsImage, ShownIsRecent, Behind
<1> QED
  BY <1>1, <1>2, TickKeeps, ReloadKeeps, OwnCopyKeeps, NotModifiedKeeps, DrawnKeeps DEF ImagesNext

\* What is shown is of data replaced no longer ago than an image and a run are
\* kept, and shows the site alone only where the areas could not be read of late: for
\* all lifetimes.
THEOREM ImagesAreRecent == ImagesSpec => []ShownIsRecent
<1>1. IInv => ShownIsRecent
  BY DEF IInv
<1> QED
  BY InitHolds, InvariantKeeps, <1>1, PTL DEF ImagesSpec

-----------------------------------------------------------------------------
(* Lists in order *)

\* A strict order of all of S.
Orders(R, S) ==
  /\ \A x, y \in S : x # y => <<x, y>> \in R \/ <<y, x>> \in R
  /\ \A x \in S : <<x, x>> \notin R
  /\ \A x, y, z \in S : <<x, y>> \in R /\ <<y, z>> \in R => <<x, z>> \in R

Before(R, S, x) == {y \in S : <<y, x>> \in R}

\* Each number below how many there are is how many are before just one of them.
LEMMA OneAtEach ==
  ASSUME NEW S, IsFiniteSet(S), NEW R, Orders(R, S)
  PROVE  /\ Cardinality(S) \in Nat
         /\ \A x \in S : Cardinality(Before(R, S, x)) \in 0 .. Cardinality(S) - 1
         /\ \A x, y \in S : <<x, y>> \in R <=> Cardinality(Before(R, S, x)) < Cardinality(Before(R, S, y))
         /\ \A x, y \in S : Cardinality(Before(R, S, x)) = Cardinality(Before(R, S, y)) => x = y
         /\ \A k \in 1 .. Cardinality(S) : \E x \in S : Cardinality(Before(R, S, x)) = k - 1
<1> DEFINE n == Cardinality(S)
           place == [x \in S |-> Cardinality(Before(R, S, x)) + 1]
<1>1. n \in Nat /\ IsFiniteSet(1 .. n) /\ Cardinality(1 .. n) = n
  BY FS_CardinalityType, FS_Interval
<1>2. ASSUME NEW x \in S
      PROVE  /\ IsFiniteSet(Before(R, S, x)) /\ Cardinality(Before(R, S, x)) \in 0 .. n - 1
             /\ place[x] = Cardinality(Before(R, S, x)) + 1
  <2> DEFINE e == Before(R, S, x)
  <2>1. e \in SUBSET S /\ e # S
    BY DEF Orders, Before
  <2>2. /\ IsFiniteSet(e) /\ Cardinality(e) \in Nat /\ Cardinality(e) <= n /\ Cardinality(e) # n
    <3> HIDE DEF e
    <3> QED BY <2>1, FS_Subset, FS_CardinalityType DEF e
  <2>3. place[x] = Cardinality(e) + 1
    OBVIOUS
  <2> HIDE DEF e, n, place
  <2> QED BY <1>1, <2>2, <2>3 DEF e
<1>3. ASSUME NEW x \in S, NEW y \in S, <<x, y>> \in R
      PROVE  Cardinality(Before(R, S, x)) < Cardinality(Before(R, S, y))
  <2> DEFINE d == Before(R, S, x)
             e == Before(R, S, y)
  <2>1. d \subseteq e /\ x \in e /\ x \notin d
    BY <1>3 DEF Orders, Before
  <2>2. IsFiniteSet(e) /\ d \in SUBSET e /\ d # e /\ Cardinality(d) \in Nat /\ Cardinality(e) \in Nat
    BY <1>1, <1>2, <2>1
  <2> HIDE DEF d, e, place
  <2>3. Cardinality(d) <= Cardinality(e) /\ Cardinality(d) # Cardinality(e)
    BY <2>2, FS_Subset
  <2> QED BY <2>2, <2>3 DEF d, e
<1>4. place \in [S -> 1 .. n]
  BY <1>1, <1>2
<1>5. \A x \in S : Cardinality(Before(R, S, x)) \in Nat
  BY <1>1, <1>2
<1> HIDE DEF place
<1>6. \A x, y \in S : Cardinality(Before(R, S, x)) = Cardinality(Before(R, S, y)) => x = y
  <2>1. ASSUME NEW x \in S, NEW y \in S, x # y
        PROVE  Cardinality(Before(R, S, x)) # Cardinality(Before(R, S, y))
    <3>1. <<x, y>> \in R \/ <<y, x>> \in R
      BY <2>1 DEF Orders
    <3> QED BY <1>3, <1>5, <3>1
  <2> QED BY <2>1
<1>7. place \in Injection(S, 1 .. n)
  <2>1. \A x, y \in S : place[x] = place[y] => x = y
    BY <1>2, <1>5, <1>6
  <2> QED BY <1>4, <2>1 DEF Injection, IsInjective
<1>8. place \in Surjection(S, 1 .. n)
  BY <1>1, <1>7, FS_Injection
<1>9. \A k \in 1 .. n : \E x \in S : Cardinality(Before(R, S, x)) = k - 1
  <2> TAKE k \in 1 .. n
  <2>1. PICK x \in S : place[x] = k
    BY <1>8 DEF Surjection
  <2> QED BY <1>1, <1>2, <1>5, <2>1
<1>10. ASSUME NEW x \in S, NEW y \in S, Cardinality(Before(R, S, x)) < Cardinality(Before(R, S, y))
       PROVE  <<x, y>> \in R
  <2>1. x # y /\ ~(Cardinality(Before(R, S, y)) < Cardinality(Before(R, S, x)))
    BY <1>5, <1>10
  <2> QED BY <1>3, <2>1 DEF Orders
<1> QED BY <1>1, <1>2, <1>3, <1>6, <1>9, <1>10

\* A list that has at each place what has as many before it.
InItsOrder(list, R, S) ==
  /\ DOMAIN list = 1 .. Cardinality(S)
  /\ \A k \in 1 .. Cardinality(S) : list[k] \in S /\ Cardinality(Before(R, S, list[k])) = k - 1

LEMMA OrderedIs ==
  ASSUME NEW S, IsFiniteSet(S), NEW R, Orders(R, S), NEW list, InItsOrder(list, R, S)
  PROVE  /\ Cardinality(S) \in Nat /\ DOMAIN list = 1 .. Cardinality(S)
         /\ \A k \in DOMAIN list : list[k] \in S
         /\ \A x \in S : \E k \in DOMAIN list : list[k] = x
         /\ \A j, k \in DOMAIN list : list[j] = list[k] => j = k
         /\ \A j, k \in DOMAIN list : j < k <=> <<list[j], list[k]>> \in R
<1> DEFINE n == Cardinality(S)
           Rank(x) == Cardinality(Before(R, S, x))
<1>1. /\ n \in Nat /\ \A x \in S : Rank(x) \in 0 .. n - 1
      /\ \A x, y \in S : <<x, y>> \in R <=> Rank(x) < Rank(y)
      /\ \A x, y \in S : Rank(x) = Rank(y) => x = y
  BY OneAtEach
<1>2. DOMAIN list = 1 .. n /\ \A k \in 1 .. n : list[k] \in S /\ Rank(list[k]) = k - 1
  BY DEF InItsOrder
<1> HIDE DEF n, Rank
<1>3. ASSUME NEW x \in S PROVE \E k \in DOMAIN list : list[k] = x
  <2>1. Rank(x) + 1 \in 1 .. n /\ (Rank(x) + 1) - 1 = Rank(x)
    BY <1>1
  <2>2. list[Rank(x) + 1] \in S /\ Rank(list[Rank(x) + 1]) = Rank(x)
    BY <1>2, <2>1
  <2> QED BY <1>1, <1>2, <2>1, <2>2
<1>4. \A j, k \in DOMAIN list : list[j] = list[k] => j = k
  BY <1>1, <1>2
<1>5. \A j, k \in DOMAIN list : j < k <=> <<list[j], list[k]>> \in R
  BY <1>1, <1>2
<1> QED BY <1>1, <1>2, <1>3, <1>4, <1>5 DEF n

LEMMA OneAfter ==
  ASSUME NEW S, NEW s \in Seq(S), NEW x \in S
  PROVE  /\ Len(s \o <<x>>) = Len(s) + 1 /\ DOMAIN (s \o <<x>>) = 1 .. Len(s) + 1
         /\ \A k \in 1 .. Len(s) : (s \o <<x>>)[k] = s[k]
         /\ (s \o <<x>>)[Len(s) + 1] = x
<1> DEFINE t == <<x>>
<1>1. t \in Seq(S) /\ Len(t) = 1 /\ t[1] = x /\ Len(s) \in Nat
  OBVIOUS
<1> HIDE DEF t
<1>2. /\ s \o t \in Seq(S) /\ Len(s \o t) = Len(s) + Len(t)
      /\ \A i \in 1 .. Len(s) + Len(t) : (s \o t)[i] = IF i <= Len(s) THEN s[i] ELSE t[i - Len(s)]
  BY <1>1, ConcatProperties
<1> DEFINE both == s \o t
<1>3. both \in Seq(S) /\ Len(both) = Len(s) + 1
  BY <1>1, <1>2
<1>4. \A i \in 1 .. Len(s) + 1 : both[i] = IF i <= Len(s) THEN s[i] ELSE t[i - Len(s)]
  BY <1>1, <1>2
<1> HIDE DEF both
<1>5. DOMAIN both = 1 .. Len(s) + 1
  BY <1>3
<1> QED BY <1>1, <1>3, <1>4, <1>5 DEF both, t

-----------------------------------------------------------------------------
(* A category's consultees, and its layers *)

LEMMA PlaceIs ==
  ASSUME NEW list, Enumerates(list)
  PROVE  /\ IsFiniteSet(ToSet(list))
         /\ \A x \in ToSet(list) : PlaceIn(list, x) \in Nat /\ list[PlaceIn(list, x)] = x
<1>1. DOMAIN list = 1 .. Len(list) /\ Len(list) \in Nat
  BY DEF Enumerates
<1>2. list \in Surjection(DOMAIN list, ToSet(list))
  <2>1. list \in [DOMAIN list -> ToSet(list)] /\ \A x \in ToSet(list) : \E i \in DOMAIN list : list[i] = x
    BY DEF ToSet, Enumerates
  <2> QED BY <2>1 DEF Surjection
<1>3. IsFiniteSet(DOMAIN list)
  BY <1>1, FS_Interval
<1>4. ASSUME NEW x \in ToSet(list)
      PROVE  PlaceIn(list, x) \in DOMAIN list /\ list[PlaceIn(list, x)] = x
  <2>1. \E i \in DOMAIN list : list[i] = x
    BY DEF ToSet
  <2> QED BY <2>1 DEF PlaceIn
<1> QED BY <1>1, <1>2, <1>3, <1>4, FS_Surjection

\* What a page is, whichever of a category or of a case's files.
LEMMA PagesAreOf ==
  ASSUME page \in MapPages
  PROVE  \/ page.kind = "category" /\ page.matches \subseteq ToSet(AreasByDistance)
         \/ /\ page.kind = "boundary" /\ page.matches = {} /\ page.files \in FileLists
            /\ \E list \in FileLists : page.own \in ToSet(list)
<1>1. ASSUME NEW how, NEW geometries
      PROVE  /\ CategoryPage(how, geometries).kind = "category"
             /\ CategoryPage(how, geometries).matches \subseteq ToSet(AreasByDistance)
  BY DEF CategoryPage
<1>2. ASSUME NEW files, NEW own
      PROVE  /\ BoundaryPage(files, own).kind = "boundary" /\ BoundaryPage(files, own).matches = {}
             /\ BoundaryPage(files, own).files = files /\ BoundaryPage(files, own).own = own
  BY DEF BoundaryPage
<1> QED BY <1>1, <1>2 DEF MapPages

\* Consultees of a category that are alike identified are in one colour and fill.
LEMMA AlikeArePainted ==
  ASSUME NEW a, NEW b, Feature(a).category = Feature(b).category,
         Feature(a).identified = Feature(b).identified
  PROVE  Feature(a).colour = Feature(b).colour /\ Feature(a).opacity = Feature(b).opacity
<1>1. categoryOf(a) = categoryOf(b) /\ (isDrawnAsIdentified(a) <=> isDrawnAsIdentified(b))
  BY DEF Feature
<1>2. Regional(a) <=> Regional(b)
  BY <1>1 DEF Regional
<1>3. fillOpacity(a) = fillOpacity(b)
  BY <1>1, <1>2 DEF fillOpacity
<1> QED BY <1>1, <1>3 DEF Feature

LEMMA FeatureIs ==
  ASSUME NEW a
  PROVE  /\ Feature(a).id = a /\ Feature(a).category = categoryOf(a)
         /\ Feature(a).identified \in {"true", "false"} /\ Feature(a).opacity \in 1 .. 100
<1>1. fillOpacity(a) \in 1 .. 100
  BY DEF fillOpacity
<1> QED BY <1>1 DEF Feature

Features == {Feature(a) : a \in withDisplayGeometry}

LEMMA FeaturesAre ==
  ASSUME page \in MapPages
  PROVE  /\ withDisplayGeometry \subseteq ToSet(AreasByDistance) /\ IsFiniteSet(Features)
         /\ page.kind = "boundary" => Features = {}
         /\ \A f, g \in Features : f.id = g.id => f = g
         /\ \A f \in Features : f.id \in ToSet(AreasByDistance) /\ f.category \in ToSet(CategoryOrder)
<1>1. /\ withDisplayGeometry \subseteq ToSet(AreasByDistance)
      /\ page.kind = "boundary" => withDisplayGeometry = {}
  BY PagesAreOf DEF withDisplayGeometry
<1>2. IsFiniteSet(withDisplayGeometry)
  <2>1. IsFiniteSet(ToSet(AreasByDistance)) /\ withDisplayGeometry \in SUBSET ToSet(AreasByDistance)
    BY <1>1, PlaceIs, MapAssumption
  <2> QED BY <2>1, FS_Subset
<1>3. IsFiniteSet(Features)
  <2> DEFINE f == [a \in withDisplayGeometry |-> Feature(a)]
  <2>1. f \in Surjection(withDisplayGeometry, Features)
    <3>1. f \in [withDisplayGeometry -> Features] /\ \A x \in Features : \E a \in withDisplayGeometry : f[a] = x
      BY DEF Features
    <3> QED BY <3>1 DEF Surjection
  <2> QED BY <1>2, <2>1, FS_Surjection
<1>4. \A f \in Features : \E a \in withDisplayGeometry : f = Feature(a) /\ f.id = a /\ f.category = categoryOf(a)
  BY FeatureIs DEF Features
<1> QED BY <1>1, <1>3, <1>4, MapAssumption DEF Features

\* They are listed once each, the fainter under the stronger.
LEMMA FeaturesAreListed ==
  ASSUME page \in MapPages
  PROVE  /\ Cardinality(Features) \in Nat /\ DOMAIN consulteeGeojson = 1 .. Cardinality(Features)
         /\ Len(consulteeGeojson) = Cardinality(Features)
         /\ ToSet(consulteeGeojson) = Features
         /\ \A j, k \in DOMAIN consulteeGeojson : consulteeGeojson[j] = consulteeGeojson[k] => j = k
         /\ \A j, k \in DOMAIN consulteeGeojson :
              j < k => consulteeGeojson[j].opacity <= consulteeGeojson[k].opacity
<1> DEFINE R == {p \in Features \X Features : FeatureUnder(p[1], p[2])}
           list == consulteeGeojson
           Far(f) == PlaceIn(AreasByDistance, f.id)
<1>1. IsFiniteSet(Features)
  BY FeaturesAre
<1>2. ASSUME NEW f \in Features
      PROVE  f.opacity \in 1 .. 100 /\ Far(f) \in Nat /\ AreasByDistance[Far(f)] = f.id
  <2>1. f.opacity \in 1 .. 100
    BY FeatureIs DEF Features
  <2> QED BY <2>1, FeaturesAre, PlaceIs, MapAssumption
<1>3. \A f, g \in Features : Far(f) = Far(g) => f = g
  BY <1>2, FeaturesAre
<1>4. \A f, g : FeatureUnder(f, g) <=> f.opacity < g.opacity \/ (f.opacity = g.opacity /\ Far(f) < Far(g))
  BY DEF FeatureUnder
<1>5. \A f, g \in Features : <<f, g>> \in R <=> FeatureUnder(f, g)
  OBVIOUS
<1> HIDE DEF R, Far
<1>6. Orders(R, Features)
  <2>1. \A f, g \in Features : f # g => FeatureUnder(f, g) \/ FeatureUnder(g, f)
    BY <1>2, <1>3, <1>4
  <2>2. \A f \in Features : ~FeatureUnder(f, f)
    BY <1>2, <1>4
  <2>3. ASSUME NEW f \in Features, NEW g \in Features, NEW h \in Features, FeatureUnder(f, g), FeatureUnder(g, h)
        PROVE  FeatureUnder(f, h)
    <3>1. /\ f.opacity \in Int /\ g.opacity \in Int /\ h.opacity \in Int
          /\ Far(f) \in Nat /\ Far(g) \in Nat /\ Far(h) \in Nat
      BY <1>2
    <3> QED BY <1>4, <2>3, <3>1
  <2> QED BY <1>5, <2>1, <2>2, <2>3 DEF Orders
<1>7. InItsOrder(list, R, Features)
  <2>1. \A f \in Features : {g \in Features : FeatureUnder(g, f)} = Before(R, Features, f)
    BY <1>5 DEF Before
  <2> DEFINE At(f, k) == Cardinality({g \in Features : FeatureUnder(g, f)}) = k - 1
  <2>2. /\ DOMAIN list = 1 .. Cardinality(Features)
        /\ \A k \in 1 .. Cardinality(Features) : list[k] = CHOOSE f \in Features : At(f, k)
    BY DEF consulteeGeojson, InOrder, Features
  <2>3. \A k \in 1 .. Cardinality(Features) : \E f \in Features : At(f, k)
    <3>1. \A k \in 1 .. Cardinality(Features) : \E f \in Features : Cardinality(Before(R, Features, f)) = k - 1
      BY <1>1, <1>6, OneAtEach
    <3> QED BY <2>1, <3>1
  <2> HIDE DEF At
  <2>4. \A k \in 1 .. Cardinality(Features) : list[k] \in Features /\ At(list[k], k)
    BY <2>2, <2>3
  <2> QED BY <2>1, <2>2, <2>4 DEF InItsOrder, At
<1>8. /\ Cardinality(Features) \in Nat /\ DOMAIN list = 1 .. Cardinality(Features)
      /\ \A k \in DOMAIN list : list[k] \in Features
      /\ \A x \in Features : \E k \in DOMAIN list : list[k] = x
      /\ \A j, k \in DOMAIN list : list[j] = list[k] => j = k
      /\ \A j, k \in DOMAIN list : j < k <=> <<list[j], list[k]>> \in R
  <2> HIDE DEF list
  <2> QED BY <1>1, <1>6, <1>7, OrderedIs
<1>9. ToSet(list) = Features
  BY <1>8 DEF ToSet
<1>10. Len(list) = Cardinality(Features)
  <2>1. list \in Seq(Features)
    <3> DEFINE Chosen(k) == CHOOSE f \in Features : Cardinality({g \in Features : FeatureUnder(g, f)}) = k - 1
    <3>1. list = [k \in 1 .. Cardinality(Features) |-> Chosen(k)]
      BY DEF consulteeGeojson, InOrder, Features
    <3> HIDE DEF list, Chosen
    <3> QED BY <1>8, <3>1
  <2> HIDE DEF list
  <2> QED BY <1>8, <2>1
<1>11. ASSUME NEW j \in DOMAIN list, NEW k \in DOMAIN list, j < k
       PROVE  list[j].opacity <= list[k].opacity
  <2>1. FeatureUnder(list[j], list[k]) /\ list[j] \in Features /\ list[k] \in Features
    BY <1>5, <1>8, <1>11
  <2> HIDE DEF list
  <2> QED BY <1>2, <1>4, <2>1
<1> QED BY <1>8, <1>9, <1>10, <1>11

Layers == {Layer(Features, f.category, f.identified) : f \in Features}

\* The layer of a consultee is as it is; of a category there are no two alike identified.
LEMMA LayerIs ==
  ASSUME NEW f \in Features
  PROVE  LET l == Layer(Features, f.category, f.identified)
         IN /\ l \in Layers /\ l.dataset = "consultee-areas" /\ l.category = f.category
            /\ l.identified = f.identified /\ l.colour = f.colour /\ l.opacity = f.opacity
<1> DEFINE members == {g \in Features : g.category = f.category /\ g.identified = f.identified}
           first == CHOOSE g \in members : TRUE
           l == Layer(Features, f.category, f.identified)
<1>1. first \in members
  BY f \in members
<1>2. first.colour = f.colour /\ first.opacity = f.opacity
  <2>1. PICK a \in withDisplayGeometry, b \in withDisplayGeometry : first = Feature(a) /\ f = Feature(b)
    BY <1>1 DEF Features
  <2>2. first.category = f.category /\ first.identified = f.identified
    BY <1>1
  <2> HIDE DEF first
  <2> QED BY <2>1, <2>2, AlikeArePainted
<1>3. /\ l.dataset = "consultee-areas" /\ l.category = f.category /\ l.identified = f.identified
      /\ l.colour = first.colour /\ l.opacity = first.opacity
  BY DEF Layer
<1>4. l \in Layers
  BY DEF Layers
<1> HIDE DEF l, first
<1> QED BY <1>2, <1>3, <1>4 DEF l

LEMMA LayersAre ==
  ASSUME page \in MapPages
  PROVE  /\ IsFiniteSet(Layers)
         /\ \A l \in Layers : \E f \in Features : l = Layer(Features, f.category, f.identified)
         /\ \A l \in Layers : /\ l.category \in ToSet(CategoryOrder) /\ l.identified \in {"true", "false"}
                              /\ l.opacity \in 1 .. 100 /\ l.dataset = "consultee-areas"
         /\ \A l, m \in Layers : l.category = m.category /\ l.identified = m.identified => l = m
<1>1. IsFiniteSet(Layers)
  <2> DEFINE map == [f \in Features |-> Layer(Features, f.category, f.identified)]
  <2>1. map \in [Features -> Layers] /\ \A l \in Layers : \E f \in Features : map[f] = l
    BY DEF Layers
  <2>2. map \in Surjection(Features, Layers)
    BY <2>1 DEF Surjection
  <2> QED BY <2>2, FeaturesAre, FS_Surjection
<1>2. ASSUME NEW l \in Layers
      PROVE  \E f \in Features : l = Layer(Features, f.category, f.identified)
  BY DEF Layers
<1>3. ASSUME NEW l \in Layers
      PROVE  /\ l.category \in ToSet(CategoryOrder) /\ l.identified \in {"true", "false"}
             /\ l.opacity \in 1 .. 100 /\ l.dataset = "consultee-areas"
  <2>1. PICK f \in Features : l = Layer(Features, f.category, f.identified)
    BY <1>2
  <2>2. f.category \in ToSet(CategoryOrder)
    BY FeaturesAre
  <2>3. f.identified \in {"true", "false"} /\ f.opacity \in 1 .. 100
    BY FeatureIs DEF Features
  <2> QED BY <2>1, <2>2, <2>3, LayerIs
<1>4. ASSUME NEW l \in Layers, NEW m \in Layers, l.category = m.category, l.identified = m.identified
      PROVE  l = m
  <2>1. PICK f \in Features : l = Layer(Features, f.category, f.identified)
    BY <1>2
  <2>2. PICK g \in Features : m = Layer(Features, g.category, g.identified)
    BY <1>2
  <2>3. f.category = g.category /\ f.identified = g.identified
    BY <1>4, <2>1, <2>2, LayerIs
  <2> QED BY <2>1, <2>2, <2>3
<1> QED BY <1>1, <1>2, <1>3, <1>4

\* They are listed once each, the fainter under the stronger.
LEMMA LayersAreListed ==
  ASSUME page \in MapPages
  PROVE  /\ Cardinality(Layers) \in Nat /\ DOMAIN buildCategorySublayers = 1 .. Cardinality(Layers)
         /\ Len(buildCategorySublayers) = Cardinality(Layers) /\ buildCategorySublayers \in Seq(Layers)
         /\ \A l \in Layers : \E k \in DOMAIN buildCategorySublayers : buildCategorySublayers[k] = l
         /\ \A j, k \in DOMAIN buildCategorySublayers :
              buildCategorySublayers[j] = buildCategorySublayers[k] => j = k
         /\ \A j, k \in DOMAIN buildCategorySublayers :
              buildCategorySublayers[j].opacity < buildCategorySublayers[k].opacity => j < k
<1> DEFINE R == {p \in Layers \X Layers : LayerUnder(p[1], p[2])}
           list == buildCategorySublayers
           Named(l) == PlaceIn(CategoryOrder, l.category)
<1>1. IsFiniteSet(Layers)
  BY LayersAre
<1>2. ASSUME NEW l \in Layers
      PROVE  /\ l.opacity \in Int /\ Named(l) \in Nat /\ CategoryOrder[Named(l)] = l.category
             /\ l.identified \in {"true", "false"}
  <2>1. l.category \in ToSet(CategoryOrder) /\ l.identified \in {"true", "false"} /\ l.opacity \in 1 .. 100
    BY LayersAre
  <2>2. Enumerates(CategoryOrder)
    BY MapAssumption
  <2> QED BY <2>1, <2>2, PlaceIs
<1>3. \A l, m \in Layers : Named(l) = Named(m) /\ l.identified = m.identified => l = m
  BY <1>2, LayersAre
<1>4. \A l, m \in Layers :
        LayerUnder(l, m) <=>
          \/ l.opacity < m.opacity
          \/ l.opacity = m.opacity /\ Named(l) < Named(m)
          \/ l.opacity = m.opacity /\ Named(l) = Named(m) /\ l.identified = "true" /\ m.identified = "false"
  <2>1. \A l, m \in Layers : l.category = m.category <=> Named(l) = Named(m)
    BY <1>2
  <2> QED BY <2>1 DEF LayerUnder
<1>5. \A l, m \in Layers : <<l, m>> \in R <=> LayerUnder(l, m)
  OBVIOUS
<1> HIDE DEF R, Named
<1>6. Orders(R, Layers)
  <2>1. ASSUME NEW l \in Layers, NEW m \in Layers, l # m PROVE LayerUnder(l, m) \/ LayerUnder(m, l)
    <3>1. l.opacity \in Int /\ m.opacity \in Int /\ Named(l) \in Nat /\ Named(m) \in Nat
      BY <1>2
    <3>2. Named(l) = Named(m) => (l.identified = "true" /\ m.identified = "false")
                                   \/ (l.identified = "false" /\ m.identified = "true")
      BY <1>2, <1>3, <2>1
    <3> QED BY <1>4, <3>1, <3>2
  <2>2. \A l \in Layers : ~LayerUnder(l, l)
    BY <1>2, <1>4
  <2>3. ASSUME NEW l \in Layers, NEW m \in Layers, NEW n \in Layers, LayerUnder(l, m), LayerUnder(m, n)
        PROVE  LayerUnder(l, n)
    <3>1. /\ l.opacity \in Int /\ m.opacity \in Int /\ n.opacity \in Int
          /\ Named(l) \in Nat /\ Named(m) \in Nat /\ Named(n) \in Nat
      BY <1>2
    <3> QED BY <1>4, <2>3, <3>1
  <2> QED BY <1>5, <2>1, <2>2, <2>3 DEF Orders
<1> DEFINE At(l, k) == Cardinality({m \in Layers : LayerUnder(m, l)}) = k - 1
           Chosen(k) == CHOOSE l \in Layers : At(l, k)
<1>7. list = [k \in 1 .. Cardinality(Layers) |-> Chosen(k)]
  <2>1. ToSet(consulteeGeojson) = Features
    BY FeaturesAreListed
  <2> QED BY <2>1 DEF buildCategorySublayers, InOrder, Layers
<1>8. \A l \in Layers : {m \in Layers : LayerUnder(m, l)} = Before(R, Layers, l)
  BY <1>5 DEF Before
<1>9. \A k \in 1 .. Cardinality(Layers) : \E l \in Layers : At(l, k)
  <2>1. \A k \in 1 .. Cardinality(Layers) : \E l \in Layers : Cardinality(Before(R, Layers, l)) = k - 1
    BY <1>1, <1>6, OneAtEach
  <2> QED BY <1>8, <2>1
<1>10. \A k \in 1 .. Cardinality(Layers) : Chosen(k) \in Layers /\ At(Chosen(k), k)
  <2> HIDE DEF At
  <2> QED BY <1>9
<1>11. InItsOrder(list, R, Layers)
  <2>1. DOMAIN list = 1 .. Cardinality(Layers) /\ \A k \in 1 .. Cardinality(Layers) : list[k] = Chosen(k)
    BY <1>7
  <2>2. \A k \in 1 .. Cardinality(Layers) : list[k] \in Layers /\ At(list[k], k)
    BY <1>10, <2>1
  <2> HIDE DEF list, Chosen
  <2> QED BY <1>8, <2>1, <2>2 DEF InItsOrder
<1> HIDE DEF At, Chosen
<1>12. /\ Cardinality(Layers) \in Nat /\ DOMAIN list = 1 .. Cardinality(Layers)
       /\ \A k \in DOMAIN list : list[k] \in Layers
       /\ \A l \in Layers : \E k \in DOMAIN list : list[k] = l
       /\ \A j, k \in DOMAIN list : list[j] = list[k] => j = k
       /\ \A j, k \in DOMAIN list : j < k <=> <<list[j], list[k]>> \in R
  <2> HIDE DEF list
  <2> QED BY <1>1, <1>6, <1>11, OrderedIs
<1>13. list \in Seq(Layers) /\ Len(list) = Cardinality(Layers)
  <2> HIDE DEF list
  <2> QED BY <1>7, <1>10, <1>12
<1>14. ASSUME NEW j \in DOMAIN list, NEW k \in DOMAIN list, list[j].opacity < list[k].opacity
       PROVE  j < k
  <2>1. list[j] \in Layers /\ list[k] \in Layers
    BY <1>12
  <2>2. LayerUnder(list[j], list[k])
    BY <1>4, <1>14, <2>1
  <2> HIDE DEF list
  <2> QED BY <1>5, <1>12, <2>1, <2>2
<1> QED BY <1>12, <1>13, <1>14

\* Each consultee is drawn by the one layer that is its own, under the site's.
LEMMA CategoryLayersAre ==
  ASSUME page \in MapPages, page.kind = "category"
  PROVE  /\ Cardinality(Layers) \in Nat /\ Len(buildDatasets) = Cardinality(Layers) + 1
         /\ DOMAIN buildDatasets = 1 .. Cardinality(Layers) + 1
         /\ buildDatasets[Cardinality(Layers) + 1] = [dataset |-> "project-site"]
         /\ \A k \in 1 .. Cardinality(Layers) :
              buildDatasets[k] \in Layers /\ buildDatasets[k] = buildCategorySublayers[k]
<1> DEFINE n == Cardinality(Layers)
           sub == buildCategorySublayers
           site == [dataset |-> "project-site"]
           S == Layers \cup {site}
<1>1. n \in Nat /\ sub \in Seq(Layers) /\ Len(sub) = n /\ DOMAIN sub = 1 .. n
  BY LayersAreListed
<1>2. buildDatasets = sub \o <<site>>
  BY DEF buildDatasets
<1> HIDE DEF n, sub, site
<1>3. sub \in Seq(S) /\ site \in S /\ \A k \in 1 .. n : sub[k] \in Layers
  BY <1>1
<1> HIDE DEF S
<1>4. /\ Len(sub \o <<site>>) = n + 1 /\ DOMAIN (sub \o <<site>>) = 1 .. n + 1
      /\ \A k \in 1 .. n : (sub \o <<site>>)[k] = sub[k]
      /\ (sub \o <<site>>)[n + 1] = site
  BY <1>1, <1>3, OneAfter
<1> QED BY <1>1, <1>2, <1>3, <1>4 DEF n, sub, site

LEMMA OneDraws ==
  ASSUME page \in MapPages, page.kind = "category", NEW f \in Features
  PROVE  \E k \in 1 .. Cardinality(Layers) :
           /\ \A j \in 1 .. Cardinality(Layers) : Draws(buildDatasets[j], f) <=> j = k
           /\ buildDatasets[k] = Layer(Features, f.category, f.identified)
<1> DEFINE n == Cardinality(Layers)
           own == Layer(Features, f.category, f.identified)
<1>1. own \in Layers /\ own.category = f.category /\ own.identified = f.identified
  BY LayerIs
<1>2. /\ DOMAIN buildCategorySublayers = 1 .. n
      /\ \A l \in Layers : \E k \in 1 .. n : buildCategorySublayers[k] = l
      /\ \A j, k \in 1 .. n : buildCategorySublayers[j] = buildCategorySublayers[k] => j = k
  BY LayersAreListed
<1>3. \A k \in 1 .. n : buildDatasets[k] \in Layers /\ buildDatasets[k] = buildCategorySublayers[k]
  BY CategoryLayersAre
<1> HIDE DEF n, own
<1>4. PICK k \in 1 .. n : buildDatasets[k] = own
  BY <1>1, <1>2, <1>3
<1>5. \A j \in 1 .. n : Draws(buildDatasets[j], f) <=> buildDatasets[j] = own
  BY <1>1, <1>3, LayersAre DEF Draws
<1>6. \A j \in 1 .. n : buildDatasets[j] = own <=> j = k
  BY <1>2, <1>3, <1>4
<1> QED BY <1>4, <1>5, <1>6 DEF n, own

-----------------------------------------------------------------------------
(* What is painted *)

\* The image has each consultee in its colour and fill, and over them the site.
LEMMA CategoryImageIs ==
  ASSUME page \in MapPages, page.kind = "category"
  PROVE  LET n == Cardinality(Features)
             image == renderStaticMapOverlaySvg(page.files)
         IN /\ n \in Nat /\ Len(image) = n + 1 /\ DOMAIN image = 1 .. n + 1
            /\ \A k \in 1 .. n : image[k].id = consulteeGeojson[k].id
                                  /\ image[k].paint = consulteeColours(consulteeGeojson[k])
            /\ image[n + 1].id = "site" /\ image[n + 1].paint = projectColours(<<>>, 0)
<1> DEFINE n == Cardinality(Features)
           Path(f) == [id |-> f.id, paint |-> consulteeColours(f)]
           site == [id |-> "site", paint |-> projectColours(<<>>, 0)]
           S == {Path(f) : f \in Features} \cup {site}
           paths == consulteePaths
<1>1. n \in Nat /\ DOMAIN consulteeGeojson = 1 .. n /\ ToSet(consulteeGeojson) = Features
  BY FeaturesAreListed
<1>2. paths = [k \in 1 .. n |-> Path(consulteeGeojson[k])]
  BY <1>1 DEF consulteePaths
<1>3. \A k \in 1 .. n : consulteeGeojson[k] \in Features
  BY <1>1 DEF ToSet
<1>4. renderStaticMapOverlaySvg(page.files) = paths \o <<site>>
  BY DEF renderStaticMapOverlaySvg, projectPaths
<1>5. \A k \in 1 .. n : Path(consulteeGeojson[k]) \in S
  BY <1>3
<1>6. site.id = "site" /\ site.paint = projectColours(<<>>, 0) /\ site \in S
  OBVIOUS
<1>7. \A f : Path(f).id = f.id /\ Path(f).paint = consulteeColours(f)
  OBVIOUS
<1> HIDE DEF n, Path, site, S, paths
<1>8. paths \in Seq(S) /\ Len(paths) = n /\ \A k \in 1 .. n : paths[k] = Path(consulteeGeojson[k])
  BY <1>1, <1>2, <1>5
<1>9. /\ Len(paths \o <<site>>) = n + 1 /\ DOMAIN (paths \o <<site>>) = 1 .. n + 1
      /\ \A k \in 1 .. n : (paths \o <<site>>)[k] = paths[k]
      /\ (paths \o <<site>>)[n + 1] = site
  BY <1>6, <1>8, OneAfter
<1> QED BY <1>1, <1>4, <1>6, <1>7, <1>8, <1>9 DEF n

\* By its id each is found on it.
LEMMA FoundOnImage ==
  ASSUME page \in MapPages, page.kind = "category"
  PROVE  LET image == renderStaticMapOverlaySvg(page.files)
             Of(id) == image[CHOOSE k \in DOMAIN image : image[k].id = id].paint
         IN /\ \A f \in Features : Of(f.id) = [colour |-> Palette(f.colour), opacity |-> f.opacity]
            /\ Of("site") = [colour |-> Red, opacity |-> 20]
            /\ Last(image).id = "site"
<1> DEFINE n == Cardinality(Features)
           image == renderStaticMapOverlaySvg(page.files)
           At(id) == CHOOSE k \in DOMAIN image : image[k].id = id
<1>1. /\ n \in Nat /\ Len(image) = n + 1 /\ DOMAIN image = 1 .. n + 1
      /\ \A k \in 1 .. n : image[k].id = consulteeGeojson[k].id
                            /\ image[k].paint = consulteeColours(consulteeGeojson[k])
      /\ image[n + 1].id = "site" /\ image[n + 1].paint = projectColours(<<>>, 0)
  BY CategoryImageIs
<1>2. DOMAIN consulteeGeojson = 1 .. n /\ ToSet(consulteeGeojson) = Features
  BY FeaturesAreListed
<1>3. \A k \in 1 .. n : consulteeGeojson[k] \in Features
  BY <1>2 DEF ToSet
<1>4. \A f \in Features : f.id # "site"
  BY FeaturesAre, MapAssumption
<1>5. \A f, g \in Features : f.id = g.id => f = g
  BY FeaturesAre
<1> HIDE DEF image, n
<1>6. ASSUME NEW f \in Features
      PROVE  image[At(f.id)].paint = [colour |-> Palette(f.colour), opacity |-> f.opacity]
  <2>1. \E k \in DOMAIN image : image[k].id = f.id
    <3>1. PICK k \in 1 .. n : consulteeGeojson[k] = f
      BY <1>2 DEF ToSet
    <3> QED BY <1>1, <3>1
  <2>2. At(f.id) \in DOMAIN image /\ image[At(f.id)].id = f.id
    BY <2>1
  <2> HIDE DEF At
  <2>3. At(f.id) \in 1 .. n /\ consulteeGeojson[At(f.id)] = f
    BY <1>1, <1>3, <1>4, <1>5, <2>2
  <2>4. consulteeColours(f) = [colour |-> Palette(f.colour), opacity |-> f.opacity]
    <3>1. f.opacity \in 1 .. 100
      BY FeatureIs DEF Features
    <3>2. Palette(f.colour) # <<>>
      BY DEF Palette
    <3> QED BY <3>1, <3>2 DEF consulteeColours, featureColours
  <2> QED BY <1>1, <2>3, <2>4
<1>7. image[At("site")].paint = [colour |-> Red, opacity |-> 20]
  <2>1. \E k \in DOMAIN image : image[k].id = "site"
    BY <1>1
  <2>2. At("site") \in DOMAIN image /\ image[At("site")].id = "site"
    BY <2>1
  <2> HIDE DEF At
  <2>3. At("site") = n + 1
    BY <1>1, <1>3, <1>4, <2>2
  <2>4. projectColours(<<>>, 0) = [colour |-> Red, opacity |-> 20]
    BY DEF projectColours, featureColours
  <2> QED BY <1>1, <2>3, <2>4
<1>8. Last(image).id = "site"
  BY <1>1 DEF Last
<1> HIDE DEF At
<1> QED BY <1>6, <1>7, <1>8 DEF image, At

LEMMA PanelIs ==
  ASSUME NEW row \in DOMAIN buildDatasets
  PROVE  /\ LayersKeyPanel[row].swatch = buildSwatch(mergedDatasetStyle(buildDatasets[row]))
         /\ LayersKeyPanel[row].checked <=> checkedFor(row)
<1> DEFINE layers == buildDatasets
           Row(r) == [checked |-> checkedFor(r), swatch |-> buildSwatch(mergedDatasetStyle(layers[r]))]
<1>1. LayersKeyPanel = [r \in DOMAIN layers |-> Row(r)]
  BY DEF LayersKeyPanel
<1>2. LayersKeyPanel[row] = Row(row)
  <2> HIDE DEF Row
  <2> QED BY <1>1
<1> QED BY <1>2

\* A style that has a symbol is a dot; another that has a fill is a filled shape.
LEMMA SwatchIs ==
  ASSUME NEW style
  PROVE  /\ "symbolBackgroundColor" \in DOMAIN style =>
              /\ buildSwatch(style).shape = "dot"
              /\ buildSwatch(style).paints = {style["symbolBackgroundColor"]}
         /\ "symbolBackgroundColor" \notin DOMAIN style /\ "fill" \in DOMAIN style =>
              /\ buildSwatch(style).shape = "rect"
              /\ buildSwatch(style).paints = {style["fill"], style["stroke"]}
BY DEF buildSwatch

LEMMA OverIs ==
  ASSUME NEW style, NEW under
  PROVE  /\ DOMAIN Over(style, under) = DOMAIN style \cup DOMAIN under
         /\ \A field \in DOMAIN style : Over(style, under)[field] = style[field]
         /\ \A field \in DOMAIN under \ DOMAIN style : Over(style, under)[field] = under[field]
BY DEF Over

Fills(style, fill, stroke) ==
  /\ "symbolBackgroundColor" \notin DOMAIN style /\ "fill" \in DOMAIN style /\ "stroke" \in DOMAIN style
  /\ style["fill"] = fill /\ style["stroke"] = stroke

\* A dataset's own style, where no sublayer has one, and a sublayer's over it.
LEMMA StylesAre ==
  ASSUME NEW layer
  PROVE  /\ SublayerStyle(layer) = <<>> =>
              Fills(mergedDatasetStyle(layer), DatasetStyle(layer).fill, DatasetStyle(layer).stroke)
         /\ \A paint : SublayerStyle(layer) = [symbolBackgroundColor |-> paint] =>
              /\ "symbolBackgroundColor" \in DOMAIN mergedDatasetStyle(layer)
              /\ mergedDatasetStyle(layer)["symbolBackgroundColor"] = paint
         /\ \A stroke, fill : SublayerStyle(layer) = [stroke |-> stroke, fill |-> fill] =>
              Fills(mergedDatasetStyle(layer), fill, stroke)
<1> DEFINE own == SublayerStyle(layer)
           data == DatasetStyle(layer)
           under == Over(data, defaultStyle)
<1>1. DOMAIN data = {"stroke", "fill"} /\ data["fill"] = data.fill /\ data["stroke"] = data.stroke
  BY DEF DatasetStyle
<1>2. DOMAIN defaultStyle = {"stroke"}
  BY DEF defaultStyle
<1>3. mergedDatasetStyle(layer) = Over(own, under)
  BY DEF mergedDatasetStyle
<1> HIDE DEF own, data
<1>4. DOMAIN under = {"stroke", "fill"} /\ under["fill"] = data["fill"] /\ under["stroke"] = data["stroke"]
  <2>1. /\ DOMAIN Over(data, defaultStyle) = DOMAIN data \cup DOMAIN defaultStyle
        /\ \A field \in DOMAIN data : Over(data, defaultStyle)[field] = data[field]
    BY OverIs
  <2> HIDE DEF under
  <2>2. under = Over(data, defaultStyle)
    BY DEF under
  <2>3. DOMAIN under = {"stroke", "fill"}
    BY ONLY <1>1, <1>2, <2>1, <2>2
  <2>4. \A field \in DOMAIN data : under[field] = data[field]
    BY ONLY <2>1, <2>2
  <2> QED BY ONLY <1>1, <2>3, <2>4
<1> HIDE DEF under
<1>5. /\ DOMAIN Over(own, under) = DOMAIN own \cup {"stroke", "fill"}
      /\ \A field \in DOMAIN own : Over(own, under)[field] = own[field]
      /\ \A field \in {"stroke", "fill"} \ DOMAIN own : Over(own, under)[field] = under[field]
  <2>1. /\ DOMAIN Over(own, under) = DOMAIN own \cup DOMAIN under
        /\ \A field \in DOMAIN own : Over(own, under)[field] = own[field]
        /\ \A field \in DOMAIN under \ DOMAIN own : Over(own, under)[field] = under[field]
    BY OverIs
  <2>2. DOMAIN under = {"stroke", "fill"}
    BY <1>4
  <2> QED BY ONLY <2>1, <2>2
<1>6. CASE own = <<>>
  <2>1. DOMAIN own = {}
    BY <1>6
  <2> QED BY <1>1, <1>3, <1>4, <1>5, <2>1, <1>6 DEF Fills, own, data
<1>7. ASSUME NEW paint, own = [symbolBackgroundColor |-> paint]
      PROVE  /\ "symbolBackgroundColor" \in DOMAIN mergedDatasetStyle(layer)
             /\ mergedDatasetStyle(layer)["symbolBackgroundColor"] = paint
  <2>1. DOMAIN own = {"symbolBackgroundColor"} /\ own["symbolBackgroundColor"] = paint
    BY <1>7
  <2> QED BY <1>3, <1>5, <2>1
<1>8. ASSUME NEW stroke, NEW fill, own = [stroke |-> stroke, fill |-> fill]
      PROVE  Fills(mergedDatasetStyle(layer), fill, stroke)
  <2>1. DOMAIN own = {"stroke", "fill"} /\ own["stroke"] = stroke /\ own["fill"] = fill
    BY <1>8
  <2> QED BY <1>3, <1>5, <2>1 DEF Fills
<1>9. own = <<>> => Fills(mergedDatasetStyle(layer), data.fill, data.stroke)
  BY <1>1, <1>3, <1>4, <1>5, <1>6 DEF Fills
<1> QED BY <1>7, <1>8, <1>9 DEF own, data

\* A row's symbol is in its consultees' colour and, but for a dot, their fill; the
\* site's is as the site is on the image.
LEMMA CategorySwatches ==
  ASSUME page \in MapPages, page.kind = "category"
  PROVE  /\ \A l \in Layers :
              LET swatch == buildSwatch(mergedDatasetStyle(l))
              IN /\ \A p \in swatch.paints : p[1] = Palette(l.colour)
                 /\ swatch.shape # "dot" => <<Palette(l.colour), l.opacity>> \in swatch.paints
         /\ LET swatch == buildSwatch(mergedDatasetStyle([dataset |-> "project-site"]))
            IN (\A p \in swatch.paints : p[1] = Red) /\ <<Red, 20>> \in swatch.paints
<1>1. ASSUME NEW l \in Layers
      PROVE  LET swatch == buildSwatch(mergedDatasetStyle(l))
             IN /\ \A p \in swatch.paints : p[1] = Palette(l.colour)
                /\ swatch.shape # "dot" => <<Palette(l.colour), l.opacity>> \in swatch.paints
  <2> DEFINE style == mergedDatasetStyle(l)
             colour == Palette(l.colour)
             dot == <<colour, IF l.identified = "false" THEN 45 ELSE 100>>
             stroke == <<colour, 100>>
             fill == <<colour, l.opacity>>
  <2>1. l.dataset # "project-site"
    BY LayersAre
  <2>2. dot[1] = colour /\ stroke[1] = colour /\ fill[1] = colour
    OBVIOUS
  <2>3. CASE l.points
    <3>1. SublayerStyle(l) = [symbolBackgroundColor |-> dot]
      BY <2>1, <2>3 DEF SublayerStyle
    <3> HIDE DEF dot, style, colour, fill
    <3>2. "symbolBackgroundColor" \in DOMAIN style /\ style["symbolBackgroundColor"] = dot
      BY <3>1, StylesAre DEF style
    <3>3. buildSwatch(style).shape = "dot" /\ buildSwatch(style).paints = {dot}
      BY <3>2, SwatchIs
    <3> QED BY <2>2, <3>3 DEF style, colour, fill
  <2>4. CASE ~l.points
    <3>1. SublayerStyle(l) = [stroke |-> stroke, fill |-> fill]
      BY <2>1, <2>4 DEF SublayerStyle
    <3> HIDE DEF dot, style, colour, fill, stroke
    <3>2. Fills(style, fill, stroke)
      BY <3>1, StylesAre DEF style
    <3>3. buildSwatch(style).paints = {fill, stroke}
      BY <3>2, SwatchIs DEF Fills
    <3> QED BY <2>2, <3>3 DEF style, colour, fill
  <2> QED BY <2>3, <2>4
<1>2. LET swatch == buildSwatch(mergedDatasetStyle([dataset |-> "project-site"]))
      IN (\A p \in swatch.paints : p[1] = Red) /\ <<Red, 20>> \in swatch.paints
  <2> DEFINE site == [dataset |-> "project-site"]
             style == mergedDatasetStyle(site)
             stroke == <<Red, 100>>
             fill == <<Red, 20>>
  <2>1. SublayerStyle(site) = <<>> /\ DatasetStyle(site).fill = fill /\ DatasetStyle(site).stroke = stroke
    BY DEF SublayerStyle, DatasetStyle
  <2>2. stroke[1] = Red /\ fill[1] = Red
    OBVIOUS
  <2> HIDE DEF site, style, stroke, fill
  <2>3. Fills(style, fill, stroke)
    BY <2>1, StylesAre DEF style
  <2>4. buildSwatch(style).paints = {fill, stroke}
    BY <2>3, SwatchIs DEF Fills
  <2> QED BY <2>2, <2>4 DEF site, style, fill
<1> QED BY <1>1, <1>2

\* A row's symbol is in the paint the image has for an id.
InItsPaint(row, id) ==
  LET swatch == LayersKeyPanel[row].swatch
      image == renderStaticMapOverlaySvg(page.files)
      paint == image[CHOOSE k \in DOMAIN image : image[k].id = id].paint
  IN /\ \A p \in swatch.paints : p[1] = paint.colour
     /\ swatch.shape # "dot" => <<paint.colour, paint.opacity>> \in swatch.paints

LEMMA CategoryInItsPaint ==
  ASSUME page \in MapPages, page.kind = "category"
  PROVE  /\ InItsPaint(Len(buildDatasets), "site")
         /\ \A f \in Features, k \in 1 .. Cardinality(Layers) :
              Draws(buildDatasets[k], f) =>
                InItsPaint(k, f.id) /\ buildDatasets[k].colour = f.colour /\ buildDatasets[k].opacity = f.opacity
<1> DEFINE n == Cardinality(Layers)
           image == renderStaticMapOverlaySvg(page.files)
           Of(id) == image[CHOOSE k \in DOMAIN image : image[k].id = id].paint
           Swatch(row) == LayersKeyPanel[row].swatch
<1>1. /\ n \in Nat /\ Len(buildDatasets) = n + 1 /\ DOMAIN buildDatasets = 1 .. n + 1
      /\ buildDatasets[n + 1] = [dataset |-> "project-site"]
      /\ \A k \in 1 .. n : buildDatasets[k] \in Layers
  BY CategoryLayersAre
<1>2. /\ \A f \in Features : Of(f.id) = [colour |-> Palette(f.colour), opacity |-> f.opacity]
      /\ Of("site") = [colour |-> Red, opacity |-> 20]
  BY FoundOnImage
<1>3. \A row \in 1 .. n + 1 : Swatch(row) = buildSwatch(mergedDatasetStyle(buildDatasets[row]))
  BY <1>1, PanelIs
<1>4. \A row, id : InItsPaint(row, id) <=>
                     /\ \A p \in Swatch(row).paints : p[1] = Of(id).colour
                     /\ Swatch(row).shape # "dot" => <<Of(id).colour, Of(id).opacity>> \in Swatch(row).paints
  BY DEF InItsPaint
<1> HIDE DEF n, Of, Swatch
<1>5. InItsPaint(n + 1, "site")
  <2>1. /\ \A p \in Swatch(n + 1).paints : p[1] = Red
        /\ <<Red, 20>> \in Swatch(n + 1).paints
    BY <1>1, <1>3, CategorySwatches
  <2>2. Of("site").colour = Red /\ Of("site").opacity = 20
    BY <1>2
  <2> QED BY <1>4, <2>1, <2>2
<1>6. ASSUME NEW f \in Features, NEW k \in 1 .. n, Draws(buildDatasets[k], f)
      PROVE  InItsPaint(k, f.id) /\ buildDatasets[k].colour = f.colour /\ buildDatasets[k].opacity = f.opacity
  <2> DEFINE own == Layer(Features, f.category, f.identified)
  <2>1. own \in Layers /\ own.colour = f.colour /\ own.opacity = f.opacity
    BY LayerIs
  <2> HIDE DEF own
  <2>2. buildDatasets[k] = own
    BY <1>6, OneDraws DEF n, own
  <2>3. /\ \A p \in Swatch(k).paints : p[1] = Palette(f.colour)
        /\ Swatch(k).shape # "dot" => <<Palette(f.colour), f.opacity>> \in Swatch(k).paints
    <3>1. Swatch(k) = buildSwatch(mergedDatasetStyle(own))
      BY <1>1, <1>3, <2>2
    <3> QED BY <2>1, <3>1, CategorySwatches
  <2>4. Of(f.id).colour = Palette(f.colour) /\ Of(f.id).opacity = f.opacity
    <3>1. Of(f.id) = [colour |-> Palette(f.colour), opacity |-> f.opacity]
      BY <1>2
    <3> QED BY ONLY <3>1
  <2>5. InItsPaint(k, f.id)
    BY ONLY <1>4, <2>3, <2>4
  <2> QED BY <2>1, <2>2, <2>5
<1> QED BY <1>1, <1>5, <1>6 DEF n

\* A category's map is painted alike.
LEMMA CategoryPaintedAlike ==
  ASSUME page \in MapPages, page.kind = "category"
  PROVE  PaintedAlike
<1> DEFINE n == Cardinality(Layers)
           layers == buildDatasets
           features == consulteeGeojson
           LayersOf(f) == {k \in 1 .. Len(layers) - 1 : Draws(layers[k], f)}
           Own(f) == CHOOSE k \in LayersOf(f) : TRUE
<1>1. n \in Nat /\ Len(layers) = n + 1 /\ DOMAIN layers = 1 .. n + 1 /\ Len(layers) - 1 = n
  BY CategoryLayersAre
<1>2. ToSet(features) = Features /\ \A i \in DOMAIN features : features[i] \in Features
  BY FeaturesAreListed DEF ToSet
<1>3. /\ InItsPaint(Len(layers), "site")
      /\ \A f \in Features, k \in 1 .. n :
           Draws(layers[k], f) =>
             InItsPaint(k, f.id) /\ layers[k].colour = f.colour /\ layers[k].opacity = f.opacity
  BY CategoryInItsPaint
<1>4. ASSUME NEW f \in Features
      PROVE  /\ Own(f) \in 1 .. n /\ LayersOf(f) = {Own(f)} /\ Cardinality(LayersOf(f)) = 1
             /\ Draws(layers[Own(f)], f)
  <2>1. PICK k \in 1 .. n : \A j \in 1 .. n : Draws(layers[j], f) <=> j = k
    BY OneDraws
  <2>2. LayersOf(f) = {k}
    BY <1>1, <2>1
  <2>3. Own(f) = k
    BY <2>2
  <2> HIDE DEF LayersOf, Own
  <2> QED BY <2>1, <2>2, <2>3, FS_Singleton
<1>5. ASSUME NEW f \in Features, NEW g \in Features, f.opacity < g.opacity PROVE Own(f) < Own(g)
  <2>1. layers[Own(f)].opacity = f.opacity /\ layers[Own(g)].opacity = g.opacity
    BY <1>3, <1>4
  <2> HIDE DEF Own
  <2>2. layers[Own(f)] = buildCategorySublayers[Own(f)] /\ layers[Own(g)] = buildCategorySublayers[Own(g)]
    BY <1>4, CategoryLayersAre
  <2>3. Own(f) \in DOMAIN buildCategorySublayers /\ Own(g) \in DOMAIN buildCategorySublayers
    BY <1>4, LayersAreListed
  <2> QED BY <1>5, <2>1, <2>2, <2>3, LayersAreListed
<1> HIDE DEF n, LayersOf, Own
<1>6. Last(renderStaticMapOverlaySvg(page.files)).id = "site"
  BY FoundOnImage
<1>7. ASSUME NEW i \in DOMAIN features
      PROVE  LET f == features[i]
                 k == Own(f)
             IN /\ Cardinality(LayersOf(f)) = 1
                /\ layers[k].colour = f.colour /\ layers[k].opacity = f.opacity
                /\ InItsPaint(k, f.id) /\ layers[k] \in buildSelectableLayers
                /\ \A j \in 1 .. i - 1 :
                     /\ features[j].opacity <= f.opacity
                     /\ features[j].opacity < f.opacity => \A l \in LayersOf(features[j]) : l < k
  <2>1. features[i] \in Features
    BY <1>2
  <2>2. layers[Own(features[i])] \in buildSelectableLayers
    BY <1>1, <1>4, <2>1 DEF buildSelectableLayers, ToSet
  <2>3. ASSUME NEW j \in 1 .. i - 1
        PROVE  /\ features[j].opacity <= features[i].opacity
               /\ features[j].opacity < features[i].opacity =>
                    \A l \in LayersOf(features[j]) : l < Own(features[i])
    <3>1. j \in DOMAIN features /\ j < i
      BY FeaturesAreListed
    <3>2. features[j] \in Features /\ features[j].opacity <= features[i].opacity
      BY <1>2, <3>1, FeaturesAreListed
    <3> HIDE DEF features, layers
    <3> QED BY <1>4, <1>5, <2>1, <3>2
  <2> HIDE DEF features, layers
  <2> QED BY <1>3, <1>4, <2>1, <2>2, <2>3
<1> QED BY <1>3, <1>6, <1>7 DEF PaintedAlike, InItsPaint, LayersOf, Own

-----------------------------------------------------------------------------
(* A boundary page's files *)

\* A list of files, of different ids.
IsFileList(files) ==
  /\ Len(files) \in Nat /\ DOMAIN files = 1 .. Len(files)
  /\ \A i \in 1 .. Len(files) : files[i].at \in Nat
  /\ \A i, j \in 1 .. Len(files) : files[i].id = files[j].id => i = j

LEMMA CasesListFiles ==
  ASSUME NEW files \in FileLists
  PROVE  IsFileList(files) /\ files \in Seq(ToSet(files))
<1>1. /\ files \in Seq(ToSet(files)) /\ \A i \in DOMAIN files : files[i].at \in Nat
      /\ \A i, j \in DOMAIN files : files[i].id = files[j].id => i = j
  BY MapAssumption
<1> QED BY <1>1 DEF IsFileList

\* Each file has a rank of its own, below how many there are, and the newer the lower.
LEMMA RanksAre ==
  ASSUME NEW files, IsFileList(files)
  PROVE  /\ Len(files) \in Nat /\ DOMAIN files = 1 .. Len(files)
         /\ \A i \in 1 .. Len(files) : recencyRanks(files)[i] \in 0 .. Len(files) - 1
         /\ \A i, j \in 1 .. Len(files) : recencyRanks(files)[i] = recencyRanks(files)[j] => i = j
         /\ \A i, j \in 1 .. Len(files) : files[i].at > files[j].at => recencyRanks(files)[i] < recencyRanks(files)[j]
         /\ \A k \in 1 .. Len(files) : \E i \in 1 .. Len(files) : recencyRanks(files)[i] = Len(files) - k
<1> DEFINE n == Len(files)
           Newer(j, i) == files[j].at > files[i].at \/ (files[j].at = files[i].at /\ j < i)
           R == {p \in (1 .. n) \X (1 .. n) : Newer(p[1], p[2])}
           Rank(i) == Cardinality(Before(R, 1 .. n, i))
<1>1. n \in Nat /\ DOMAIN files = 1 .. n /\ \A i \in 1 .. n : files[i].at \in Nat
  BY DEF IsFileList
<1>2. IsFiniteSet(1 .. n) /\ Cardinality(1 .. n) = n
  <2> HIDE DEF n
  <2>1. Cardinality(1 .. n) = IF 1 > n THEN 0 ELSE n - 1 + 1
    BY <1>1, FS_Interval
  <2>2. IsFiniteSet(1 .. n)
    BY <1>1, FS_Interval
  <2> QED BY <1>1, <2>1, <2>2
<1> HIDE DEF n
<1>3. \A i, j \in 1 .. n : <<j, i>> \in R <=> Newer(j, i)
  OBVIOUS
<1> HIDE DEF R
<1>4. Orders(R, 1 .. n)
  <2>1. \A i, j \in 1 .. n : i # j => Newer(i, j) \/ Newer(j, i)
    BY <1>1
  <2>2. \A i \in 1 .. n : ~Newer(i, i)
    BY <1>1
  <2>3. \A i, j, k \in 1 .. n : Newer(i, j) /\ Newer(j, k) => Newer(i, k)
    BY <1>1
  <2> HIDE DEF Newer
  <2> QED BY <1>3, <2>1, <2>2, <2>3 DEF Orders
<1>5. \A i \in 1 .. n : recencyRanks(files)[i] = Rank(i)
  <2>1. \A i \in 1 .. n : {j \in 1 .. n : Newer(j, i)} = Before(R, 1 .. n, i)
    BY <1>3 DEF Before
  <2>2. recencyRanks(files) = [i \in 1 .. n |-> Cardinality({j \in 1 .. n : Newer(j, i)})]
    BY <1>1 DEF recencyRanks
  <2> HIDE DEF Newer
  <2> QED BY <2>1, <2>2
<1>6. /\ \A i \in 1 .. n : Rank(i) \in 0 .. n - 1
      /\ \A i, j \in 1 .. n : <<i, j>> \in R <=> Rank(i) < Rank(j)
      /\ \A i, j \in 1 .. n : Rank(i) = Rank(j) => i = j
      /\ \A k \in 1 .. n : \E i \in 1 .. n : Rank(i) = k - 1
  <2> DEFINE S == 1 .. n
  <2>1. IsFiniteSet(S) /\ Orders(R, S) /\ Cardinality(S) = n
    BY <1>2, <1>4
  <2> HIDE DEF S
  <2>2. /\ \A i \in S : Cardinality(Before(R, S, i)) \in 0 .. Cardinality(S) - 1
        /\ \A i, j \in S : <<i, j>> \in R <=> Cardinality(Before(R, S, i)) < Cardinality(Before(R, S, j))
        /\ \A i, j \in S : Cardinality(Before(R, S, i)) = Cardinality(Before(R, S, j)) => i = j
        /\ \A k \in 1 .. Cardinality(S) : \E i \in S : Cardinality(Before(R, S, i)) = k - 1
    BY <2>1, OneAtEach
  <2> QED BY <2>1, <2>2 DEF S
<1> HIDE DEF Rank
<1>7. \A i, j \in 1 .. n : files[i].at > files[j].at => Rank(i) < Rank(j)
  BY <1>3, <1>6
<1>8. \A k \in 1 .. n : \E i \in 1 .. n : Rank(i) = n - k
  <2> TAKE k \in 1 .. n
  <2> DEFINE m == n + 1 - k
  <2>1. m \in 1 .. n /\ m - 1 = n - k
    BY <1>1
  <2> HIDE DEF m
  <2>2. PICK i \in 1 .. n : Rank(i) = m - 1
    BY <1>6, <2>1
  <2>3. Rank(i) = n - k
    BY <2>1, <2>2
  <2> QED BY <2>3
<1> HIDE DEF Newer
<1> DEFINE ranks == recencyRanks(files)
<1> HIDE DEF ranks
<1>9. \A i \in 1 .. n : ranks[i] = Rank(i)
  BY <1>5 DEF ranks
<1>10. /\ \A i \in 1 .. n : ranks[i] \in 0 .. n - 1
       /\ \A i, j \in 1 .. n : ranks[i] = ranks[j] => i = j
       /\ \A i, j \in 1 .. n : files[i].at > files[j].at => ranks[i] < ranks[j]
  BY ONLY <1>6, <1>7, <1>9
<1>11. \A k \in 1 .. n : \E i \in 1 .. n : ranks[i] = n - k
  BY ONLY <1>8, <1>9
<1> QED BY <1>1, <1>10, <1>11 DEF n, ranks

LEMMA StyleIs ==
  ASSUME NEW rank \in Nat
  PROVE  styleForRank(rank) \in 0 .. EarlierStyles /\ StyleOpacity[styleForRank(rank)] \in 1 .. 100
<1>1. styleForRank(rank) \in 0 .. EarlierStyles
  <2>1. EarlierStyles \in Nat /\ EarlierStyles > 0
    BY MapAssumption
  <2>2. ASSUME rank # 0 PROVE (rank - 1) % EarlierStyles \in 0 .. EarlierStyles - 1
    BY <2>1, <2>2
  <2> QED BY <2>1, <2>2 DEF styleForRank
<1> QED BY <1>1, MapAssumption

\* Listed by age each file is there once, the newest last.
LEMMA InAgeOrderIs ==
  ASSUME NEW files, IsFileList(files)
  PROVE  LET n == Len(files)
             ranks == recencyRanks(files)
         IN /\ n \in Nat /\ Len(InAgeOrder(files)) = n /\ DOMAIN InAgeOrder(files) = 1 .. n
            /\ \A k \in 1 .. n : \E i \in 1 .. n :
                 ranks[i] = n - k /\ InAgeOrder(files)[k] = File(files, i)
<1> DEFINE n == Len(files)
           Oldest(k) == CHOOSE i \in DOMAIN files : recencyRanks(files)[i] = Len(files) - k
           S == {File(files, i) : i \in 1 .. n}
           image == InAgeOrder(files)
<1>1. /\ n \in Nat /\ DOMAIN files = 1 .. n
      /\ \A k \in 1 .. n : \E i \in 1 .. n : recencyRanks(files)[i] = n - k
  BY RanksAre
<1>2. image = [k \in DOMAIN files |-> File(files, Oldest(k))]
  BY DEF InAgeOrder
<1>3. \A k \in 1 .. n : Oldest(k) \in 1 .. n /\ recencyRanks(files)[Oldest(k)] = n - k
  BY <1>1
<1> HIDE DEF n, Oldest, image
<1>4. image \in Seq(S) /\ Len(image) = n /\ DOMAIN image = 1 .. n
  BY <1>1, <1>2, <1>3
<1> QED BY <1>1, <1>2, <1>3, <1>4 DEF n, image

\* By its place each file is found in it.
LEMMA InAgeOrderHas ==
  ASSUME NEW files, IsFileList(files), NEW i \in 1 .. Len(files)
  PROVE  \E k \in 1 .. Len(files) : InAgeOrder(files)[k] = File(files, i)
<1> DEFINE n == Len(files)
           ranks == recencyRanks(files)
           listed == InAgeOrder(files)
           k == n - ranks[i]
<1>1. /\ n \in Nat /\ i \in 1 .. n
      /\ \A j \in 1 .. n : ranks[j] \in 0 .. n - 1
      /\ \A j, l \in 1 .. n : ranks[j] = ranks[l] => j = l
  BY RanksAre
<1>2. \A l \in 1 .. n : \E j \in 1 .. n : ranks[j] = n - l /\ listed[l] = File(files, j)
  BY InAgeOrderIs
<1> HIDE DEF n, ranks, listed
<1>3. k \in 1 .. n /\ n - k = ranks[i]
  BY <1>1
<1> HIDE DEF k
<1>4. PICK j \in 1 .. n : ranks[j] = n - k /\ listed[k] = File(files, j)
  BY <1>2, <1>3
<1>5. j = i
  BY <1>1, <1>3, <1>4
<1> QED BY <1>3, <1>4, <1>5 DEF n, listed

\* The image drawn of what the page lists.
LEMMA FilesOnImage ==
  ASSUME page.files \in FileLists, page.own.id \in Ids(page.files)
  PROVE  LET n == Len(page.files)
             ranks == recencyRanks(page.files)
             image == allBoundaryFilesGeojson(page.files)
         IN /\ n \in Nat /\ Len(image) = n /\ DOMAIN image = 1 .. n
            /\ \A k \in 1 .. n : \E i \in 1 .. n : ranks[i] = n - k /\ image[k] = File(page.files, i)
            /\ \A i \in 1 .. n : \E k \in 1 .. n : image[k] = File(page.files, i)
<1>1. IsFileList(page.files)
  BY CasesListFiles
<1>2. allBoundaryFilesGeojson(page.files) = InAgeOrder(page.files)
  BY DEF allBoundaryFilesGeojson
<1> DEFINE n == Len(page.files)
           ranks == recencyRanks(page.files)
           image == allBoundaryFilesGeojson(page.files)
<1>3. /\ n \in Nat /\ Len(InAgeOrder(page.files)) = n /\ DOMAIN InAgeOrder(page.files) = 1 .. n
      /\ \A k \in 1 .. n : \E i \in 1 .. n : ranks[i] = n - k /\ InAgeOrder(page.files)[k] = File(page.files, i)
  BY <1>1, InAgeOrderIs
<1>4. \A i \in 1 .. n : \E k \in 1 .. n : InAgeOrder(page.files)[k] = File(page.files, i)
  BY <1>1, InAgeOrderHas
<1>5. image = InAgeOrder(page.files)
  BY <1>2
<1> HIDE DEF n, ranks, image
<1>6. /\ n \in Nat /\ Len(image) = n /\ DOMAIN image = 1 .. n
      /\ \A k \in 1 .. n : \E i \in 1 .. n : ranks[i] = n - k /\ image[k] = File(page.files, i)
      /\ \A i \in 1 .. n : \E k \in 1 .. n : image[k] = File(page.files, i)
  BY <1>3, <1>4, <1>5
<1> QED BY <1>6 DEF n, ranks, image

\* The image drawn of any files has them, and the page's own.
LEMMA ImageHasItsFiles ==
  ASSUME page \in MapPages, page.kind = "boundary", NEW listed \in FileLists
  PROVE  {f.id : f \in ToSet(allBoundaryFilesGeojson(listed))} = Ids(listed) \cup {page.own.id}
<1> DEFINE S == ToSet(listed) \cup {page.own}
           longer == Append(listed, page.own)
           files == IF page.own.id \in Ids(listed) THEN listed ELSE longer
           n == Len(files)
           image == InAgeOrder(files)
<1>1. page.own.at \in Nat
  <2>1. PICK list \in FileLists : page.own \in ToSet(list)
    BY PagesAreOf
  <2> QED BY <2>1, CasesListFiles DEF IsFileList, ToSet
<1>2. IsFileList(listed) /\ listed \in Seq(S) /\ page.own \in S
  BY CasesListFiles
<1> HIDE DEF S
<1>3. /\ longer \in Seq(S) /\ Len(longer) = Len(listed) + 1
      /\ \A i \in 1 .. Len(listed) : longer[i] = listed[i]
      /\ longer[Len(listed) + 1] = page.own
  BY <1>2, AppendProperties
<1>4. DOMAIN longer = 1 .. Len(listed) + 1
  BY <1>3
<1> HIDE DEF longer
<1>5. \A id : id \in Ids(listed) <=> \E i \in 1 .. Len(listed) : listed[i].id = id
  BY <1>2 DEF Ids, IsFileList
<1>6. page.own.id \notin Ids(listed) => IsFileList(longer)
  BY <1>1, <1>2, <1>3, <1>4, <1>5 DEF IsFileList
<1>7. /\ IsFileList(files)
      /\ \A id : (\E i \in 1 .. n : files[i].id = id) <=> id \in Ids(listed) \cup {page.own.id}
  <2>1. CASE page.own.id \in Ids(listed)
    BY <1>2, <1>5, <2>1
  <2>2. CASE page.own.id \notin Ids(listed)
    <3>1. files = longer /\ n = Len(listed) + 1 /\ Len(listed) \in Nat
      BY <1>2, <1>3, <2>2 DEF IsFileList
    <3>2. ASSUME NEW id
          PROVE  (\E i \in 1 .. n : longer[i].id = id) <=> id \in Ids(listed) \cup {page.own.id}
      <4>1. (\E i \in 1 .. n : longer[i].id = id) <=>
              (\E i \in 1 .. Len(listed) : longer[i].id = id) \/ longer[Len(listed) + 1].id = id
        BY <3>1
      <4> QED BY <1>3, <1>5, <4>1
    <3> HIDE DEF files, n
    <3> QED BY <1>6, <2>2, <3>1, <3>2
  <2> QED BY <2>1, <2>2
<1>8. allBoundaryFilesGeojson(listed) = image
  BY DEF allBoundaryFilesGeojson, longer
<1> HIDE DEF files
<1>9. /\ DOMAIN image = 1 .. n
      /\ \A k \in 1 .. n : \E i \in 1 .. n : image[k] = File(files, i)
      /\ \A i \in 1 .. n : \E k \in 1 .. n : image[k] = File(files, i)
  BY <1>7, InAgeOrderIs, InAgeOrderHas
<1>10. \A i : File(files, i).id = files[i].id
  BY DEF File
<1> HIDE DEF image, n
<1>11. \A id : id \in {f.id : f \in ToSet(image)} <=> \E i \in 1 .. n : files[i].id = id
  <2>1. \A id : id \in {f.id : f \in ToSet(image)} <=> \E k \in 1 .. n : image[k].id = id
    BY <1>9 DEF ToSet
  <2>2. ASSUME NEW id PROVE (\E k \in 1 .. n : image[k].id = id) <=> \E i \in 1 .. n : files[i].id = id
    <3>1. \A k \in 1 .. n : \E i \in 1 .. n : image[k].id = files[i].id
      <4> TAKE k \in 1 .. n
      <4>1. PICK i \in 1 .. n : image[k] = File(files, i)
        BY <1>9
      <4>2. image[k].id = files[i].id
        BY <1>10, <4>1
      <4> QED BY <4>2
    <3>2. \A i \in 1 .. n : \E k \in 1 .. n : image[k].id = files[i].id
      BY <1>9, <1>10
    <3> QED BY <3>1, <3>2
  <2> QED BY <2>1, <2>2
<1> QED BY <1>7, <1>8, <1>11

\* Each is painted in its style's colour and fill.
LEMMA BoundaryImageIs ==
  ASSUME page \in MapPages, page.kind = "boundary", page.own.id \in Ids(page.files)
  PROVE  LET n == Len(page.files)
             image == renderStaticMapOverlaySvg(page.files)
         IN /\ DOMAIN image = 1 .. n
            /\ \A k \in 1 .. n :
                 LET f == allBoundaryFilesGeojson(page.files)[k]
                 IN /\ image[k].id = f.id
                    /\ image[k].paint = [colour |-> FileColour(f.style), opacity |-> StyleOpacity[f.style]]
<1> DEFINE n == Len(page.files)
           listed == allBoundaryFilesGeojson(page.files)
           Path(f) == [id |-> f.id, paint |-> projectColours(FileColour(f.style), StyleOpacity[f.style])]
           paths == projectPaths(page.files)
           S == {Path(listed[k]) : k \in 1 .. n}
<1>1. page.files \in FileLists /\ Features = {}
  BY PagesAreOf, FeaturesAre
<1>2. /\ n \in Nat /\ DOMAIN listed = 1 .. n
      /\ \A k \in 1 .. n : \E i \in 1 .. n :
           recencyRanks(page.files)[i] = n - k /\ listed[k] = File(page.files, i)
  BY <1>1, FilesOnImage
<1>3. consulteePaths = <<>>
  <2>1. DOMAIN consulteeGeojson = {}
    <3>1. Cardinality(Features) = 0
      BY <1>1, FS_EmptySet
    <3> QED BY <3>1, FeaturesAreListed
  <2> QED BY <2>1 DEF consulteePaths
<1>4. paths = [k \in 1 .. n |-> Path(listed[k])]
  BY <1>2 DEF projectPaths
<1>5. ASSUME NEW k \in 1 .. n
      PROVE  /\ Path(listed[k]).id = listed[k].id
             /\ Path(listed[k]).paint = [colour |-> FileColour(listed[k].style), opacity |-> StyleOpacity[listed[k].style]]
  <2>1. PICK i \in 1 .. n : listed[k] = File(page.files, i)
    BY <1>2
  <2>2. recencyRanks(page.files)[i] \in Nat
    <3>1. \A j \in 1 .. Len(page.files) : recencyRanks(page.files)[j] \in 0 .. Len(page.files) - 1
      BY <1>1, CasesListFiles, RanksAre
    <3> QED BY <3>1
  <2>3. StyleOpacity[listed[k].style] \in 1 .. 100
    <3>1. listed[k].style = styleForRank(recencyRanks(page.files)[i])
      BY <2>1 DEF File
    <3> HIDE DEF listed
    <3> QED BY <2>2, <3>1, StyleIs
  <2>4. FileColour(listed[k].style) # <<>>
    BY DEF FileColour
  <2> QED BY <2>3, <2>4 DEF projectColours, featureColours
<1> HIDE DEF Path, paths, listed, n
<1>6. paths \in Seq(S) /\ renderStaticMapOverlaySvg(page.files) = paths
  <2>1. paths \in Seq(S)
    <3>1. \A k \in 1 .. n : Path(listed[k]) \in S
      OBVIOUS
    <3> HIDE DEF S
    <3> QED BY <1>2, <1>4, <3>1
  <2> HIDE DEF S
  <2> QED BY <1>3, <2>1 DEF renderStaticMapOverlaySvg, paths
<1> QED BY <1>4, <1>5, <1>6 DEF n, listed

StyleOf(i) == styleForRank(recencyRanks(page.files)[i])

\* By its id each file is found on the image, in the style it has on the map.
LEMMA FileFoundOnImage ==
  ASSUME page \in MapPages, page.kind = "boundary", page.own.id \in Ids(page.files),
         NEW i \in 1 .. Len(page.files)
  PROVE  LET image == renderStaticMapOverlaySvg(page.files)
             paint == image[CHOOSE k \in DOMAIN image : image[k].id = page.files[i].id].paint
         IN /\ paint = [colour |-> FileColour(StyleOf(i)), opacity |-> StyleOpacity[StyleOf(i)]]
            /\ \E k \in DOMAIN allBoundaryFilesGeojson(page.files) :
                 allBoundaryFilesGeojson(page.files)[k] = [id |-> page.files[i].id, style |-> StyleOf(i)]
<1> DEFINE n == Len(page.files)
           files == page.files
           listed == allBoundaryFilesGeojson(page.files)
           image == renderStaticMapOverlaySvg(page.files)
           ranks == recencyRanks(files)
           id == files[i].id
           place == CHOOSE k \in DOMAIN image : image[k].id = id
           Paint(style) == [colour |-> FileColour(style), opacity |-> StyleOpacity[style]]
<1>1. files \in FileLists
  BY PagesAreOf
<1>2. /\ n \in Nat /\ DOMAIN files = 1 .. n
      /\ \A j \in 1 .. n : ranks[j] \in 0 .. n - 1
      /\ \A j, k \in 1 .. n : ranks[j] = ranks[k] => j = k
  BY <1>1, CasesListFiles, RanksAre
<1>3. \A j, k \in 1 .. n : files[j].id = files[k].id => j = k
  BY <1>1, <1>2, MapAssumption
<1>4. /\ DOMAIN listed = 1 .. n
      /\ \A k \in 1 .. n : \E j \in 1 .. n : ranks[j] = n - k /\ listed[k] = File(files, j)
  BY <1>1, FilesOnImage
<1>5. /\ DOMAIN image = 1 .. n
      /\ \A k \in 1 .. n : image[k].id = listed[k].id /\ image[k].paint = Paint(listed[k].style)
  BY BoundaryImageIs
<1>6. \A j : File(files, j).id = files[j].id /\ File(files, j).style = StyleOf(j)
             /\ File(files, j) = [id |-> files[j].id, style |-> StyleOf(j)]
  BY DEF File, StyleOf
<1>7. i \in 1 .. n
  OBVIOUS
<1> HIDE DEF n, listed, image, ranks
<1>8. \E k \in 1 .. n : listed[k] = File(files, i)
  BY <1>1, <1>7, FilesOnImage DEF n, listed
<1>9. \E k \in DOMAIN image : image[k].id = id
  BY <1>5, <1>6, <1>8
<1>10. place \in 1 .. n /\ image[place].id = id
  BY <1>5, <1>9
<1> HIDE DEF place
<1>11. image[place].paint = Paint(StyleOf(i))
  <2>1. PICK j \in 1 .. n : listed[place] = File(files, j)
    BY <1>4, <1>10
  <2>2. j = i
    <3>1. image[place].id = files[j].id
      BY <1>5, <1>6, <1>10, <2>1
    <3>2. files[j].id = files[i].id
      BY <1>10, <3>1
    <3> QED BY <1>3, <1>7, <3>2
  <2> HIDE DEF Paint
  <2> QED BY <1>5, <1>6, <1>10, <2>1, <2>2
<1> QED BY <1>4, <1>6, <1>8, <1>11 DEF n, listed, image, place

\* A file's layer is in its style, and so is its row's symbol.
LEMMA BoundaryLayersAre ==
  ASSUME page \in MapPages, page.kind = "boundary"
  PROVE  LET n == Len(page.files)
         IN /\ n \in Nat /\ Len(buildDatasets) = n /\ DOMAIN buildDatasets = 1 .. n
            /\ \A i \in 1 .. n :
                 LET colour == FileColour(StyleOf(i))
                     swatch == buildSwatch(mergedDatasetStyle(buildDatasets[i]))
                 IN /\ buildDatasets[i].dataset = page.files[i].id /\ buildDatasets[i].style = StyleOf(i)
                    /\ \A p \in swatch.paints : p[1] = colour
                    /\ <<colour, StyleOpacity[StyleOf(i)]>> \in swatch.paints
<1> DEFINE n == Len(page.files)
           layers == buildDatasets
           Of(i) == [dataset |-> page.files[i].id, style |-> buildBoundaryMapConfig[i].style]
           S == {Of(i) : i \in 1 .. n}
<1>1. n \in Nat /\ DOMAIN page.files = 1 .. n
  BY PagesAreOf, CasesListFiles, RanksAre
<1>2. layers = [i \in DOMAIN page.files |-> Of(i)]
  BY DEF buildDatasets
<1>3. \A i \in 1 .. n : Of(i).dataset = page.files[i].id /\ Of(i).style = StyleOf(i)
  BY <1>1 DEF buildBoundaryMapConfig, File, StyleOf
<1> HIDE DEF n, layers, Of
<1>4. \A i \in 1 .. n : Of(i) \in S
  OBVIOUS
<1> HIDE DEF S
<1>5. layers \in Seq(S) /\ Len(layers) = n /\ DOMAIN layers = 1 .. n /\ \A i \in 1 .. n : layers[i] = Of(i)
  BY <1>1, <1>2, <1>4
<1>6. ASSUME NEW i \in 1 .. n
      PROVE  LET colour == FileColour(StyleOf(i))
                 swatch == buildSwatch(mergedDatasetStyle(layers[i]))
             IN /\ \A p \in swatch.paints : p[1] = colour
                /\ <<colour, StyleOpacity[StyleOf(i)]>> \in swatch.paints
  <2> DEFINE layer == layers[i]
             colour == FileColour(StyleOf(i))
             style == mergedDatasetStyle(layer)
             stroke == <<colour, 100>>
             fill == <<colour, StyleOpacity[StyleOf(i)]>>
  <2>1. layer.style = StyleOf(i)
    BY <1>3, <1>5
  <2> HIDE DEF layer
  <2>2. SublayerStyle(layer) = <<>> /\ DatasetStyle(layer).fill = fill /\ DatasetStyle(layer).stroke = stroke
    BY <2>1 DEF SublayerStyle, DatasetStyle
  <2>3. stroke[1] = colour /\ fill[1] = colour
    OBVIOUS
  <2> HIDE DEF style, stroke, fill, colour
  <2>4. Fills(style, fill, stroke)
    BY <2>2, StylesAre DEF style
  <2>5. buildSwatch(style).paints = {fill, stroke}
    BY <2>4, SwatchIs DEF Fills
  <2> QED BY <2>3, <2>5 DEF layer, style, fill, colour
<1> QED BY <1>1, <1>3, <1>5, <1>6 DEF n, layers

\* A boundary page's map is painted alike.
LEMMA BoundaryPaintedAlike ==
  ASSUME page \in MapPages, page.kind = "boundary", page.own.id \in Ids(page.files)
  PROVE  PaintedAlike
<1> DEFINE n == Len(page.files)
           layers == buildDatasets
           files == allBoundaryFilesGeojson(page.files)
           ranks == recencyRanks(page.files)
           Named(id) == CHOOSE f \in ToSet(page.files) : f.id = id
<1>1. page.files \in FileLists
  BY PagesAreOf
<1>2. /\ n \in Nat /\ DOMAIN page.files = 1 .. n
      /\ \A i \in 1 .. n : ranks[i] \in 0 .. n - 1
      /\ \A i, j \in 1 .. n : page.files[i].at > page.files[j].at => ranks[i] < ranks[j]
  BY <1>1, CasesListFiles, RanksAre
<1>3. /\ Len(files) = n /\ DOMAIN files = 1 .. n
      /\ \A k \in 1 .. n : \E i \in 1 .. n : ranks[i] = n - k /\ files[k] = File(page.files, i)
  BY <1>1, FilesOnImage
<1>4. /\ Len(layers) = n /\ DOMAIN layers = 1 .. n
      /\ \A i \in 1 .. n : layers[i].style = StyleOf(i)
  BY BoundaryLayersAre
<1>5. ASSUME NEW i \in 1 .. n
      PROVE  /\ InItsPaint(i, page.files[i].id)
             /\ \E k \in DOMAIN files : files[k] = [id |-> page.files[i].id, style |-> layers[i].style]
  <2> DEFINE swatch == LayersKeyPanel[i].swatch
             image == renderStaticMapOverlaySvg(page.files)
             paint == image[CHOOSE k \in DOMAIN image : image[k].id = page.files[i].id].paint
  <2>1. swatch = buildSwatch(mergedDatasetStyle(layers[i]))
    BY <1>4, PanelIs
  <2>2. /\ \A p \in swatch.paints : p[1] = FileColour(StyleOf(i))
        /\ <<FileColour(StyleOf(i)), StyleOpacity[StyleOf(i)]>> \in swatch.paints
    BY <2>1, BoundaryLayersAre
  <2>3. /\ paint = [colour |-> FileColour(StyleOf(i)), opacity |-> StyleOpacity[StyleOf(i)]]
        /\ \E k \in DOMAIN files : files[k] = [id |-> page.files[i].id, style |-> StyleOf(i)]
    BY FileFoundOnImage
  <2> HIDE DEF swatch, paint, files, layers
  <2>4. paint.colour = FileColour(StyleOf(i)) /\ paint.opacity = StyleOpacity[StyleOf(i)]
    BY ONLY <2>3
  <2>5. InItsPaint(i, page.files[i].id)
    <3>1. /\ \A p \in swatch.paints : p[1] = paint.colour
          /\ <<paint.colour, paint.opacity>> \in swatch.paints
      BY ONLY <2>2, <2>4
    <3> QED BY <3>1 DEF InItsPaint, swatch, paint
  <2> QED BY <1>4, <2>3, <2>5
<1>6. ASSUME NEW i \in 1 .. n
      PROVE  page.files[i].at <= Named(Last(files).id).at
  <2>1. n \in 1 .. n
    BY <1>2
  <2>2. PICK top \in 1 .. n : ranks[top] = n - n /\ files[n] = File(page.files, top)
    BY <1>3, <2>1
  <2>3. Last(files).id = page.files[top].id
    BY <1>3, <2>2 DEF Last, File
  <2>4. Named(page.files[top].id) = page.files[top]
    <3>1. \A f \in ToSet(page.files) : f.id = page.files[top].id => f = page.files[top]
      BY <1>1, <1>2, MapAssumption DEF ToSet
    <3>2. page.files[top] \in ToSet(page.files)
      BY <1>2 DEF ToSet
    <3> QED BY <3>1, <3>2
  <2>5. ~(page.files[i].at > page.files[top].at)
    BY <1>2, <2>2
  <2>6. page.files[i].at \in Nat /\ page.files[top].at \in Nat
    BY <1>1, <1>2, MapAssumption
  <2> HIDE DEF files, Named
  <2> QED BY <2>3, <2>4, <2>5, <2>6
<1> QED BY <1>2, <1>3, <1>4, <1>5, <1>6 DEF PaintedAlike, InItsPaint

-----------------------------------------------------------------------------
(* What the rows of the panel take away *)

\* What is hidden is what was last unticked; a boundary page's image is of files the
\* case had.
MapsInv ==
  /\ page \in MapPages
  /\ hidden = {row \in DOMAIN checkedCache : ~checkedCache[row]}
  /\ page.kind = "boundary" /\ container = "image" => imaged \in FileLists

LEMMA HiddenIs ==
  ASSUME MapsInv, NEW row
  PROVE  row \in hidden <=> ~checkedFor(row)
BY DEF MapsInv, checkedFor

\* When a row takes its layer away, or there is nothing to see.
Gone(row) == (container = "map" /\ row \in hidden) \/ container \notin {"map", "image"}

LEMMA CategoryRowsHideTheirOwn ==
  ASSUME MapsInv, page.kind = "category"
  PROVE  RowsHideTheirOwn
<1> DEFINE n == Cardinality(Layers)
           layers == buildDatasets
           Own(f) == CHOOSE k \in 1 .. Len(layers) - 1 : Draws(layers[k], f)
           Shown == {k \in DOMAIN layers : k \notin hidden}
           drawn == {f \in ToSet(consulteeGeojson) : \E k \in Shown \ {Len(layers)} : Draws(layers[k], f)}
<1>1. page \in MapPages
  BY DEF MapsInv
<1>2. /\ n \in Nat /\ Len(layers) = n + 1 /\ DOMAIN layers = 1 .. n + 1 /\ Len(layers) - 1 = n
      /\ (DOMAIN layers) \ {Len(layers)} = 1 .. n
  BY <1>1, CategoryLayersAre
<1>3. ToSet(consulteeGeojson) = Features
  BY <1>1, FeaturesAreListed
<1>4. ASSUME NEW f \in Features
      PROVE  Own(f) \in 1 .. n /\ \A k \in 1 .. n : Draws(layers[k], f) <=> k = Own(f)
  <2>1. PICK k \in 1 .. n : \A j \in 1 .. n : Draws(layers[j], f) <=> j = k
    BY <1>1, OneDraws
  <2>2. Own(f) = k
    BY <1>2, <2>1
  <2> HIDE DEF Own
  <2> QED BY <2>1, <2>2
<1> HIDE DEF n, Own, layers
<1>5. ASSUME NEW f \in Features PROVE f \in drawn <=> Own(f) \notin hidden
  BY <1>2, <1>3, <1>4
<1>6. \A f \in Features : LayersKeyPanel[Own(f)].checked <=> Own(f) \notin hidden
  <2>1. \A f \in Features : Own(f) \in DOMAIN buildDatasets
    BY <1>2, <1>4 DEF layers
  <2> QED BY <2>1, PanelIs, HiddenIs
<1>7. Seen = IF container = "map" THEN {f.id : f \in drawn}
             ELSE IF container # "image" THEN {} ELSE {f.id : f \in ToSet(consulteeGeojson)}
  BY DEF Seen, layers
<1>8. drawn \subseteq Features
  BY <1>3
<1> HIDE DEF drawn
<1>9. ASSUME NEW f \in Features
      PROVE  f.id \notin Seen <=> Gone(Own(f))
  <2>1. f.id \in {g.id : g \in drawn} <=> f \in drawn
    BY <1>1, <1>8, FeaturesAre
  <2>2. f.id \in {g.id : g \in ToSet(consulteeGeojson)}
    BY <1>3
  <2> QED BY <1>5, <1>7, <2>1, <2>2 DEF Gone
<1>10. \A f \in Features : Gone(Own(f)) <=>
          (container = "map" /\ ~LayersKeyPanel[Own(f)].checked) \/ container \notin {"map", "image"}
  BY <1>6 DEF Gone
<1> QED BY <1>3, <1>9, <1>10 DEF RowsHideTheirOwn, Own, layers

LEMMA BoundaryRowsHideTheirOwn ==
  ASSUME MapsInv, page.kind = "boundary"
  PROVE  RowsHideTheirOwn
<1> DEFINE n == Len(page.files)
           layers == buildDatasets
           Shown == {k \in DOMAIN layers : k \notin hidden}
           Lacking(id) == container = "image" /\ id \notin Ids(imaged) \cup {page.own.id}
<1>1. page \in MapPages /\ page.files \in FileLists
  BY PagesAreOf DEF MapsInv
<1>2. n \in Nat /\ DOMAIN page.files = 1 .. n /\ DOMAIN layers = 1 .. n
  BY <1>1, BoundaryLayersAre, CasesListFiles DEF IsFileList
<1>3. \A i, j \in 1 .. n : page.files[i].id = page.files[j].id => i = j
  BY <1>1, CasesListFiles DEF IsFileList
<1>4. Seen = IF container = "map" THEN {page.files[k].id : k \in Shown}
             ELSE IF container # "image" THEN {} ELSE {f.id : f \in ToSet(allBoundaryFilesGeojson(imaged))}
  BY DEF Seen
<1>5. container = "image" =>
        {f.id : f \in ToSet(allBoundaryFilesGeojson(imaged))} = Ids(imaged) \cup {page.own.id}
  BY <1>1, ImageHasItsFiles DEF MapsInv
<1> HIDE DEF n
<1>6. ASSUME NEW i \in 1 .. n
      PROVE  page.files[i].id \notin Seen <=> Gone(i) \/ Lacking(page.files[i].id)
  <2>1. page.files[i].id \in {page.files[k].id : k \in Shown} <=> i \notin hidden
    BY <1>2, <1>3
  <2> HIDE DEF Shown
  <2> QED BY <1>4, <1>5, <2>1 DEF Gone
<1>7. \A i \in 1 .. n : LayersKeyPanel[i].checked <=> i \notin hidden
  BY <1>2, PanelIs, HiddenIs
<1>8. \A i \in 1 .. n : Gone(i) <=>
          (container = "map" /\ ~LayersKeyPanel[i].checked) \/ container \notin {"map", "image"}
  BY <1>7 DEF Gone
<1> QED BY <1>2, <1>6, <1>8 DEF RowsHideTheirOwn

LEMMA AlikeFromInv == MapsInv => DrawnAlike
<1> SUFFICES ASSUME MapsInv PROVE DrawnAlike
  OBVIOUS
<1>1. page \in MapPages
  BY DEF MapsInv
<1>2. page.kind = "category" \/ page.kind = "boundary"
  BY <1>1, PagesAreOf
<1>3. CASE page.kind = "category"
  BY <1>1, <1>3, CategoryPaintedAlike, CategoryRowsHideTheirOwn DEF DrawnAlike
<1>4. CASE page.kind = "boundary"
  <2>1. page.own.id \in Ids(page.files) => PaintedAlike
    BY <1>1, <1>4, BoundaryPaintedAlike
  <2>2. page.own.id \notin Ids(page.files) => PaintedAlike
    BY <1>4 DEF PaintedAlike
  <2> QED BY <1>4, <2>1, <2>2, BoundaryRowsHideTheirOwn DEF DrawnAlike
<1> QED BY <1>2, <1>3, <1>4

\* A row ticked or unticked keeps what is hidden with what is unticked; loading the page
\* unhides and forgets both.
LEMMA MapsInvIsKept == MapsInv /\ [MapNext]_mapVars => MapsInv'
<1> SUFFICES ASSUME MapsInv, [MapNext]_mapVars PROVE MapsInv'
  OBVIOUS
<1> USE DEF MapsInv
<1>1. ASSUME Loaded
      PROVE  hidden' = {row \in DOMAIN checkedCache' : ~checkedCache'[row]} /\ container' # "image"
  BY <1>1 DEF Loaded, Places
<1>2. CASE initConsulteeMap
  BY <1>2 DEF initConsulteeMap, showStaticMapFallback
<1>3. CASE AppLoads
  BY <1>3 DEF AppLoads
<1>4. CASE watchForMapError
  BY <1>4 DEF watchForMapError, showStaticMapFallback
<1>5. ASSUME NEW row \in buildLayersMenu, onToggle(row) PROVE MapsInv'
  <2> DEFINE checked == ~checkedFor(row)
  <2>1. /\ checkedCache' = [r \in DOMAIN checkedCache \cup {row} |-> IF r = row THEN checked ELSE checkedCache[r]]
        /\ hidden' = IF checked THEN hidden \ {row} ELSE hidden \cup {row}
        /\ page' = page /\ container' = container /\ imaged' = imaged
    BY <1>5 DEF onToggle
  <2> HIDE DEF checked
  <2>2. /\ DOMAIN checkedCache' = DOMAIN checkedCache \cup {row} /\ checkedCache'[row] = checked
        /\ \A r \in (DOMAIN checkedCache) \ {row} : checkedCache'[r] = checkedCache[r]
    BY <2>1
  <2>3. ASSUME NEW r
        PROVE  r \in hidden' <=> r \in DOMAIN checkedCache' /\ ~checkedCache'[r]
    BY <2>1, <2>2
  <2> QED BY <2>1, <2>3
<1>6. ASSUME NEW shapefile, NEW listed \in FileLists, buildBoundarySubmit(shapefile, listed) PROVE MapsInv'
  <2>1. CASE shapefile \in Ids(listed)
    BY <1>6, <2>1 DEF buildBoundarySubmit
  <2>2. CASE shapefile \notin Ids(listed)
    <3>1. page.kind = "boundary" /\ page' = [page EXCEPT !.files = listed] /\ Loaded
      BY <1>6, <2>2 DEF buildBoundarySubmit
    <3>2. PICK files \in FileLists, own \in UNION {ToSet(f) : f \in FileLists} : page = BoundaryPage(files, own)
      <4>1. \A how, geometries : CategoryPage(how, geometries).kind = "category"
        BY DEF CategoryPage
      <4> QED BY <3>1, <4>1 DEF MapPages
    <3>3. page' = BoundaryPage(listed, own)
      BY <3>1, <3>2 DEF BoundaryPage
    <3>4. page' \in MapPages
      BY <3>3 DEF MapPages
    <3> QED BY <1>1, <3>1, <3>4
  <2> QED BY <2>1, <2>2
<1>7. CASE Reload
  BY <1>1, <1>7 DEF Reload
<1>8. CASE UNCHANGED mapVars
  BY <1>8 DEF mapVars
<1> QED BY <1>2, <1>3, <1>4, <1>5, <1>6, <1>7, <1>8 DEF MapNext

\* A page's map shows the same whether it is the interactive map or an image drawn of the
\* same consultees or files, its panel's rows take away their own, and a boundary page's
\* image lacks only what was not listed when it was drawn, of any consultees or files
\* (buildCaseMapConfig, buildCategorySublayers, mergedDatasetStyle, onToggle,
\* allBoundaryFilesGeojson, renderStaticMapOverlaySvg).
THEOREM MapsAreDrawnAlike == MapSpec => []DrawnAlike
<1>1. MapInit => MapsInv
  BY DEF MapInit, MapsInv, Places
<1> QED BY <1>1, MapsInvIsKept, AlikeFromInv, PTL DEF MapSpec
======================================================================================

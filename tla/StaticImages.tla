------------------------------ MODULE StaticImages ------------------------------
(***************************************************************************)
(* The image of a category's map (results/controller.ts) or of a project's *)
(* boundary page (project/controller.ts): the browser's copy of it, what   *)
(* the server answers when it asks for it again (app/maps/                 *)
(* serve-static-map.ts, static-map-cache.ts), the run the session keeps,   *)
(* and the basemap's tiles (static-map.ts).                                *)
(*                                                                         *)
(* The data - the reference data, or the files of the case - is a version, *)
(* which a reload or an import takes to the next; a run's consultees, or   *)
(* the files listed, are those of a version, and so is where they are. One *)
(* browser, and so one format; one category and one selection, as another  *)
(* has a URL of its own, or one boundary page, whose URL is the same       *)
(* whatever its files. An image is what is drawn on it.                    *)
(***************************************************************************)
EXTENDS Integers, FiniteSets

CONSTANTS
  ImageMaxAge,   \* of an image, in the browser
  RunMaxAge,     \* of a run, in the session
  TileMaxAge,    \* of a tile, in the process
  Tiles,         \* the basemap's
  KeySet,        \* whether the app has a key for Google's maps
  MaxReloads, MaxClock,  \* bounds
  NoImage, NoRunKept, NotDrawn

\* A copy is kept for some time.
ASSUME ImagesAssumption ==
  ImageMaxAge \in Nat \ {0} /\ RunMaxAge \in Nat \ {0} /\ TileMaxAge \in Nat /\ NotDrawn \notin Nat

VARIABLES
  imageOf,      \* the page: "category" or "boundary"
  version,      \* of the data
  reloadedAt,   \* when it became each version
  clock,
  keptRun,      \* [version, ranAt] or NoRunKept
  browserCopy,  \* [image, etag, at] or NoImage
  osmTileCache, \* when each tile kept was fetched
  shown,        \* the image on the page, or NoImage
  drawnWithout  \* when an image was last drawn without consultees

imageVars == <<imageOf, version, reloadedAt, clock, keptRun, browserCopy, osmTileCache, shown, drawnWithout>>

ImagesInit ==
  /\ imageOf \in {"category", "boundary"}
  /\ version = 0 /\ reloadedAt = <<>> /\ clock = 0
  /\ keptRun = NoRunKept
  /\ browserCopy = NoImage /\ shown = NoImage
  /\ osmTileCache = [t \in {} |-> 0]
  /\ drawnWithout = -ImageMaxAge

\* What an image is of: the run's consultees, or the files, where they are - NotDrawn if
\* that could not be read - and the basemap.
Image(run, areas, basemap) == [run |-> run, areas |-> areas, basemap |-> basemap]

buildStaticMapFingerprintMutant(image) == <<>>

\* All that is drawn but the basemap.
buildStaticMapFingerprint(image) == <<image.run, image.areas>>

etagMatches(etag) == browserCopy # NoImage /\ browserCopy.etag = etag

KeptTiles == {t \in DOMAIN osmTileCache : clock - osmTileCache[t] < TileMaxAge}

\* Tiles the server of them gives, or the process has; and those it keeps then.
fetchOsmBasemapTiles(given) ==
  /\ osmTileCache' = [t \in DOMAIN osmTileCache \cup given |->
                        IF t \in given \ KeptTiles THEN clock ELSE osmTileCache[t]]

-----------------------------------------------------------------------------
Tick ==
  /\ clock < MaxClock
  /\ clock' = clock + 1
  /\ shown' = NoImage  \* the page is left
  /\ UNCHANGED <<imageOf, version, reloadedAt, keptRun, browserCopy, osmTileCache, drawnWithout>>

ReloadData ==
  /\ version < MaxReloads
  /\ version' = version + 1
  /\ reloadedAt' = [v \in 1 .. version + 1 |-> IF v = version + 1 THEN clock ELSE reloadedAt[v]]
  /\ UNCHANGED <<imageOf, clock, keptRun, browserCopy, osmTileCache, shown, drawnWithout>>

Fresh == browserCopy # NoImage /\ clock - browserCopy.at < ImageMaxAge

\* The browser has no need to ask.
ShowOwnCopy ==
  /\ Fresh
  /\ shown' = browserCopy.image
  /\ UNCHANGED <<imageOf, version, reloadedAt, clock, keptRun, browserCopy, osmTileCache, drawnWithout>>

storedRun == IF keptRun # NoRunKept /\ clock - keptRun.ranAt < RunMaxAge THEN keptRun ELSE NoRunKept

\* The ruleset could not be run, or the case or its files not be read: 503, 404 or 500,
\* which the browser does not keep.
RunFails ==
  /\ ~Fresh /\ (imageOf = "category" => storedRun = NoRunKept)
  /\ shown' = NoImage
  /\ UNCHANGED <<imageOf, version, reloadedAt, clock, keptRun, browserCopy, osmTileCache, drawnWithout>>

\* The run kept, or a new one, which is then kept; a boundary page's files are listed
\* anew (allBoundaryFilesGeojson), whatever the session keeps.
NewRun == [version |-> version, ranAt |-> clock]
runRulesetSafely(run) ==
  /\ run = (IF imageOf = "category" /\ storedRun # NoRunKept THEN storedRun ELSE NewRun)
  /\ keptRun' = IF imageOf = "category" THEN run ELSE keptRun

\* Whether a category's consultees' areas can be read. Where a file's geometry cannot,
\* there is no image.
buildSearchAreaSafely == {version} \cup (IF imageOf = "category" THEN {NotDrawn} ELSE {})

\* 304: the browser's copy is as good as new.
NotModified ==
  \E run \in {storedRun, NewRun} \ {NoRunKept}, areas \in buildSearchAreaSafely :
    /\ ~Fresh /\ runRulesetSafely(run)
    /\ etagMatches(buildStaticMapFingerprint(Image(run.version, areas, {})))
    /\ browserCopy' = [browserCopy EXCEPT !.at = clock]
    /\ shown' = browserCopy.image
    /\ drawnWithout' = IF areas = NotDrawn THEN clock ELSE drawnWithout
    /\ UNCHANGED <<imageOf, version, reloadedAt, clock, osmTileCache>>

\* 200: Google's basemap, if the app has a key and Google answers; else the tiles
\* there are, perhaps none.
Drawn ==
  \E run \in {storedRun, NewRun} \ {NoRunKept},
     areas \in buildSearchAreaSafely, given \in SUBSET Tiles, google \in (IF KeySet THEN BOOLEAN ELSE {FALSE}) :
    LET etag == buildStaticMapFingerprint(Image(run.version, areas, {}))
        image == Image(run.version, areas, IF google THEN {"google"} ELSE given \cup KeptTiles)
    IN /\ ~Fresh /\ runRulesetSafely(run)
       /\ ~etagMatches(etag)
       /\ IF google THEN UNCHANGED osmTileCache ELSE fetchOsmBasemapTiles(given)
       /\ browserCopy' = [image |-> image, etag |-> etag, at |-> clock]
       /\ shown' = image
       /\ drawnWithout' = IF areas = NotDrawn THEN clock ELSE drawnWithout
       /\ UNCHANGED <<imageOf, version, reloadedAt, clock>>

ImagesNext == Tick \/ ReloadData \/ ShowOwnCopy \/ RunFails \/ NotModified \/ Drawn

ImagesSpec == ImagesInit /\ [][ImagesNext]_imageVars

-----------------------------------------------------------------------------
(* Properties *)

\* An image shown is never of data that was replaced longer ago than the browser keeps an
\* image - than it and the session keep an image and a run, of whom a category's shows -
\* and shows the site alone only where the consultees' areas could not be read within the
\* image's age: not until somebody empties the browser's cache. A boundary page's image
\* lacks a file for no longer than that, though its URL says nothing of the files.
ShownIsRecent ==
  shown # NoImage =>
    /\ shown.run < version =>
         clock - reloadedAt[shown.run + 1] < ImageMaxAge + (IF imageOf = "category" THEN RunMaxAge ELSE 0)
    /\ shown.areas # NotDrawn /\ shown.areas < version => clock - reloadedAt[shown.areas + 1] < ImageMaxAge
    /\ shown.areas = NotDrawn => imageOf = "category" /\ clock - drawnWithout < ImageMaxAge
=============================================================================

-------------------------------- MODULE CaseMap --------------------------------
(***************************************************************************)
(* The map of a category's page and of a project's boundary page: what the *)
(* server makes of the consultees or files (app/maps/case-geojson.ts,      *)
(* boundary-map.ts), and what a visitor sees of it, on the interactive map *)
(* with its Layers panel (consultees-map.js, layers-key-plugin.mjs), or on *)
(* the image that takes its place (static-map-plugin.mjs, static-map.ts).  *)
(*                                                                         *)
(* A geometry is the area of its bounding box and whether it is a point;   *)
(* an opacity is in hundredths; a colour is its place in the palette, or   *)
(* of its kind, and a paint is a colour and its opacity.                   *)
(***************************************************************************)
EXTENDS Integers, Sequences, FiniteSets, SequencesExt

CONSTANTS
  AreasByDistance,  \* the areas, nearest first
  CategoryNamed,    \* the category each has; Unset if none
  BoxArea,          \* [areas -> Nat]
  PointAreas,       \* the areas that are points
  CategoryOrder,    \* the categories in the order of their names
  PaletteSize,      \* CONSULTEE_CATEGORY_COLOURS
  SearchBoxArea,
  Untouched,        \* the sets of areas that may not touch the search area
  FileLists,        \* the files a case may have, as they are listed: [id, at]
  EarlierStyles,    \* how many styles there are for the files before the newest
  StyleOpacity,     \* the fill of each file style, 0 the newest's: not 0, as the config stands
  Unset

\* The place of x in a list.
PlaceIn(list, x) == CHOOSE i \in DOMAIN list : list[i] = x
categoryOf(a) == IF CategoryNamed[a] = Unset THEN "Other" ELSE CategoryNamed[a]

Enumerates(list) == /\ list \in Seq(ToSet(list))
                    /\ \A i, j \in DOMAIN list : list[i] = list[j] => i = j

\* An id is an area's, or a file's; a list's files are of different ids.
ASSUME MapAssumption ==
  /\ Enumerates(AreasByDistance) /\ "site" \notin ToSet(AreasByDistance)
  /\ Enumerates(CategoryOrder) /\ \A a \in ToSet(AreasByDistance) : categoryOf(a) \in ToSet(CategoryOrder)
  /\ \A list \in FileLists :
       /\ list \in Seq(ToSet(list)) /\ \A i \in DOMAIN list : list[i].at \in Nat
       /\ \A i, j \in DOMAIN list : list[i].id = list[j].id => i = j
  /\ EarlierStyles \in Nat \ {0} /\ StyleOpacity \in [0 .. EarlierStyles -> 1 .. 100]

VARIABLES
  page,       \* [kind, matches, geometries, files, own]; see MapPages
  container,  \* what is in the map's place
  imaged,     \* the files a boundary page's image was drawn of
  checkedCache, \* the rows of the panel that were ticked or unticked: row -> BOOLEAN
  hidden      \* the layers the datasets plugin hides

mapVars == <<page, container, imaged, checkedCache, hidden>>

Ids(files) == {files[i].id : i \in DOMAIN files}

\* A category's consultees, each found by a condition, added by hand, or only
\* nearby; and those whose display geometry touches the search area, Unset when
\* it could not be had. Or the case's files, and the one the page is of.
CategoryPage(how, geometries) ==
  [kind |-> "category", matches |-> {a \in ToSet(AreasByDistance) : how[a] # "not found"}, how |-> how,
   geometries |-> geometries, files |-> <<>>, own |-> Unset]
BoundaryPage(files, own) ==
  [kind |-> "boundary", matches |-> {}, how |-> <<>>, geometries |-> Unset, files |-> files, own |-> own]
Hows == [ToSet(AreasByDistance) -> {"identified", "by hand", "nearby", "not found"}]
MapPages ==
  {CategoryPage(how, geometries) :
     how \in Hows, geometries \in {ToSet(AreasByDistance) \ u : u \in Untouched} \cup {Unset}}
  \cup {BoundaryPage(files, own) : files \in FileLists, own \in UNION {ToSet(f) : f \in FileLists}}

-----------------------------------------------------------------------------
(* A category's map, on the server. *)

isDrawnAsIdentified(a) == page.how[a] \in {"identified", "by hand"}

\* In the order of their names, the palette over and over.
assignCategoryColours(categories) ==
  LET ordered == SelectSeq(CategoryOrder, LAMBDA c : c \in categories)
  IN [c \in categories |-> (CHOOSE i \in DOMAIN ordered : ordered[i] = c) % PaletteSize]

\* Without a search area nothing has a geometry: a run's matches carry none.
withDisplayGeometry == IF page.geometries = Unset THEN {} ELSE page.matches \cap page.geometries

\* A category is regional if any area of it covers half of the search area's box.
Regional(a) ==
  \E b \in withDisplayGeometry : categoryOf(b) = categoryOf(a) /\ 2 * BoxArea[b] >= SearchBoxArea

fillOpacity(a) ==
  IF isDrawnAsIdentified(a) THEN IF Regional(a) THEN 6 ELSE 35
  ELSE IF Regional(a) THEN 3 ELSE 10

Feature(a) ==
  [id |-> a, category |-> categoryOf(a), identified |-> IF isDrawnAsIdentified(a) THEN "true" ELSE "false",
   point |-> a \in PointAreas,
   colour |-> assignCategoryColours({categoryOf(b) : b \in page.matches})[categoryOf(a)],
   opacity |-> fillOpacity(a)]

\* A list in order: each item after as many as come before it.
InOrder(S, Before(_, _)) ==
  [k \in 1 .. Cardinality(S) |-> CHOOSE x \in S : Cardinality({y \in S : Before(y, x)}) = k - 1]

\* Faintest first; of the same, nearest first.
FeatureUnder(f, g) ==
  \/ f.opacity < g.opacity
  \/ f.opacity = g.opacity /\ PlaceIn(AreasByDistance, f.id) < PlaceIn(AreasByDistance, g.id)
consulteeGeojson == InOrder({Feature(a) : a \in withDisplayGeometry}, FeatureUnder)

-----------------------------------------------------------------------------
(* A boundary page's map, on the server. *)

\* 0 for the most recent file; one without a date is oldest (at = 0).
recencyRanks(files) ==
  [i \in DOMAIN files |->
     Cardinality({j \in DOMAIN files : files[j].at > files[i].at \/ (files[j].at = files[i].at /\ j < i)})]

styleForRank(rank) == IF rank = 0 THEN 0 ELSE 1 + ((rank - 1) % EarlierStyles)

File(files, i) == [id |-> files[i].id, style |-> styleForRank(recencyRanks(files)[i])]

buildBoundaryMapConfig == [i \in DOMAIN page.files |-> File(page.files, i)]

\* Oldest first.
InAgeOrder(files) ==
  LET Oldest(k) == CHOOSE i \in DOMAIN files : recencyRanks(files)[i] = Len(files) - k
  IN [k \in DOMAIN files |-> File(files, Oldest(k))]

allBoundaryFilesGeojsonMutant(listed) == InAgeOrder(listed)

\* The image's, of the files listed for it, and the page's own file even if it is no
\* longer listed.
allBoundaryFilesGeojson(listed) ==
  InAgeOrder(IF page.own.id \in Ids(listed) THEN listed ELSE Append(listed, page.own))

-----------------------------------------------------------------------------
(* The image: what it paints, each over the ones before. A boundary page's is of the *)
(* files the server lists when it draws it, not when it renders the page. *)

Palette(c) == <<"palette", c>>
FileColour(style) == <<"file", style>>
Red == <<"red", 0>>
DefaultGreen == <<"green", 0>>

\* A feature's colour and fill, or the fallback's where it has no valid one of its own.
featureColours(colour, opacity, fallback) ==
  IF colour = <<>> THEN fallback
  ELSE [colour |-> colour, opacity |-> IF opacity \in 1 .. 100 THEN opacity ELSE fallback.opacity]

consulteeColours(f) == featureColours(Palette(f.colour), f.opacity, [colour |-> DefaultGreen, opacity |-> 45])
projectColours(colour, opacity) == featureColours(colour, opacity, [colour |-> Red, opacity |-> 20])

\* Of a boundary page each file is a project of its own colours; of a category's the
\* site has none of its own.
projectPaths(listed) ==
  IF page.kind = "category" THEN <<[id |-> "site", paint |-> projectColours(<<>>, 0)]>>
  ELSE LET files == allBoundaryFilesGeojson(listed)
       IN [k \in DOMAIN files |->
             [id |-> files[k].id, paint |-> projectColours(FileColour(files[k].style), StyleOpacity[files[k].style])]]

consulteePaths ==
  LET features == consulteeGeojson
  IN [k \in DOMAIN features |-> [id |-> features[k].id, paint |-> consulteeColours(features[k])]]

renderStaticMapOverlaySvgMutant(listed) == projectPaths(listed) \o consulteePaths

\* Over OpenStreetMap's tiles, or Google's map, whose URL lists the same paths in the
\* same order.
renderStaticMapOverlaySvg(listed) == consulteePaths \o projectPaths(listed)

-----------------------------------------------------------------------------
(* The interactive map. *)

\* A layer for a category's consultees, or for those only found nearby; as the first
\* of them is painted, so are all.
Layer(features, category, identified) ==
  LET members == {f \in features : f.category = category /\ f.identified = identified}
      first == CHOOSE f \in members : TRUE
  IN [dataset |-> "consultee-areas", category |-> category, identified |-> identified, colour |-> first.colour,
      opacity |-> first.opacity, points |-> \A f \in members : f.point]

\* Faintest first; of the same in the order of their names, a category's own before
\* those nearby.
LayerUnder(l, m) ==
  LET Place(layer) == PlaceIn(CategoryOrder, layer.category)
  IN \/ l.opacity < m.opacity
     \/ l.opacity = m.opacity /\ Place(l) < Place(m)
     \/ l.opacity = m.opacity /\ l.category = m.category /\ l.identified = "true" /\ m.identified = "false"

buildCategorySublayersMutant ==
  LET features == ToSet(consulteeGeojson)
  IN InOrder({Layer(features, f.category, "true") : f \in {f \in features : f.identified = "true"}}, LayerUnder)

buildCategorySublayers ==
  LET features == ToSet(consulteeGeojson)
  IN InOrder({Layer(features, f.category, f.identified) : f \in features}, LayerUnder)

\* The layers in the order they are drawn: a boundary page's files, or the
\* consultees and over them the site.
buildDatasets ==
  IF page.kind = "boundary"
  THEN [i \in DOMAIN page.files |-> [dataset |-> page.files[i].id, style |-> buildBoundaryMapConfig[i].style]]
  ELSE buildCategorySublayers \o <<[dataset |-> "project-site"]>>

\* A dataset's style, and over it a sublayer's: points are dots of one colour.
DatasetStyle(layer) ==
  IF page.kind = "boundary"
  THEN LET colour == FileColour(layer.style)
       IN [stroke |-> <<colour, 100>>, fill |-> <<colour, StyleOpacity[layer.style]>>]
  ELSE IF layer.dataset = "project-site" THEN [stroke |-> <<Red, 100>>, fill |-> <<Red, 20>>]
  ELSE [stroke |-> <<DefaultGreen, 100>>, fill |-> <<DefaultGreen, 35>>]

SublayerStyle(layer) ==
  IF page.kind = "boundary" \/ layer.dataset = "project-site" THEN <<>>
  ELSE IF layer.points
  THEN [symbolBackgroundColor |-> <<Palette(layer.colour), IF layer.identified = "false" THEN 45 ELSE 100>>]
  ELSE [stroke |-> <<Palette(layer.colour), 100>>, fill |-> <<Palette(layer.colour), layer.opacity>>]

\* A layer's filter.
Draws(layer, f) == f.category = layer.category /\ f.identified = layer.identified

\* The layers a click selects: those of the sublayers, of the files and the site.
buildSelectableLayers == ToSet(buildDatasets)

\* The panel has a row for each layer, ticked unless it was unticked.
buildLayersMenu == DOMAIN buildDatasets
checkedFor(row) == IF row \in DOMAIN checkedCache THEN checkedCache[row] ELSE TRUE

\* The style a row's symbol goes by: the defaults, the dataset's over them, and the
\* sublayer's over those.
defaultStyle == [stroke |-> <<Red, 100>>]
Over(style, under) ==
  [field \in DOMAIN style \cup DOMAIN under |-> IF field \in DOMAIN style THEN style[field] ELSE under[field]]
mergedDatasetStyleMutant(layer) == Over(DatasetStyle(layer), Over(SublayerStyle(layer), defaultStyle))
mergedDatasetStyle(layer) == Over(SublayerStyle(layer), Over(DatasetStyle(layer), defaultStyle))

\* A symbol - a dot, if the registry has none - before a filled shape before a line.
buildSwatch(style) ==
  IF "symbolBackgroundColor" \in DOMAIN style THEN [shape |-> "dot", paints |-> {style.symbolBackgroundColor}]
  ELSE IF "fill" \in DOMAIN style THEN [shape |-> "rect", paints |-> {style.fill, style.stroke}]
  ELSE [shape |-> "line", paints |-> {style.stroke}]

\* The panel: each row ticked or not, with its symbol.
LayersKeyPanel ==
  LET layers == buildDatasets
  IN [row \in DOMAIN layers |->
        [checked |-> checkedFor(row), swatch |-> buildSwatch(mergedDatasetStyle(layers[row]))]]

-----------------------------------------------------------------------------
(* The page. *)

\* Where the map is to be; a boundary page that cannot have the files' geometries
\* has an error there, and its radios.
Places == IF page.kind = "boundary" THEN {"empty", "failed"} ELSE {"empty"}

\* Rows of the panel are ticked anew each time the page is loaded.
Loaded ==
  /\ container' \in Places
  /\ imaged' = <<>>
  /\ checkedCache' = <<>>
  /\ hidden' = {}

MapInit ==
  /\ page \in MapPages
  /\ container \in Places
  /\ imaged = <<>>
  /\ checkedCache = <<>>
  /\ hidden = {}

\* The image, where the page's config can be read, else a text. A boundary page's is a
\* request of its own, or the browser's copy of an earlier one: it is of the files as
\* they were listed then (StaticImages says how long ago that may be).
showStaticMapFallback(readable) ==
  /\ container' = IF readable THEN "image" ELSE "text"
  /\ imaged' \in IF readable /\ page.kind = "boundary" THEN FileLists ELSE {imaged}

\* The script starts: a bundle may not have loaded, the constructor may throw.
initConsulteeMap ==
  /\ container = "empty"
  /\ \/ container' = "starting" /\ UNCHANGED imaged
     \/ \E readable \in BOOLEAN : showStaticMapFallback(readable)
  /\ UNCHANGED <<page, checkedCache, hidden>>

\* What the component makes of it.
AppLoads ==
  /\ container = "starting"
  /\ container' \in {"map", "error"}
  /\ UNCHANGED <<page, imaged, checkedCache, hidden>>

watchForMapError ==
  /\ container = "error"
  /\ showStaticMapFallback(TRUE)
  /\ UNCHANGED <<page, checkedCache, hidden>>

\* A row is ticked or unticked; the panel may be closed and opened between.
onToggle(row) ==
  /\ container = "map"
  /\ LET checked == ~checkedFor(row)
     IN /\ checkedCache' = [r \in DOMAIN checkedCache \cup {row} |-> IF r = row THEN checked ELSE checkedCache[r]]
        /\ hidden' = IF checked THEN hidden \ {row} ELSE hidden \cup {row}
  /\ UNCHANGED <<page, container, imaged>>

\* "Continue" on the boundary page, by when the case's files may be others: a
\* file that is not one of them renders the page again.
buildBoundarySubmit(shapefile, listed) ==
  /\ page.kind = "boundary" /\ container \notin {"starting", "error", "ruleset page"}
  /\ IF shapefile \in Ids(listed)
     THEN container' = "ruleset page" /\ UNCHANGED <<page, imaged, checkedCache, hidden>>
     ELSE page' = [page EXCEPT !.files = listed] /\ Loaded

\* The visitor loads the page again.
Reload ==
  /\ container \notin {"empty", "starting", "error"}
  /\ Loaded
  /\ UNCHANGED page

MapNext ==
  \/ initConsulteeMap \/ AppLoads \/ watchForMapError
  \/ \E row \in buildLayersMenu : onToggle(row)
  \/ \E listed \in FileLists, shapefile \in UNION {Ids(f) : f \in FileLists} : buildBoundarySubmit(shapefile, listed)
  \/ Reload

MapSpec == MapInit /\ [][MapNext]_mapVars

-----------------------------------------------------------------------------
(* Properties *)

\* What of the page's consultees, or files, a visitor sees.
Seen ==
  LET layers == buildDatasets
      Shown == {k \in DOMAIN layers : k \notin hidden}
  IN IF container = "map"
     THEN IF page.kind = "boundary" THEN {page.files[k].id : k \in Shown}
          ELSE {f.id : f \in {f \in ToSet(consulteeGeojson) : \E k \in Shown \ {Len(layers)} : Draws(layers[k], f)}}
     ELSE IF container # "image" THEN {}
     ELSE IF page.kind = "boundary" THEN {f.id : f \in ToSet(allBoundaryFilesGeojson(imaged))}
          ELSE {f.id : f \in ToSet(consulteeGeojson)}

\* An image drawn of the page's consultees, or of the files it lists, has the same as the
\* map in the same colours: each is drawn by one layer, coloured as on the image. Of a
\* category's, what is fainter is under what is stronger on both, and the site over all;
\* of a boundary page's files, which the map draws in the order they are listed, the image
\* has one of the newest on top. Each row of the panel has its symbol in the colour of
\* what its layer draws and, but for dots, in its fill.
PaintedAlike ==
  LET layers == buildDatasets
      features == consulteeGeojson
      LayersOf(f) == {k \in 1 .. Len(layers) - 1 : Draws(layers[k], f)}
      files == allBoundaryFilesGeojson(page.files)
      image == renderStaticMapOverlaySvg(page.files)
      \* the row's symbol is in the paint the image has for this id
      InItsPaint(row, id) ==
        LET swatch == LayersKeyPanel[row].swatch
            paint == image[CHOOSE k \in DOMAIN image : image[k].id = id].paint
        IN /\ \A p \in swatch.paints : p[1] = paint.colour
           /\ swatch.shape # "dot" => <<paint.colour, paint.opacity>> \in swatch.paints
  IN /\ page.kind = "category" =>
          /\ InItsPaint(Len(layers), "site") /\ Last(image).id = "site"
          /\ \A i \in DOMAIN features :
               LET f == features[i]
                   k == CHOOSE k \in LayersOf(f) : TRUE
               IN /\ Cardinality(LayersOf(f)) = 1
                  /\ layers[k].colour = f.colour /\ layers[k].opacity = f.opacity
                  /\ InItsPaint(k, f.id) /\ layers[k] \in buildSelectableLayers
                  /\ \A j \in 1 .. i - 1 :
                       /\ features[j].opacity <= f.opacity
                       /\ features[j].opacity < f.opacity => \A l \in LayersOf(features[j]) : l < k
     /\ page.kind = "boundary" /\ page.own.id \in Ids(page.files) =>
          /\ \A i \in DOMAIN page.files :
               /\ InItsPaint(i, page.files[i].id)
               /\ \E k \in DOMAIN files : files[k] = [id |-> page.files[i].id, style |-> layers[i].style]
               /\ page.files[i].at <= (CHOOSE f \in ToSet(page.files) : f.id = Last(files).id).at
          /\ Len(files) = Len(layers)

\* A row of the panel takes away its own layer's and nothing else, and where there is
\* neither map nor image there is nothing. A boundary page's image lacks a file only if
\* it was not listed when the image was drawn, and never the file the page is of.
RowsHideTheirOwn ==
  LET layers == buildDatasets
      panel == LayersKeyPanel
      seen == Seen
      Gone(row) == (container = "map" /\ ~panel[row].checked) \/ container \notin {"map", "image"}
      Lacking(id) == container = "image" /\ id \notin Ids(imaged) \cup {page.own.id}
  IN /\ page.kind = "category" =>
          \A f \in ToSet(consulteeGeojson) :
            f.id \notin seen <=> Gone(CHOOSE k \in 1 .. Len(layers) - 1 : Draws(layers[k], f))
     /\ page.kind = "boundary" =>
          \A i \in DOMAIN page.files :
            page.files[i].id \notin seen <=> Gone(i) \/ Lacking(page.files[i].id)

\* A page's map shows the same, whether it is the interactive map or an image drawn of
\* the same consultees or files, and the Layers panel takes from it what a row says. What
\* the panel has no part in is compared on the page as it is loaded. An image drawn of
\* other files than a boundary page lists has what was listed for it, and the file the
\* page is of (buildCaseMapConfig, buildCategorySublayers, mergedDatasetStyle, onToggle,
\* allBoundaryFilesGeojson, renderStaticMapOverlaySvg).
DrawnAlike == (checkedCache = <<>> => PaintedAlike) /\ RowsHideTheirOwn
=============================================================================

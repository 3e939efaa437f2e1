# Identify Consultees: TLA+ models, checks and proofs

Identify Consultees tells a planning team whom to consult about a site. It keeps *reference data*
(areas that consultees are responsible for) by quarter in a database, *screens* a site against it
with rulesets in a Python function, lets the user adjust the result in the URL of a report page,
and builds the report as a ZIP. This directory specifies how its parts behave, model-checks the
specifications with TLC, and proves about some of them with TLAPS.

    cd tla
    tlc -workers 2 -config promotion.cfg MCPromotion      # any run of the tables below
    tlapm ReportCacheProofs.tla                           # any proof module

Paths in this file are relative to the repository; `seed/` stands for
`packages/database/src/seed/`, `consultees/` for `apps/manage/src/app/views/consultees/`, `maps/`
for `apps/manage/src/app/maps/`. `PROJECT.json` has, for every definition, the lines of code it
models.

## 1. Inventory

| Component | State it keeps | Operations | Talks to | What is hard | What makes it correct |
|---|---|---|---|---|---|
| **Reference data loading** (`seed/consultee-area-groups.ts`, `seed/geojson-import.ts`, `geospatial/consultee-areas.ts`, migration 20261022090000, the import page) | a table of areas per quarter, the synonym that names the one in use, a log of group loads | load a group, clear a dataset, full import, switch the synonym | blob storage (files), screening and export (readers) | many statements and no transaction or lock; a browser that gives up and submits again; any statement may be the last | an earlier quarter is an archive; screening loses no group; the newest complete quarter comes into use; a promotion can tell a whole load from a part |
| **Promotion** (`seed/promote-reference-data.ts`, its pipeline) | a manifest and files in a pipeline artifact; two environments' datasets and blobs | export, upload, load, compare, switch back, run again | the loader of two environments, of different releases | reads the source while people change it; only numbers of rows tie the steps together; a job may stop anywhere | what is promoted is what was checked; what is not promoted is not seen |
| **Upload of large files** (`public/javascripts/blob-upload.js`, `admin/upload-to-blob/`) | blocks staged in blob storage | stage a part, retry, commit | blob storage | parts in parallel, lost answers, two uploads of one name | a committed blob is one file, whole |
| **CBOS boundary import** (`apps/manage/src/app/cbos/`, `geospatial/case-boundaries.ts`) | a row of `case_boundary` per case and file name | import on an event, import by hand | Service Bus, CBOS, the Python function | events again and late; dead letters; four fetches at once; two importers; files that cannot be fetched | once a case is at rest its newest boundaries are in its rows |
| **Project search, boundary and results pages** (`home/`, `project/`, the queries of `case-boundaries.ts`) | none | search, page, list files, find other cases nearby | `case_boundary` | each query picks a case's newest row for itself, between two of the importer's statements | a case found once, by the boundary the other pages show |
| **Screening** (`apps/function-python/intersector/`) | none | search everything nearby, evaluate each condition, measure | the dataset in use, through the synonym | several queries and no snapshot, beside loads and switches; deadlock retries; a thread pool; two timeouts | no consultee is missed that the data named throughout, none is named for a reason it never gave, and the run is over before the request is |
| **Rulesets and reasons** (`geospatial/rulesets.ts`, `consultees/report/reasons.ts`, `config/rulesets/`) | the rulesets of the running app | read when the app starts | screening, the report pages | sheets as Excel saves them; ids made of words | a row screens as it is written, and is described as itself |
| **Ruleset runs and remembered reports** (`consultees/run-ruleset.ts`, `consultees/report/controller.ts`, `ruleset-runner.ts`) | one run per session; a process-wide map of built reports by URL | view, create, download a report | the Python function, the session store | requests of one session overlap and overwrite its run; data is reloaded meanwhile; expiry; a cap on memory | a page goes by a run of its own case and ruleset, of data not long replaced; the memory is bounded |
| **Selection in report URLs** (`consultees/report/urls.ts`, `add/`, `remove/`, `report-consultees.ts`) | none in the server: consultees added and removed, in the URL | add, remove, change ruleset, list | a run | a selection made under one ruleset or dataset is applied to another's run | a consultee the user added is listed, once; one removed is not; every page says the same |
| **Report files** (`consultees/report/export/`, `report-config.ts`) | none | build the workbook | a run, a selection, the stored rows, `config/report.yaml` | rows read later than the run; metadata that differs from source to source | the file says what the pages said, and each value stands under its heading |
| **Maps** (`maps/`, `public/javascripts/`) | tiles in the process, a copy in the browser, what a visitor has ticked | draw interactive and static maps; label; answer 304 | a run, Google, OpenStreetMap | two renderings of one thing; points and layers left out; caches of four ages | the two maps show the same; what is left out is not missed; no picture is stale |
| **Import page status** (`seed/consultee-area-groups.ts`, `admin/import-reference-data/`) | none | list groups, quarters and outcomes | the loader's tables | | |
| **Sign-in and headers**, **wiring, infrastructure and tools** | none of their own | middleware, configuration, build | | | |

How they interact: a *load* writes the table of a quarter and may move the synonym; *screening*
reads through the synonym; a *run* is the answer of screening, kept in the session; the *pages*,
*maps* and *report* are a run less and plus the selection in their URL; *export* reads the tables,
the log and the blobs of one environment and *import* calls the *load* of another; the boundaries
that are screened are what CBOS's *import* stored. Everything shared is a row, a synonym, a blob, a
session or an entry of one map, and nothing holds a lock across two steps. The hazards that follow
from this are listed, with the line at which each bites and the properties aimed at it, in
`PROJECT.json`.

## 2. Modules

| Module | What it is |
|---|---|
| `ConsulteeDatasets` | the loader and the other writers of reference data, one action per SQL statement |
| `DatasetPromise` | the abstract loader: whole groups, two steps a load |
| `ConsulteeDatasetsPromise` | the refinement mapping from the first to the second |
| `ConsulteeDatasetsProofs` | theorems about `ConsulteeDatasets` |
| `Promotion` | export and import between two environments |
| `PromotionProofs` | theorems about `Promotion` |
| `BlobUpload` | an upload in parts: the page's script, the server and the blob |
| `BlobUploadProofs` | a theorem about `BlobUpload` |
| `Screening` | a run's queries, beside a loader |
| `RunDeadline` | the time a run takes: timeouts, retries, the pool |
| `ScreeningProofs` | theorems about `Screening` and `RunDeadline` |
| `CbosImport` | CBOS's versions and events, the subscriber and the admin's import |
| `CaseSearch` | what the pages read of `CbosImport`'s rows |
| `CbosImportProofs` | theorems about `CbosImport` and `CaseSearch` |
| `RulesetFiles` | rulesets as they are saved, read, offered and described |
| `ReportCache` | sessions' runs and remembered reports |
| `ReportCacheProofs` | theorems about `ReportCache` |
| `ReportSelection` | the selection in the URL and every page that goes by it |
| `ReportSelectionProofs` | theorems about `ReportSelection` |
| `ReportFile` | the workbook's tabs and Summary and each category's PDF, by `ReportSelection`'s rows |
| `ReportCells` | a tab's columns, headings and cells |
| `CaseMap` | the interactive map, its Layers panel with the rows' symbols, and the image in its place |
| `MapPath`, `MapLabels` | the points and the labels of the image |
| `StaticImages` | how long an image is kept, and by whom |
| `MapsProofs` | theorems about `CaseMap` and `StaticImages` |
| `MCConsulteeDatasets`, `MCPromotion`, `MCReportCache`, `MCScreening`, `MCPages`, `MCRules`, `MCCells`, `MCMaps` | the instances TLC checks |

Definitions whose names contain `Mutant`, and `CountLoadedNoReset`, `EndLoadFewer` and
`EndLoadStale`, are faulty variants of the definition beside them; no specification uses them. Each
shows that the property it is paired with in `PROJECT.json` fails if the code had that fault.

`MCScreening`, `MCPromotion` and `MCPages` hold instances of several modules that share no state. A
behaviour is of one of them: `part`, which never changes, says which. It is a way to check them in
one run, and no claim that they are independent.

### ConsulteeDatasets

`tables`, `inUse`, `rows` and `log` are the database: the tables there are, the synonym's target,
each group's rows in each quarter, and the newest `reference_data_load` row of each group and
quarter (the code reads and updates only that one). The other variables are the locals of the
running requests, with `pc` the statement each runs next. `importConsulteeAreaGroup` is
`SubmitLoad` (the first pass over the file), `CheckQuarter`, `CreateDataset`, `DeleteGroupRows` (a
`DELETE TOP (n)` at a time), `LogLoad`, `LoadChunk` (a `MERGE` at a time), `LogRowsLoaded`,
`ReadInUse`, `CountInUse` and `CountLoaded` (one count per group, each resolved when it runs) and
`UseDataset`. `clearConsulteeAreas` is `SubmitClear`, `ClearBatchOfRows`; the full import
`SubmitReplace`, `ReplaceClear`, `ReplaceRead`, `ReplaceLog`, `ReplaceChunk`, all but one through
the synonym, wherever it points by then; the procedure called by hand `SubmitUse`. `Fail` ends a
request at any statement. A row is the id of an area and the file it was last merged from, which
is what the properties tell apart; geometry, wording and the paging of files are left out. Which
rows a batch takes is left open. Group codes partition the ids, as `config/reference-data.yaml`
does. Clearing without a quarter, which has no caller in the admin pages, is not modelled.

`Overlap` and `MayFail` say what the environment does; the code neither assumes nor enforces
either. "apart" allows everything but two loads of one group of a quarter at once, and a full
import beside anything.

`DatasetPromise` is what an administrator is promised, said of whole groups: a load takes the old
file out and puts its own in, a load that stops leaves some of it and no switch, and clears, full
imports and switches are a step each.

### Promotion and BlobUpload

`source...` and `target...` variables are the two environments, `loads`, `manifest` and `dir` what
export has read and written, `usedBefore` and `mismatched` import's locals. `checked` and
`seenBefore` are history. `SourceChange` is what people do at the source between any two of
export's reads: upload over a name, load (whole or in part), run a full import. A load at the
target is two steps, `BeginLoad` and `EndLoad`, which is what `ConsulteeDatasets` is shown to make
of a load. `TargetCount` differs from `SourceCount` for one version: the two releases' configs
decide which features load. Nobody else writes to the target while a promotion runs.

`BlobUpload` is one blob name: `uploads` those begun on one of two pages, `lanes` each one's
senders (`uploadInParts` runs four), `pending` requests on their way, `staged` and `blob` what
storage has. Requests are carried out in any order; a request or its answer may be lost, and then
is tried again. `mingled` is a ghost: uploads beside which another's part or commit was carried
out.

### Screening and RunDeadline

A dataset's areas come and go (`DeleteRow`, `MergeRow`) and the synonym moves (`UseDataset`)
between any two queries. The run's steps are those of `run_ruleset`: it chooses to screen the
outline, a covering outline or the bounding box; `Search` finds everything nearby; each condition
the search cannot answer has a query or more of its own, `Concurrency` of them at a time; `Measure`
measures what is left. `seen` is history: the rows each area had during the run. The SQL functions
the queries call (distance, buffer, simplify) are given as numbers per shape: nearer or equal for
the covering outline and the box, which contain the site.

`RunDeadline` is the same run as time: `app` the request of `ruleset-runner.ts`, `fn` the function,
`query` each query. A query ends, becomes a deadlock victim and backs off, or is stopped by the
deadline at its next step; the pool's first failure ends the run once no thread is busy.

### CbosImport and CaseSearch

`cbos`, `deleted` and `title` are the back office's, changed by its users (`AddVersion`,
`DeleteDocument`, `Rename`); `events` the subscription's messages with their deliveries; `table` is
`case_boundary`. A version has what CBOS lists of it and a `stamp`, the name and date in its
GeoJSON, which only its fetch brings: the stamped name stands in for a name the listing lacks
(`boundaryId`), the stamped date for the date of its saving on the pages (`receivedDate`), while the
names are told apart by the listing alone (`distinctFileNames`). An import is `List`, `Fetch` of
each file (which may fail or give something that cannot be stored), `Load` a MERGE at a time, `End`;
the subscriber's is of an event's case, the admin's of all. `excused` is a ghost: cases to which
something happened that no later event makes up for, which are a message dead after its last
delivery, a document deleted in CBOS, a file that was not fetched, and an import whose listing
another import's rows had overtaken.

`CaseSearch` has no state. Its operators are the pages' queries over `table`. `RowNames` is what an
import may call a row (by its file's name, CBOS's or the stamped one), `InOrder` an `ORDER BY`: the
one sequence of the rows that is in their order. It and `distinctFileNames` say which result there
is and not how a sort or a loop gets to it, which is also what the provers can reason about.

### ReportCache

`stored` is the session store and `remembered` the map of `report-zip.ts`, in the order of its
keys. A request holds its own copy of its session from `Arrive` to `Answer`, where a changed copy
is saved whole over what others saved. `UseStoredRun`, `Screen`, `KeepRun` and `RunFails` are
`runRulesetSafely`; `Lookup`, `Build`, `Built`, `RememberAgain` and `BuildFails` the pages that
create and download; the QA switches `test-fail` are among the failures. `Remember` translates
`rememberReportZip` with what `slice` does with a negative end. Time is in ticks of at least
`RUN_TIMEOUT_MS`, so a screening sees one tick at most (`Tick`'s guard). The session middleware,
`Map` and the `MapCache` of `@planning-inspectorate/core` are not in the repository and are
modelled by how it uses them: an expired entry may stay until it is asked for. Left out: unknown
cases and rulesets (answered with a 404 before any of this).

### ReportSelection, ReportFile, ReportCells

The state is a URL (`exclude`, `add`, `ruleset`) and what the run of the moment found (`data`,
`failed`): an action is a link followed or a form submitted (`AddConsultee`, `RemoveMatch`,
`RemoveAdded`, `PickRuleset`, `ContinueFromBoundary`) or a change of the run (`RunAgain`). The
pages, `groupedConsultees`, `CategoryRows`, `reportByCategory` and the maps' parameters, are
operators over it, each from the code that derives it. `steady` is a ghost: the selection was built
from nothing under this one run, so that nothing in it was made for another.

`groupTabs` and `summaryCounts` are `workbook.ts`'s, over a stored row that may be of another
dataset than the run or be gone. `ReportCells` is one tab on its own: rows are pushed as
`groupTabs` does, and the tab is what `tabContent` makes of them under a `report.yaml`. JSON is a
value with its kind; two attributes whose dotted names are alike are one attribute.

A category's PDF is `categoryMap` (the areas and buffers it draws, its frame and its note) and
`buildMapPdf` (the key, and the list with what it says is off the map). Geometry is on one axis: a
site, an area and a buffer are spans, which is enough to say what touches what and what is in the
frame. A distance whose buffer cannot be drawn is missing from all of a report's maps, and a read of
the areas may fail. A param of the URL is blank, a bare id, an entry (encoded, or plain as older
links have it) or malformed; the removal form comes back if no reason is given.

### RulesetFiles

`dir` and `settings` are the directory as the app finds it; `offered` what `loadRulesets` makes of
it, or that it throws. A text is a sequence of tokens, so quoting, commas, line breaks and blanks
are there and letters are not. A byte-order mark is left out, and so are the dates and capitals of
a name made from a file's.

### CaseMap, MapPath, MapLabels, StaticImages

`page` is what a page draws; `container` what is in the map's place (the interactive map, the
image, or neither), `imaged` the files its image was drawn of where that is a boundary page's, which
is a request of its own (`showStaticMapFallback`: any list the case may have, as a browser may show
an earlier copy), and `checkedCache`, `hidden` what a visitor has ticked. The operators are the
server's datasets and layers, the panel's rows with their symbols (`LayersKeyPanel`, `buildSwatch`)
and the image's paths with their paint, which are the same whether they are laid over tiles or
listed in a URL for Google. Where the code sorts a list by an opacity and leaves what is equal as it
was (by distance, by name), `InOrder` says what comes of it: each item after as many as come before
it (`FeatureUnder`, `LayerUnder`). `MapPath` is one line or ring, drawn a point
at a time by `visiblePathPoints`; points are whole pixels. `MapLabels` places the names of the area
that is being drawn and of two more, and one buffer's, as `renderLabels` does, in parts of a pixel.
`StaticImages` is one URL, of a category's image or a boundary page's (`imageOf`): the data and its
changes (reloads of the reference data, or imports of the case's files), the session's run, the
browser's copy and its tag, the tiles of the process. A boundary page's image lists the files anew at
each request and keeps no run. `drawnWithout` and `reloadedAt` are history. A request is one step:
a file that goes between the listing and the reading of its geometry is skipped by the code.

## 3. Runs

| Run | Instance | Shows |
|---|---|---|
| `datasets_one_at_a_time` | 3 calls of every kind, one after another, each may fail anywhere; 3 quarters | `ArchiveKept`: the rows of a quarter older than the one in use change only when it is cleared. `NoGroupVanishes`: screening never loses a group to a load's switch. `KeepsPromise`: the loader implements `DatasetPromise`. `TypeOK` |
| `datasets_apart` | 3 calls of every kind interleaved ("apart"), each may fail | `PromotableIsWhole`: rows counted = rows logged, export's test, means all of that file and nothing else |
| `datasets_overlapping` | 3 loads overlapping in any way, none fails; 2 quarters | `NoMissedSwitch`: whichever load ends last sees that its quarter is complete. `NewestLoadComplete`: no overlap takes an area of the newest load away |
| `promotion`, part "promotion" | 3 changes at the source, failures, import run twice, a target on an older quarter, the same or a newer one | `PromotedIsChecked`, `MismatchGoesBack`, `WaitingHasReason`, `TypeOK` |
| `promotion`, part "upload" | 2 uploads from 2 pages, up to 2 parts and 2 senders, 2 attempts, 2 failures | `UploadedIsWhole`: what replaces a blob is a whole file. `UploadEnds`: the page says how it went |
| `report_cache` | 2 requests of one session, all kinds, two rulesets, expiry, restarts, failures, 2 reloads; cap 1, runs kept 2 ticks | `OwnCaseAndRuleset`: page and report go by their own case and ruleset. `FewRemembered`: the cap holds. `PicksUpReloads`: nothing listed from data replaced longer ago than a run is kept. `TypeOK` |
| `screening`, part "finds" | 4 areas, 3 conditions, 2 queries at a time, 2 changes of the data | `StableIsFound`: an area that stays as it is is found for all it meets. `ExactlyTheOutlines`: and for nothing more, at its own distance. `ReasonsSeen`: every reason rests on rows there were |
| `screening`, part "time" | 3 queries and 2 threads, each query tried once more, timeouts of 6 and 4 ticks | `NeverOutlivesTheRequest`, `ClosedWhenQuiet`, `EveryRunEnds` |
| `screening`, part "boundaries" | 2 cases, 3 documents, 2 saves, 2 deliveries, one import by hand | `KeptInStep`: rows follow CBOS, each version in the row its name gives it. `EveryEventEnds`. `SearchShowsEach`: a case found is shown once. `NewestIsShown`: and everywhere by a boundary no older, as received, than any in CBOS with a row of its own |
| `pages`, part "pages" | 5 consultees, 4 categories, 2 rulesets, 2 datasets, 2 params of each kind | `ListedOnce`, `AddedIsListed`, `RemovesJustTheRow`, `PagesAgree`, `MappedIsDrawn`, `FileMatchesPages` (the report's tabs, counts and maps are the pages'), `TypeOK` |
| `pages`, part "cells" | 3 rows on each tab, 5 consultees of different sources, several `report.yaml`s | `EachUnderItsHeading`: each value in its consultee's row and under its heading |
| `pages`, part "rulesets" | 3 files, two alike but for a "-"; sheets of up to 2 of 9 rows | `RulesetAsWritten`: a row screens as it is written and is described as itself |
| `pages`, part "maps" | category pages of 4 areas, boundary pages of 1 and 4 files | `DrawnAlike`: an image drawn of what the page lists and the interactive map show the same in the same colours and fills, on a category's page in the same order, and each row of the panel has the symbol of what it hides; a boundary image drawn of another list lacks only files that were not listed then |
| `pages`, part "paths" | lines and rings of up to 4 points, on the map and beyond each edge; 3 areas and a buffer | `SeenAsWhole`: points left out change neither what is drawn nor where labels go, and no small area is crowded out by a larger one |
| `pages`, part "images" | 2 reloads, 6 instants, images, runs and tiles kept 2, 2 and 3 | `ShownIsRecent`: no category's image shown is older than an image and a run are kept, no boundary page's than an image is |

*Fairness.* Most specifications have none: their properties are safety, and the code gives no
ground for more about requests, which may stop at any step and are retried by people. Three have
some, weak everywhere. `RunDeadline`: the clock, the function, its queries and the app's timer go
on, which is what the operating system and the event loop do; no query need succeed and no deadlock
need end. `CbosImport`: the subscriber goes on with what it has (it takes an event, lists, fetches,
loads, ends); the admin's import, CBOS's users and failures are never forced, and a message that
keeps failing ends dead by its delivery count. `BlobUpload`: the script's steps and the server's,
for each upload; a page may be left.

*Deadlock.* `CHECK_DEADLOCK FALSE` stands where a behaviour really ends: when all the requests the
model allows have been made, or the pipeline or the run has finished. `report_cache` and `pages`
are checked for deadlock.

*Bounds, and why they are enough.* *Datasets*: three groups, one of which has no data in use, so
that "every group with data" differs from "every group"; two areas, so that a group can be half
there and a correction can drop one; batches of one and two, so that deletes take several statements
and the last may be full or empty; files that replace, correct, repeat an area, come too late, or
are refused; three quarters (before, in use, after). Three calls are one more than any of the faults
found needs. In `datasets_overlapping` the quarters are two and the dataset in use is the older:
with a third quarter, a readiness check can count groups of two datasets, one before and one after a
switch, and `NoMissedSwitch` does not hold. `PromotableIsWhole` leaves empty groups out:
`parseManifest` refuses a group that loaded no rows. *Promotion*: three groups, one with no file; a
file uploaded over, one under a new name, and one whose size and rows differ between releases;
`PromotedIsChecked` asks that numbers of rows tell versions apart, which is all the code compares,
so the versions have different ones. *Upload*: two parts and two senders are what it takes for the
last part to arrive before the first; a file of one part, an empty one and one the server refuses
are there too. *Screening*: an area of the site's own, one near only by the covering outline that
borders it, one in or just out of reach by quarter, and an excluded one; two changes let a row go
and the synonym move. *Time*: one query more than threads, so that one waits; the ticks keep the
order of the two timeouts and the time to spare. *Boundaries*: one case has two documents and two
names; two saves make a version newer than another and an event late; there are versions with a name
and without, one stamped with an earlier date than it was saved and one without a name that is
stamped with a named file's; the MERGE takes one row at a time. *Report cache*: two requests are
what it takes for one to save over the other; the cap and lifetime are scaled down so that both are
reached; `u1` and `u3` differ in their ruleset. `report_cache_cap` has the code's cap of five.
*Pages*: two hospitals of one name, one refiled by the later dataset, a category one ruleset does
not cover, and two national projects; two params of each kind let one removal shift another's place.
On the PDFs' axis the areas are in the site, in a condition's buffer, beyond it and regional;
`NearbyRadius` is more than the box's margin and the widest buffer, so that what a box found is in
the search area: round a bent site it may not be (see below). *Maps*: `StyleOpacity` is above 0, as
in the config as it stands. *Cells*, *rulesets*: each kind of value, of row and of setting the code
tells apart is there, the refused ones included. *Paths*: a point beyond each edge and corner and
four points, which is a run and both its ends; the map is three pixels so that all its pixels are
compared. *Images*: the three ages are different orders of expiry away from one another.

### Where the code and its docs differ

Five runs find that a doc, a comment or a test says more than the code does. `PROJECT.json` quotes
each.

| Run | Property | What happens |
|---|---|---|
| `datasets_half_loaded` | `EveryGroupLoaded` | a load stops after one `MERGE`; the next group's load counts its rows as loaded and switches to the quarter |
| `datasets_mixed_load` | `PromotableAtRest` | two loads of one group overlap and both end well: rows of two files, and a log that agrees with the count |
| `promotion_failed` | `FailedIsUnseen` | the target's old dataset has fewer groups, so it switches before the last load; a later load fails and leaves it there |
| `report_cache_cap` | `DroppedOnlyAtCap` | `slice(0, length - 5 + 1)` is negative below the cap: the third report kept drops the two before it, and never more than three are kept |
| `pages_added_back` | `AddingUndoesRemoval` | a hand-added consultee is removed and added again: it is listed, and still among the removed |

More was met while modelling. No run is about these; the models have the code's behaviour, and
where a property would fail by it, its comment says what it leaves out.

- *Reports.* A report found again is remembered again (`consultees/report/controller.ts:170`), so
  its hour starts anew, though `export/report-zip.ts:396` ties it to the run's; and it is found by
  URL alone, so another session is sent it (`report-zip.ts:404`).
- *Report maps.* A category's search area grows from the site's outline though the run may have
  screened its bounding box (`consultees/run-ruleset.ts:168`): round a bent site a consultee found
  from the box can lie beyond it, and is then off the PDF's map with no note, unless none is drawn.
- *Selection.* The nearby list may hold a name that is listed, where two consultees share it
  (`add/controller.ts:102` says it never does; the suggestions are not modelled). The check page
  leaves out additions in categories that its ruleset neither covers nor found anything in
  (`report/controller.ts:56-72`); the report has them.
- *Reference data.* With three quarters, two of them completed at once, the load that read the
  older one in use may switch back from the newer (`seed/consultee-area-groups.ts:259`). The import
  page's outcome says a quarter waits "until undefined is loaded" where another quarter came into
  use during the load, and reads "Loading" for a complete newer quarter after someone switched back
  by hand; a group's file superseded by a newer quarter's can no longer be loaded from the page.
- *Boundaries.* Names are told apart before the files are fetched (`cbos-boundaries.ts:233`), so a
  version CBOS lists without a name that is stamped with a named file's name is merged into that
  file's row, and whichever an import loads last has it: `KeptInStep` lets an unnamed version take a
  row, or lose its own, and says of named ones that none takes another's. An import orders versions
  by when CBOS saved them, the pages by the stamped date (`cbos-boundaries.ts:234`), so a version
  saved earlier can be shown over a later one whose stamp is earlier: `NewestIsShown` is of the
  pages' date. A name that is blank is left out. Versions with no name of either kind share a row
  per document, and whichever is fetched last wins; a file that
  cannot be fetched once may give a version another name; a stage is blanked when the case's status
  cannot be read; an admin's import that listed earlier overwrites the subscriber's later rows.
- *Rulesets.* `a-b_ruleset.csv` and `a_b_ruleset.csv` have one id, and the second cannot be opened.
- *Workbook.* JSON text inside a list, or a list held as text, is shown as JSON, though
  `workbook.ts:155-159` says no cell does; attributes whose dotted names are alike overwrite one
  another.
- *Maps.* The boundary page's interactive map draws the newest file first and so under the others
  (`project/controller.ts:191-194` says otherwise), which is why `DrawnAlike` compares the order of
  a category's page only; the page's image is a request that lists the files again
  (`project/controller.ts:223-255`) under a URL that says nothing of them, kept by a browser for an
  hour (`serve-static-map.ts:110`), so for that long it may lack a file the page lists, or have one
  it no longer lists; the map's ranks count only files with a geometry; a category with points and
  areas is styled as areas; buffers that are alike to two decimals read the same. A map of the site
  alone, drawn because the areas could not be read, is kept for an hour (`results/controller.ts:31`
  says it is not), and one drawn without tiles is confirmed by a 304.
  `config/map-styles/boundary-map.yaml` allows a `fillOpacity` of 0, "no fill", which the image
  draws as 0.2 (`maps/static-map.ts:122`). An area off the map whose bounding box covers it (one
  shaped like an L) is labelled in the middle of the map (`maps/static-map.ts:625-626` expects no
  label).

## 4. Proofs

`tlapm` checks every theorem for all values of the constants that the named assumptions allow (each
module's `...Assumption`, which TLC evaluates in the runs). These say what kind of thing each
constant is and that groups, areas and files are finitely many; beyond that, `PromotionAssumption`
has that a file's name tells its group (`parseGroupBlobName` reads it from there) and that every
file has more than one feature; `ScreeningAssumption` that the covering outline and the box are
nowhere farther than the site they contain, and that an area bordering a host is within the reach
that is searched around hosts; `BlobUploadAssumption` that some file has the most parts;
`CbosAssumption` that no file is called what one without a name of either kind is called after its
document, and `Missing` is no name; `ImagesAssumption` that ages are numbers and a copy is kept for
some time; `SearchAssumption` that no two rows' ids, 128 bits of a hash (`deterministicId`), are the
same; `MapAssumption` that the files of any list of a case are of different ids (their rows' keys),
that every consultee's category has a place in the order of names, that there is a style for files
before the newest and that no style's fill is zero or more than full, as
`config/map-styles/boundary-map.yaml` has them; `SelectionAssumption` that every consultee has a
name that is not blank ("Unnamed consultee" where a file gives none) and answers to it.
`LinksAssumption` says that what a link carries reads as removals and additions. That is so of every
link, by what `removedConsultees` keeps; it is assumed because the provers know nothing of
`SelectSeq`, which drops what cannot be read. A link the app has written has nothing to drop
(`OfKind`), so the proofs need it of the first URL alone.

| Theorem | Property | Assumes besides |
|---|---|---|
| `ConsulteeDatasetsProofs!TypeCorrect` | `TypeOK` | |
| `ConsulteeDatasetsProofs!PromotionCheckIsSound` | `PromotableIsWhole` | `Overlap # "any"` |
| `ConsulteeDatasetsProofs!ArchiveIsKept` | `ArchiveKept` | `Overlap = "none"` |
| `ConsulteeDatasetsProofs!NewestLoadIsComplete` | `NewestLoadComplete` | only loads, none fails |
| `ConsulteeDatasetsProofs!SwitchIsNotMissed` | `NoMissedSwitch` | only loads, none fails, one newer quarter |
| `ConsulteeDatasetsProofs!NoGroupIsLost` | `NoGroupVanishes` | `Overlap = "none"` |
| `ConsulteeDatasetsProofs!LoaderKeepsPromise` | `KeepsPromise` | `Overlap = "none"` |
| `PromotionProofs!TypeCorrect` | `TypeOK` | |
| `PromotionProofs!PromotedRowsAreCounted` | `PromotedAsCounted` (no run has it) | |
| `PromotionProofs!PromotedWasChecked` | `PromotedIsChecked` | numbers of rows tell versions apart |
| `PromotionProofs!MismatchLeavesInUse` | `MismatchGoesBack` | |
| `PromotionProofs!WaitsForSomething` | `WaitingHasReason` | |
| `BlobUploadProofs!UploadsAreWhole` | `UploadedIsWhole` | |
| `ScreeningProofs!TypeCorrect` | `TypeOK` (in the run's `TypesOK`) | |
| `ScreeningProofs!StableAreasAreFound` | `StableIsFound` | |
| `ScreeningProofs!OutlineIsExact` | `ExactlyTheOutlines` | |
| `ScreeningProofs!ReasonsWereSeen` | `ReasonsSeen` | |
| `ScreeningProofs!QueriesEndInTime` | `NeverOutlivesTheRequest` | |
| `ScreeningProofs!ConnectionsCloseQuietly` | `ClosedWhenQuiet` | |
| `CbosImportProofs!CbosIsTyped` | `CbosTypeOK` (in the run's `TypesOK`) | |
| `CbosImportProofs!CasesAreKeptInStep` | `KeptInStep` | |
| `CbosImportProofs!NewestRowsAreShown` | `NewestIsShown` | |
| `CbosImportProofs!EachIsShown` | `SearchShowsEach` | |
| `ReportSelectionProofs!TypeCorrect` | `TypeOK` | |
| `ReportSelectionProofs!NoAdditionRepeats` | `ListedOnce` | |
| `ReportSelectionProofs!MappedAreDrawn` | `MappedIsDrawn` | |
| `ReportSelectionProofs!PagesAlwaysAgree` | `PagesAgree` | |
| `ReportSelectionProofs!AcceptedIsListed` | `AddedIsListed` | |
| `ReportSelectionProofs!JustTheRowGoes` | `RemovesJustTheRow` | |
| `ReportCacheProofs!TypeCorrect` | `TypeOK` | |
| `ReportCacheProofs!PagesMatchTheirUrls` | `OwnCaseAndRuleset` | |
| `ReportCacheProofs!CapHolds` | `FewRemembered` | |
| `ReportCacheProofs!ReloadsArePickedUp` | `PicksUpReloads` | |
| `MapsProofs!ImagesAreRecent` | `ShownIsRecent` | |
| `MapsProofs!MapsAreDrawnAlike` | `DrawnAlike` | |

*PromotionCheckIsSound.* `PromotableIsWhole` is not inductive: nothing in it says what a load is in
the middle of. The invariant `IInv` adds `Exclusive` (a full import runs beside nothing), `Apart`
(loads in progress are of different groups or quarters), `Progress(s)` (when a load logs itself the
group's rows have gone; while it merges, the newest log row is its own and all the rows are its
file's; a full import merges into a dataset whose log it has emptied) and `Settled` (a group's
newest log row counts zero, or it counts its own file's features and the group's rows are some of
that file's). `Settled` is what survives a failure at any statement and a clear of any length: rows
go, the count stays. It implies the property because a count of features is never below the number
of the file's rows, so as many rows, all of them the file's, are all of the file's.

*ArchiveIsKept.* With one request running at a time (`Alone`), a load that has passed its check is
of a quarter not earlier than the one in use (`NotEarlier`), as nothing can switch in between; every
statement that writes rows therefore writes to the quarter in use, a later one, or the one cleared.

*NewestLoadIsComplete.* The last log row's file is complete only when nobody is between deleting and
merging, and before that some load still owes each missing area: `Kept(q, g, a)` says the area has a
row or the load that logged itself last has it left to merge, and `Superseding` excuses a group some
load has deleted from without having logged itself yet. It is the order of the statements (delete,
log, merge) that makes it inductive: whoever deletes another's rows takes the newest log row from it.

*SwitchIsNotMissed.* `SwitchInv`: while a newer quarter is not in use, either it lacks a group that
is in use or being loaded there (`WillHave`), or some load of it has not yet found out (`Ahead`).
A load's rows are in before it counts, so the last load of the quarter to count leaves no such group.
`Checks` says what a count has shown so far; it would not survive a switch to a third quarter
between two counts, which is why the theorem asks for one newer quarter, as the run has.

*NoGroupIsLost* and *LoaderKeepsPromise.* Both rest on `SerialInv`, which says of the one request
that runs what it has done so far (`Own`). `Loading`: from its delete to its end, the group's rows
are those of the load's file that are no longer to be merged, and nothing else. `Counting`: the
groups the readiness check has passed, it has counted rightly, so that at the switch every group in
use has rows in the new quarter; nobody else runs who could take them away between the count and
the switch, which is where overlapping loads go wrong (section 3). `Refilling`: what a full import
merges is its export's. `Sources`: a group's rows in a quarter are all of one file, which the
promise needs, as it knows whole groups only. No statement of `SerialInv` survives without the
others: what a count finds depends on where the rows came from, and those on what the load before
left when it stopped. The refinement then goes step by step. What `DatasetPromise` sees of a load is
the group `None` while it is under way and the file's content once it has ended (`Held`), and
`Viewed` has that view of every state: quiet, or with the one load in the middle. A load's first
delete is its `Begin`; its log, its chunks and its counts are stutters; its end, with or without the
switch, is `End`, a failure `Stop`; a clear or a full import changes the contents by `Clear` or
`Refill` and an admin's switch is `Use`.

*PromotionProofs.* What ties the end of a promotion to its beginning is a chain of files.
`SourceInv`: a name in storage holds a file of its own group, and a log row is of a file that is
still under its name, in some version. `ManifestInv`: an entry of the manifest has the number of
rows the group had when it was counted. `FilesInv` and `LoadedInv`: the file downloaded under that
name is of the group, and what the target holds of a group already loaded is that file, with the
manifest's number unless the group is among the mismatched. `CursorInv` says which entries those
are at each step, and `InUseInv` what was in use before. `PromotedRowsAreCounted` is what follows
for any releases and files: as many rows as were counted. That they are the same rows needs what
`PromotedWasChecked` assumes, since the code compares nothing but numbers.

*UploadsAreWhole.* While an upload sends its parts each part below `next` is either with a sender or
stands under its block's id (`SentInv`); once it commits, all stand and no part of its own is left
to arrive and replace one with another's (`ReadyInv`). That a retried or delayed part does no harm
rests on it being the same part of the same file; only another upload's request can take a part
away, which `mingled` records. `ClientInv` has the protocol of the senders: one of them commits, and
only when all the others have ended.

*ScreeningProofs.* A run reads the data at many moments, so the invariant speaks of the rows an area
has had during the run (`seen`). `SeenInv`: whatever can be read now has been recorded. `TaskInv`:
each task's answer is sound, as every area in it rests on a row seen, and complete for every area
that has had one row only: a search has found it or has not yet begun; a bordering condition has
found it or still has its host to ask about. `AnswerInv`: the same of the combined answer, with what
is still to be measured. `StableIsFound` and `ExactlyTheOutlines` are completeness and soundness for
areas with one row; `ReasonsSeen` is soundness for all. The covering outline needs the assumption
that it is never farther than the site, and is then exact because what it found is measured again.

*ReportSelectionProofs.* A selection is nothing but what the next page reads from its URL, so all
rests on `ReadBack`: a list of removals or additions, written and read again, is that list. Under
one ruleset and one run, `Coherent` says what the forms keep true of it: a removal of a match names
one its category has, and no other removal does; an addition is a consultee of its category that is
not excluded, under its own name; and no addition has the name of a listed match or of another
addition. `ListedOnce` alone is not inductive: undoing a removal lists a match again, whose name no
addition may have taken meanwhile, and removing a match must not exclude one that was added. Each
form keeps `Coherent` (`UndoKeeps`, `AddKeeps`, `RemoveMatchKeeps`, `RemoveAddedKeeps`), and TLC
agrees on the run's instance. `MappedAreDrawn` follows, as an addition's category is its
consultee's and nothing added is excluded. `JustTheRowGoes` needs no coherence: it counts a
category's rows of each kind by the places they come from, and dropping the n-th addition leaves the
other places in step with their rows (`DroppedPlace`). `PagesAlwaysAgree` holds of any URL at all,
by what each page derives.

*ReportCacheProofs.* `MatchInv`: wherever a run or a report stands beside a URL (an entry of the
map, a request), it is of the URL's case and ruleset. A session's own run need not be, which is why
overwriting is harmless: `Fits` tests it. `CapInv` is the cap; the lemmas about `Remember` show that
the slice drops at least one entry of a full map whatever the cap. `AgeInv`: a run is stamped at
most a tick after the data it found were replaced, and a screening under way began no later than
that. A run is used only below `MaxAge` of its stamp, so its data were replaced at most `MaxAge`
ago.

*ImagesAreRecent.* `ShownIsRecent` speaks of the page and not of what it may show next. `IInv` adds
`RunInv` (a kept run's data were in use when it was made) and `CopyInv` (a browser's copy was last
good with a run not yet too old and with the areas of its time, and its tag names both). `Behind` is
how old that run may have been by then: `RunMaxAge` for a category's image, nothing for a boundary
page's, which lists its files at each request. The 304 is where it matters: a tag that matches means
the same run and the same areas, so the copy is as good as one drawn now (`ShownNowKeeps`), whatever
its basemap.

*QueriesEndInTime* and *ConnectionsCloseQuietly.* `QueriesEndInTime` sets two clocks beside one
another: `TimeInv` says that the app has not given up before its own timeout, and that no query is
busy later than `Overrun` past the function's deadline, as one is put on the database only before it
and `Tick` waits for it (a database that stops a query in time is what `Overrun` stands for).
`ConnectionsCloseQuietly` rests on `StageInv`: which queries may be busy at each point of the run.
What makes it work is that meeting a failure cancels every query that no thread has taken, so that
waiting for the busy ones is waiting for all.

*MapsAreDrawnAlike.* What a visit changes is little: `MapsInv` has that a layer is hidden while its
row is unticked, which `DrawnAlike` does not say of rows other than a listed consultee's, and that a
boundary page's image is of some list the case may have (`imaged`). The rest is about what each page
makes of its lists. `OneAtEach` is the lemma under it: in a strict order of a finite set each member
has its own number of others before it, and every number below the cardinality is some member's, so
that a list in order has each once (`OrderedIs`). It is used of the consultees by opacity and
distance, of the layers by opacity and name, and of the files by date and place (`RanksAre`).
`AlikeArePainted` is why one layer can stand for many consultees: regional is said of a category and
not of an area, so those of a category that are alike identified have one fill. Each consultee then
has just one layer that draws it (`OneDraws`), found on the image by its id (`FoundOnImage`,
`FileFoundOnImage`), an image drawn of any list of files has those files and the page's own and no
others (`InAgeOrderHas`, `FilesOnImage`, `ImageHasItsFiles`), and the panel's symbol takes its
colours from the style that `mergedDatasetStyle` leaves on top (`StylesAre`). The theorem compares
the order of consultees on the image and on the map, and has that one of the newest files is over
the others on the image; it says nothing of the order of the other files, or of the order of the
boundary page's map, which is another.

*CasesAreKeptInStep.* `KeptInStep` speaks of cases at rest; the invariant has to say why a case
that is not at rest will be in step when it is. `InStep(c)` is that each file of the case that can
be stored is `Right`: the row it has now is held by it, or by one that shares the row with it
(`Sharing`), which an unnamed version may do with any file and two named ones never (`NamesApart`,
as a document's versions are numbered). `StepOf(c)`: a case is in step, or excused, or an event of it
waits, or the subscriber's import has it in hand (`BeingMended`). The difficulty is two imports at
once and versions that come while one is under way, since a version can change the name of the one
before it. `Fresh(i, c)`: the names an import gave the case's files are their names now, and what it
has in hand of the case CBOS still has, which while it fetches is everything to be kept.
`Carried(i, c)`: each file to be kept is in hand or, once all is fetched, right. Freshness alone is
not enough at the end of an import, as another may have changed the rows meanwhile, and right rows
alone are not enough before it, as an import with an unnamed version may still load it over a named
one's. `CurrentOf`: an import nothing has come after is fresh and carries what there is.
`StaleOf`: an import that is not fresh, and over whose rows nobody has loaded, is made up for: by an
event, by the other import, or by the case's being excused for as long as nothing ends that
(`Awaited`). Without `StaleOf` the rows an admin's import loads late could undo what the subscriber's
has put right. `TypedInv` is the type invariant with what it needs of the importers' own lists.

*NewestRowsAreShown* and *EachIsShown.* Each query orders a finite set of rows for itself;
`CanBeOrdered` has that a strict total order of a finite set is met by one sequence, in which the
first element is before all others (`NewestIsFirst`), so that `ROW_NUMBER() = 1` and the first row
of the case's own page agree. That the order is total is where the assumption on ids comes in: two
versions may have one received date. `NewestRowsAreShown` then needs `InStepInv`: a version with a
row to itself is in the table, so that the row the pages pick was received no earlier
(`NewestIsFirst`, by `receivedDate`). `EachIsShown` is arithmetic of pages: a place k of the listing
is on page (k - 1) \div size + 1 and no other (`RowOnPage`, `ShownOnce`), and the last page has a
row (`PagesAre`, `HomePageIs`).

Model-checked and not proved:

- `FileMatchesPages` (`ReportFile`), whose counts are sums and folds over rows;
  `EachUnderItsHeading` (`ReportCells`), as JSON nests and the module has a `RECURSIVE` operator;
  `RulesetAsWritten` (`RulesetFiles`), whose parser is a fold over a file's characters;
  `SeenAsWhole` (`MapPath`, `MapLabels`), folds over a path's points. Each would need induction over
  data by a theorem that takes an operator, which the provers cannot instantiate.
- Liveness: `UploadEnds`, `EveryRunEnds` and `EveryEventEnds`, which need fairness and `ENABLED`.
- The assumptions of the table's last column. That two overlapping loads of one group, each of
  which ends well, can leave what export takes for whole and is not is what `datasets_mixed_load`
  finds (section 3); whether the other theorems hold beyond their assumptions is not settled here,
  but for the cases section 3 names.

`MCScreening`'s `TypesOK` is no theorem itself: it is `TypeOK` of `Screening` and `CbosTypeOK`, each
a theorem, and the run holds both.

## 5. What is left

Not modelled, and why:

- *Import page status*: it reads what `ConsulteeDatasets` writes and changes nothing; its remarks
  are in section 3.
- *Sign-in, headers, database admin*, *wiring, infrastructure and tools*: configuration of
  libraries outside the repository, and scripts that run one command.
- Of *maps*: projection, tiles' pixels, how Google's URLs are encoded, the demonstration pages. Of
  *report files*: cell formats, widths, names and the PDFs' layout. Of *search*: rendering. These
  are conversions with no state of which no property speaks.

Planned, in this order:

1. Proofs: of `ReportFile`, that each tab has its category's rows, which needs no sums.
2. `MapPath`: that a run of points beyond one edge is seen as the line between its ends, for every
   map and margin, which needs the geometry of half-planes and no induction.
3. A third quarter in `datasets_overlapping`, with a property of the switch that is true of it.
4. The rows a report reads while a load runs (`report-zip.ts:330`), by composing `ReportFile` with
   `ConsulteeDatasets`.

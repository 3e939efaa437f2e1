-------------------------------- MODULE MCPages --------------------------------
(***************************************************************************)
(* Instances of ReportSelection and ReportFile for TLC: two hospitals of   *)
(* one name, one that a later dataset files under another category, a      *)
(* network operator only one of the rulesets covers, and two other cases,  *)
(* one of them near; a visit begins with nothing selected or with an older *)
(* link. Beside them, the cells of the report (MCCells), how the app reads *)
(* its rulesets (MCRules), what a visitor sees of a map (MCMaps), and the  *)
(* map's image: its lines (MapPath), its labels (MapLabels) and its        *)
(* copies (StaticImages). A behaviour is of one of these.                  *)
(***************************************************************************)
EXTENDS ReportFile, MCCells, MCRules, MCMaps, MapLabels, StaticImages

CONSTANT Part   \* what the behaviours of a run are of
VARIABLE part

CONSTANTS t1, h1, h2, dno, near, far, today, later, england, wales

MCCategories == {"Hospital", "ICB", "DNO", "NSIPs"}
MCAreaNames == h1 :> "General" @@ h2 :> "General" @@ dno :> "Grid"
MCNameOf == MCAreaNames @@ near :> "Solar (EN1)" @@ far :> "Wind (EN2)"
MCAliases == [id \in DOMAIN MCAreaNames |-> {MCAreaNames[id]}]
               @@ near :> {"Solar (EN1)", "EN1"} @@ far :> {"Wind (EN2)"}
MCAway == h1 :> 1 @@ h2 :> 2 @@ dno :> 3 @@ near :> 4 @@ far :> 5
MCToday == [id \in {h1, h2} |-> "Hospital"] @@ dno :> "DNO" @@ [id \in {near, far} |-> "NSIPs"]
MCCategoryOf == today :> MCToday @@ later :> [MCToday EXCEPT ![h2] = "ICB"]
MCStored == today :> {h1, h2, dno, near, far} @@ later :> {h1, h2, near, far}
MCNames == {"General", "Grid", "Solar (EN1)", "EN1", "Wind (EN2)", "Local"}

Rule(categories, group, logicType, buffer) ==
  [categories |-> categories, group |-> group, logicType |-> logicType, buffer |-> buffer]
MCConditions ==
  england :> <<Rule({"Hospital", "ICB"}, "Public bodies", "intersection", 10),
               Rule({"Hospital"}, "Public bodies", "intersection", 1),
               Rule({"DNO"}, "Energy", "intersection", 0)>>
  @@ wales :> <<Rule({"Hospital"}, "Public bodies", "bordering", None)>>
MCCovers == [r \in DOMAIN MCConditions |-> UNION {MCConditions[r][i].categories : i \in DOMAIN MCConditions[r]}]
MCFinds ==
  today :> (england :> (h1 :> {1, 2} @@ h2 :> {} @@ dno :> {3} @@ near :> {0})
            @@ wales :> (h1 :> {} @@ h2 :> {1} @@ near :> {0}))
  @@ later :> (england :> (h1 :> {} @@ h2 :> {1} @@ near :> {0})
               @@ wales :> (h1 :> {1} @@ h2 :> {} @@ near :> {0}))

Label(tab, category, label, buffer) ==
  [tab |-> tab, category |-> category, label |-> label, buffer |-> buffer]
MCSummaryConfig ==
  <<Label("Public bodies", "Hospital", "Hospitals (1km)", 1), Label("Energy", "DNO", "Operators", None),
    Label("Public bodies", "Hospital", "Health", None), Label("Public bodies", "ICB", "Health", None),
    Label("NSIPs", "NSIPs", "Projects", None)>>

\* On one axis. Today the site's box was screened: the nearer hospital is within 1 of
\* it, the operator's area touches it alone. Later the outline was.
MCSite == <<20, 22>>
MCScreenedAs == today :> "boundingBox" @@ later :> "outline"
MCSpanOf ==
  LET cases == near :> <<14, 15>> @@ far :> <<1, 2>>
  IN today :> (h1 :> <<25, 26>> @@ h2 :> <<36, 37>> @@ dno :> <<24, 40>> @@ cases)
     @@ later :> (h1 :> <<33, 34>> @@ h2 :> <<28, 29>> @@ cases)

MCLinks ==
  {[exclude |-> <<>>, add |-> <<>>],
   [exclude |-> <<[kind |-> "bare", id |-> h1, category |-> "", name |-> ""],
                  [kind |-> "malformed", id |-> None, category |-> "", name |-> ""]>>,
    add |-> <<[kind |-> "plain", id |-> None, category |-> "Hospital", name |-> "Local"],
              [kind |-> "blank", id |-> None, category |-> "", name |-> ""]>>]}

\* On the map, and beyond each of its edges.
MCPixels == {-4, 1, 7} \X {-4, 1, 7}

\* A county around the map, which a parish on it or the rest of the county may crowd.
MCBox(a, b) == <<<<a, a>>, <<b, a>>, <<b, b>>, <<a, b>>, <<a, a>>>>
MCLabelWidth == "Parish" :> 12 @@ "County" :> 24 @@ "near" :> 12
MCOtherAreas ==
  <<[text |-> "County", rings |-> <<MCBox(-4, 7)>>], [text |-> "County", rings |-> <<MCBox(1, 3)>>]>>
MCBuffers == <<[text |-> "near", lines |-> <<MCBox(0, 3)>>]>>

\* In the parts that are not a behaviour's, all stays as it was found.
MCInit ==
  /\ part \in Part
  /\ Init /\ (part # "pages" => exclude = <<>> /\ data = today /\ ruleset = None)
  /\ IF part = "rulesets" THEN FilesInit /\ PlainButOne
     ELSE dir = <<>> /\ settings = Absent /\ offered = Absent
  /\ MapInit /\ (part # "maps" => page = (CHOOSE p \in MapPages : p.kind = "boundary") /\ container = "failed")
  /\ PathInit /\ (part # "paths" => ~filled)
  /\ ImagesInit
  /\ CellsInit /\ (part # "cells" => yaml = (CHOOSE y \in ReportYaml : TRUE) /\ sheet = HomeTab[1])
MCNext ==
  \/ part = "pages" /\ Next /\ UNCHANGED <<fileVars, mapVars, pathVars, imageVars, cellVars, part>>
  \/ part = "rulesets" /\ FilesNext /\ UNCHANGED <<vars, mapVars, pathVars, imageVars, cellVars, part>>
  \/ part = "maps" /\ MapNext /\ UNCHANGED <<vars, fileVars, pathVars, imageVars, cellVars, part>>
  \/ part = "paths" /\ PathNext /\ UNCHANGED <<vars, fileVars, mapVars, imageVars, cellVars, part>>
  \/ part = "cells" /\ CellsNext /\ UNCHANGED <<vars, fileVars, mapVars, pathVars, imageVars, part>>
  \/ part = "images" /\ ImagesNext /\ UNCHANGED <<vars, fileVars, mapVars, pathVars, cellVars, part>>
MCSpec == MCInit /\ [][MCNext]_<<vars, fileVars, mapVars, pathVars, imageVars, cellVars, part>>
=============================================================================

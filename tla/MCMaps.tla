-------------------------------- MODULE MCMaps --------------------------------
(***************************************************************************)
(* An instance of CaseMap for TLC: a parish, a county that covers most of  *)
(* the search area, and two points, one of them with no category; a case   *)
(* with one file, or four of which two have a date in common and one none. *)
(***************************************************************************)
EXTENDS CaseMap, TLC
CONSTANTS school, clinic, parish, county
MCAreasByDistance == <<parish, clinic, county, school>>
MCCategoryNamed == parish :> "Parish" @@ clinic :> "Hospital" @@ county :> "Parish" @@ school :> Unset
MCBoxArea == parish :> 2 @@ clinic :> 0 @@ county :> 20 @@ school :> 1
MCCategoryOrder == <<"Hospital", "Other", "Parish">>
MCStyleOpacity == 0 :> 20 @@ 1 :> 30 @@ 2 :> 20
MCFile(id, at) == [id |-> id, at |-> at]
MCFileLists == {<<MCFile(1, 3)>>, <<MCFile(2, 5), MCFile(1, 3), MCFile(4, 3), MCFile(3, 0)>>}
=============================================================================

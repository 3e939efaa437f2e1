----------------------------- MODULE MCPromotion -----------------------------
(***************************************************************************)
(* Instances of Promotion for TLC: three groups. public has a first file,  *)
(* a version uploaded over it and a correction under another name, all     *)
(* with their own numbers of rows; the target's release loads fewer rows   *)
(* than the source's of one of energy's two versions. Beside it, how such  *)
(* a file is uploaded (BlobUpload): a behaviour is of one of the two.      *)
(***************************************************************************)
EXTENDS Promotion, BlobUpload, TLC

CONSTANTS public, energy, forest, n1, n2, n3, quarter, corrected, odd, empty, p1, p2, l1, l2

VARIABLE part

\* forest has no file yet at the source.
MCGroups == {public, energy, forest}
MCGroupOrder == <<public, energy, forest>>
MCTargetGroups == {{public}, {public, energy}, {public, forest}}
MCOneGroup == {{public}}

VersionOf(g, name, size) == [group |-> g, name |-> name, size |-> size]
Public == VersionOf(public, n1, 0)
PublicOver == VersionOf(public, n1, 1)
PublicCorrected == VersionOf(public, n2, 0)
Energy == VersionOf(energy, n3, 0)
EnergyOver == VersionOf(energy, n3, 2)

MCVersions == {Public, PublicOver, PublicCorrected, Energy, EnergyOver}
MCSourceCount == Public :> 10 @@ PublicOver :> 11 @@ PublicCorrected :> 12
                   @@ Energy :> 20 @@ EnergyOver :> 21
MCTargetCount == [MCSourceCount EXCEPT ![EnergyOver] = 19]
MCTargetBlobFirst == [n \in Names |-> IF n = n3 THEN Energy ELSE None]
MCSourceFirst == public :> Public @@ energy :> Energy @@ forest :> None

\* A quarter's file and a correction of it are the same number of parts.
MCParts == quarter :> 2 @@ corrected :> 2 @@ odd :> 1 @@ empty :> 0

\* Bound: where two pages upload, one request fails.
OneFails == \A u, v \in Begun : {uploads[u].page, uploads[v].page} = Pages => trouble < 2

\* In the other part, nothing is promoted.
MCInit ==
  /\ part \in {"promotion", "upload"} /\ Init /\ UploadInit
  /\ part = "upload" => targetUse = Quarter /\ usedGroups = {public}
MCNext ==
  \/ part = "promotion" /\ Next /\ UNCHANGED <<uploadVars, part>>
  \/ part = "upload" /\ UploadNext /\ OneFails' /\ UNCHANGED <<vars, part>>
MCSpec ==
  MCInit /\ [][MCNext]_<<vars, uploadVars, part>> /\ UploadFairness

=============================================================================

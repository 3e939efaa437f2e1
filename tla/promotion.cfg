\* Loads, uploads and a full import at the source beside export; jobs that stop;
\* import run up to twice, on a target that uses an older quarter, the same or a
\* newer one.
SPECIFICATION MCSpec
CONSTANTS
  public = public
  energy = energy
  forest = forest
  n1 = n1
  n2 = n2
  n3 = n3
  quarter = quarter
  corrected = corrected
  odd = odd
  empty = empty
  p1 = p1
  p2 = p2
  l1 = l1
  l2 = l2
  None = None
  Nothing = Nothing
  Old = Old
  Some = Some
  Groups <- MCGroups
  GroupOrder <- MCGroupOrder
  Quarter = 4
  Befores = {3, 4, 5}
  Names = {n1, n2, n3}
  Versions <- MCVersions
  SourceCount <- MCSourceCount
  TargetCount <- MCTargetCount
  SourceFirst <- MCSourceFirst
  TargetGroups <- MCTargetGroups
  TargetBlobFirst <- MCTargetBlobFirst
  MaxChanges = 3
  MayFail = TRUE
  MaxImports = 2
  Files = {quarter, corrected, odd, empty}
  Parts <- MCParts
  Refused = {odd}
  Pages = {p1, p2}
  Lanes = {l1, l2}
  ATTEMPTS = 2
  First = corrected
  MaxUploads = 2
  MaxTrouble = 2
INVARIANTS TypeOK PromotedIsChecked MismatchGoesBack WaitingHasReason
PROPERTIES UploadedIsWhole UploadEnds
CHECK_DEADLOCK FALSE

\* A source nobody touches, with two groups to promote, and a target on an older
\* quarter that has rows of one: one import, which may stop at any step.
SPECIFICATION MCSpec
CONSTANTS
  public = public
  energy = energy
  forest = forest
  n1 = n1
  n2 = n2
  n3 = n3
  quarter = quarter
  corrected = corrected
  odd = odd
  empty = empty
  p1 = p1
  p2 = p2
  l1 = l1
  l2 = l2
  None = None
  Nothing = Nothing
  Old = Old
  Some = Some
  Groups <- MCGroups
  GroupOrder <- MCGroupOrder
  Quarter = 4
  Befores = {3}
  Names = {n1, n2, n3}
  Versions <- MCVersions
  SourceCount <- MCSourceCount
  TargetCount <- MCTargetCount
  SourceFirst <- MCSourceFirst
  TargetGroups <- MCOneGroup
  TargetBlobFirst <- MCTargetBlobFirst
  MaxChanges = 0
  MayFail = TRUE
  MaxImports = 1
  Files = {quarter, corrected, odd, empty}
  Parts <- MCParts
  Refused = {odd}
  Pages = {p1, p2}
  Lanes = {l1, l2}
  ATTEMPTS = 2
  First = corrected
  MaxUploads = 0
  MaxTrouble = 0
INVARIANT FailedIsUnseen
CHECK_DEADLOCK FALSE

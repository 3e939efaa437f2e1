\* Two loads of one group at once: the first file, and the one that corrects it.
SPECIFICATION Spec
CONSTANTS
  public = public
  energy = energy
  forest = forest
  a1 = a1
  a2 = a2
  s1 = s1
  s2 = s2
  s3 = s3
  s4 = s4
  None = None
  ReferenceExport = ReferenceExport
  Some = Some
  Groups <- MCGroups
  GroupOrder <- MCGroupOrder
  Areas = {a1, a2}
  Quarters = {2, 3, 4}
  FirstQuarter = 3
  Files <- SerialFiles
  ExportAreas <- MCExportAreas
  Requests = {s1, s2}
  Operations = {"load"}
  Overlap = "any"
  MayFail = FALSE
  GroupBatch = 1
  ClearBatch = 2
SYMMETRY RequestSymmetry
INVARIANT PromotableAtRest
CHECK_DEADLOCK FALSE

\* One request at a time, of every kind, any of which may fail at any statement.
SPECIFICATION Spec
CONSTANTS
  public = public
  energy = energy
  forest = forest
  a1 = a1
  a2 = a2
  s1 = s1
  s2 = s2
  s3 = s3
  s4 = s4
  None = None
  ReferenceExport = ReferenceExport
  Some = Some
  Groups <- MCGroups
  GroupOrder <- MCGroupOrder
  Areas = {a1, a2}
  Quarters = {2, 3, 4}
  FirstQuarter = 3
  Files <- SerialFiles
  ExportAreas <- MCExportAreas
  Requests = {s1, s2, s3}
  Operations = {"load", "clear", "replace", "use"}
  Overlap = "none"
  MayFail = TRUE
  GroupBatch = 1
  ClearBatch = 2
SYMMETRY RequestSymmetry
INVARIANT TypeOK
PROPERTIES ArchiveKept NoGroupVanishes KeepsPromise
CHECK_DEADLOCK FALSE

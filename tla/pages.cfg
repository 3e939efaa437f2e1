SPECIFICATION MCSpec
CONSTANTS
  NotSet = NotSet
  HomeTab <- MCHomeTab
  ReportYaml <- MCReportYaml
  RowSources <- MCRowSources
  MaxRows = 3
  Part = {"pages", "rulesets", "maps", "paths", "images", "cells"}
  h1 = h1
  h2 = h2
  dno = dno
  near = near
  far = far
  today = today
  later = later
  england = england
  wales = wales
  None = None
  Consultees = {h1, h2, dno, near, far}
  CategoryOf <- MCCategoryOf
  NameOf <- MCNameOf
  Aliases <- MCAliases
  Away <- MCAway
  Categories <- MCCategories
  NSIPS = "NSIPs"
  NsipsLookedFor = TRUE
  Rulesets = {england, wales}
  Covers <- MCCovers
  Datasets = {today, later}
  Finds <- MCFinds
  Stored <- MCStored
  Names <- MCNames
  Reasons = {"", "not theirs"}
  Links <- MCLinks
  MaxParams = 2
  Tabs = {"Public bodies", "Energy", "Other", "NSIPs"}
  Conditions <- MCConditions
  SummaryConfig <- MCSummaryConfig
  Site <- MCSite
  SpanOf <- MCSpanOf
  ScreenedAs <- MCScreenedAs
  BoxMargin = 2
  NearbyRadius = 15
  NsipRadius = 5
  MapMargin = 2
  RegionalAreas = {dno}
  FileOrder <- MCFileOrder
  Sheets <- MCSheets
  Settings <- MCSettings
  LowerCase <- MCLowerCase
  Words <- MCWords
  NumberOf <- MCNumberOf
  Absent = Absent
  Throws = Throws
  school = school
  clinic = clinic
  parish = parish
  county = county
  AreasByDistance <- MCAreasByDistance
  CategoryNamed <- MCCategoryNamed
  BoxArea <- MCBoxArea
  PointAreas = {clinic, school}
  CategoryOrder <- MCCategoryOrder
  PaletteSize = 2
  SearchBoxArea = 30
  Untouched = {{}, {county}}
  FileLists <- MCFileLists
  EarlierStyles = 2
  StyleOpacity <- MCStyleOpacity
  Unset = Unset
  Width = 3
  Height = 3
  OffMapMargin = 1
  Pixels <- MCPixels
  MaxPoints = 4
  NoRun = NoRun
  Parts = 12
  LabelGrid = 1
  LabelEdge = 0
  LabelHeight = 12
  LabelWidth <- MCLabelWidth
  Name = "Parish"
  OtherAreas <- MCOtherAreas
  Buffers <- MCBuffers
  ImageMaxAge = 2
  RunMaxAge = 2
  TileMaxAge = 3
  Tiles = {t1}
  t1 = t1
  KeySet = TRUE
  MaxReloads = 2
  MaxClock = 6
  NoImage = NoImage
  NoRunKept = NoRunKept
  NotDrawn = NotDrawn
INVARIANTS TypeOK ListedOnce PagesAgree MappedIsDrawn FileMatchesPages EachUnderItsHeading RulesetAsWritten DrawnAlike SeenAsWhole ShownIsRecent
PROPERTIES AddedIsListed RemovesJustTheRow

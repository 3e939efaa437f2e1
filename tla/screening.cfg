\* A run of three conditions, two of them with queries of their own, on a site
\* screened as its outline, a covering outline or its box, while rows are
\* deleted and merged and the synonym moves; and the time a run takes, with more
\* conditions than threads, each query tried once more. And the boundaries of two
\* cases, one with two documents, saved, deleted and imported twice at once, with
\* a message delivered again.
SPECIFICATION MCSpec
CONSTANTS
  host = host
  neighbour = neighbour
  hospital = hospital
  rail = rail
  today = today
  later = later
  unknown = unknown
  None = None
  Areas <- MCAreas
  Datasets = {today, later}
  RowOf <- MCRowOf
  FirstPresent <- MCFirstPresent
  Borders <- MCBorders
  AroundHosts <- MCAroundHosts
  Rules <- MCRules
  Excluded = {"Railway"}
  DefaultRadius = 2
  RadiusByCategory <- MCRadiusByCategory
  Margin = 1
  Concurrency = 2
  IdBatch = 1
  Asked <- MCAsked
  MaxChanges = 2
  OwnQueries = 3
  Workers = 2
  Retries = 1
  AppTimeout = 6
  StopsEarlier = 2
  Overrun = 1
  MaxWait = 2
  c1 = c1
  c2 = c2
  plan = plan
  access = access
  Missing = Missing
  Cases = {c1, c2}
  Documents = {1, 2, 3}
  CaseOf <- MCCaseOf
  CaseOrder <- MCCaseOrder
  FileNames = {plan, access}
  Titles = {1, 2}
  BatchSize = 1
  MaxDelivery = 2
  Uploads <- MCUploads
  IdOf <- MCIdOf
  PageSizes = {1}
  MaxSaves = 2
  MaxImports = 1
  CbosMayFail = TRUE
INVARIANTS TypesOK StableIsFound ExactlyTheOutlines ReasonsSeen NeverOutlivesTheRequest ClosedWhenQuiet
  KeptInStep SearchShowsEach NewestIsShown
PROPERTIES EveryRunEnds EveryEventEnds
CHECK_DEADLOCK FALSE

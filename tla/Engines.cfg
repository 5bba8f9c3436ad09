SPECIFICATION PartSpec
CONSTANTS
  Engines <- Names
  Queries <- AllQueries
  Replies <- RepliesTo
  MaxPage = 12
  Threaded = TRUE
  Unfiltered = {"dailymotion", "bing_images", "duckduckgo", "search360"}
  Unpaged = {"search360"}
  OwnStatus = {"wikipedia", "wikidata", "core", "qwant", "github code"}
  a1 = a1  a2 = a2  a3 = a3
  Attempts = {a1, a2, a3}
  Failures = {"too_many_requests", "cf_captcha", "captcha", "queue_expired", "timeout"}
  Suspended <- ScaledDurations
  BanTime = 1
  Threshold = 2
  DayCap = 3
  BucketLen = 2
  Retention = 2
  MaxClock = 7
  Weight <- MCWeight
  Reports <- AllReports
  HostHits = {"wikipedia"}
  Entities = {"city", "person"}
  Words = {"paris", "lutetia", "hilton", "known"}
  Absent = Absent
SYMMETRY AttemptSymmetry
INVARIANTS FiltersReachUpstream WindowsAbut RefusalsAreErrors RowsConsistent LockoutBounded
            EachPageOnce OnePanelPerId PanelsTellOfTied
PROPERTY OnlyLateResultsClose
CHECK_DEADLOCK FALSE

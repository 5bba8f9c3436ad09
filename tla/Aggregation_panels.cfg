SPECIFICATION AggregationSpec
CONSTANTS
  Weight <- MCWeight
  Reports <- Told
  HostHits = {"wikipedia"}
  Entities = {"city", "person"}
  Words = {"paris", "lutetia", "hilton", "known"}
  Absent = Absent
INVARIANTS FactsStayWithEntity
CHECK_DEADLOCK FALSE

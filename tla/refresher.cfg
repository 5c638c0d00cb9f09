\* Two callers; three versions of the table.
CONSTANTS
  c1 = c1
  c2 = c2
  Callers = {c1, c2}
  Devices = {"dev1", "dev2"}
  TableHistory <- History
  Matches <- Matching
SPECIFICATION FairSpec
INVARIANTS
  AnswerOfOneList
PROPERTIES
  ChangeTakesEffect
  StopEndsRefresher
  InListReturns

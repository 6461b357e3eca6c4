SPECIFICATION FairSpec
CONSTANTS
  Tokens = {"t", "u"}
  Amounts = {1, 2}
  Providers = {1, 2}
  Pairs <- MCPairs
  Refused <- MCRefused
  MaxConcurrent = 2
  Capacity = 1
  Routes = {"p", "q"}
  Quotes <- MCQuotes
  Results <- MCResults
  Errors = TRUE
INVARIANTS
  CandidatesFollowQuotes
  BestGroupsCreated
  RowCountsRequests
  RequestsEndWithScan
PROPERTIES
  ScanEnds
CHECK_DEADLOCK FALSE

SPECIFICATION FairSpec
CONSTANTS
  Collections <- EditedPayroll
  BatchSizes = {1, 2}
  MaxRetries = 1
  StopOptions = {TRUE, FALSE}
  MaxCalls = 2
  NoToken = NoToken
INVARIANTS TokensSafe SuccessMeansAllPaid ReportsExact
PROPERTIES CompletedNeverRepaid CallReturns
CHECK_DEADLOCK FALSE

SPECIFICATION Spec
CONSTANTS
  Collections <- OnePayroll
  BatchSizes = {1}
  MaxRetries = 1
  StopOptions = {TRUE, FALSE}
  MaxCalls = 2
  NoToken = NoToken
INVARIANT ResumeSkipsOnlyPaid
CHECK_DEADLOCK FALSE

SPECIFICATION FairSpec
CONSTANTS
  Responses <- MCChunked
  Request <- MCRequest
  Drivers = {FALSE}
  Networks <- MCAnyCut
  MaxLine = 5
  MaxCalls = 1
  MaxIdle = 2
  MaxInt = 3
PROPERTY DeliversAnyCut
\* The client is used MaxCalls times, and then rests.
CHECK_DEADLOCK FALSE

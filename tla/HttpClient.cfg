SPECIFICATION FairSpec
CONSTANTS
  Responses <- MCAll
  Request <- MCRequest
  Drivers = {TRUE, FALSE}
  Networks <- MCNetworks
  MaxLine = 5
  MaxCalls = 2
  MaxIdle = 2
  MaxInt = 3
INVARIANT TypeOK
INVARIANT BodyExact
INVARIANT RequestIntact
INVARIANT ResultTellsBody
PROPERTY Delivers
PROPERTY Released
PROPERTY Returns
PROPERTY ImplementsClient
\* The client is used MaxCalls times, and then rests.
CHECK_DEADLOCK FALSE

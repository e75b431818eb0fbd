SPECIFICATION FairSpec
CONSTANTS
  Modes <- AllModes
  Addresses = 3
  BadUrls = TRUE
INVARIANT TypeOK
INVARIANT NoSocketLeak
INVARIANT ReadyIsSecured
INVARIANT ReadyIsConnected
PROPERTY OthersSettle
\* A client that is disposed of rests.
CHECK_DEADLOCK FALSE

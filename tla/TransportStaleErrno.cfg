SPECIFICATION FairSpec
CONSTANTS
  Modes <- TlsNonBlocking
  Addresses = 1
  BadUrls = FALSE
PROPERTY Settles
\* A client that is disposed of rests.
CHECK_DEADLOCK FALSE

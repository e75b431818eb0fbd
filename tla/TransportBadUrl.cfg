SPECIFICATION Spec
CONSTANTS
  Modes <- AllModes
  Addresses = 1
  BadUrls = TRUE
INVARIANT OnlyOwnDescriptors
\* A client that is disposed of rests.
CHECK_DEADLOCK FALSE

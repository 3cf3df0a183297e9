SPECIFICATION PagesSpec
CONSTANTS
  HolderKeys <- MCHolderKeys
  AccountKeys <- MCAccountKeys
  RequestedLimits <- MCLimits
  DefaultLimit = 1
  MaxLimit = 2
INVARIANT NothingSkipped
INVARIANT NothingTwice
\* The reader stops, and every key gets stored.
CHECK_DEADLOCK FALSE

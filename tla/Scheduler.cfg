SPECIFICATION FairSpec
CONSTANTS
  Clients = {c1, c2, c3}
  NoClient = NoClient
  MaxTasks = 2
  MaxStarts = 3
INVARIANT TypeOK
INVARIANT SlotsMatch
INVARIANT EmptyMeansDone
INVARIANT PassIsComplete
PROPERTY SlotComesBack

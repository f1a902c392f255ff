\* Every call is made once, and the clocks stop.
SPECIFICATION ServicesSpec
CONSTANTS
  None = None
  Processes = {"p1", "p2"}
  Messages = {"m1", "m2", "m3"}
  Handlers = {"h2"}
  Sender <- Senders
  Home <- Homes
  Channel <- Channels
  PollLimit = 1
  Retention = 2
  LastTick = 3
  MaxPolls = 2
  MaxListens = 1
  MaxFaults = 1
  Consumptions = {1, 2, 3}
  Tokens = {1}
  Window = 3
  Limit = 2
  LastTime = 9
  MaxDelay = 1
  MaxResets = 1
  CacheCalls = {"c1", "c2", "c3"}
  Refreshes = {"r1"}
  Tiers <- TwoTiers
  CacheSettings <- Asked
  Puts = {"b1", "b2", "b3", "b4"}
  Gets = {"g1"}
  Deletes = {"d1"}
  Pieces <- Sizes
  BlobSettings <- Ways
  Callers = {"c1", "c2", "c3"}
  Values <- Stored
  MaxSteps = 5
  Workers = {"w1", "w2"}
  Schedulers = {"s1", "s2"}
  Schedules <- Plans
  LastMinute = 4
  MaxPeriod = 4
INVARIANTS
  OneRunner
  Coherent
  WholeOrNothing
  NothingInvented
  EachTimeOnce
  KeepsRunning
PROPERTIES
  HeardInOrder
  MessagesArrive
  LimitKept
CHECK_DEADLOCK FALSE

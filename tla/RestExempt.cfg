SPECIFICATION Spec
CONSTANTS
  quotes = quotes
  history = history
  confirms = confirms
  Callers <- TwoThreads
  Category <- Categories2
  Urgent = {}
  Interval = 1
  Window = 2
  HardCap = 2
  WarnCount = 2
  Readings = 1
  PauseUnit = 1
  PauseMax = 1
  DemoThroughput = FALSE
  RestCooldown = 1
  MaxCooldown = 2
  StreamCooldown = 1
  MaxStage = 2
  MaxRetries = 2
  AwaitMax = 1
  MaxFlights = 1
  Exemptions = {"poll", "bootstrap"}
  Events = {"stream", "rescue"}
INVARIANTS
  CappedCalls
  Spaced

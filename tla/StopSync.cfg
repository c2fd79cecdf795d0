SPECIFICATION Spec
CONSTANTS
  Bottom = 2
  Top = 5
  MaxMoves = 2
  Entry = 2
  FirstStop = 1
  BeTrigger = 1
  BeLock = 0
  TrailTrigger = 2
  TrailDistance = 2
  BracketDistance = 1
  MinDistance = 1
  CapProfit = 3
  ExtendProfit = 2
  MaxExtensions = 1
  Events = {"forced", "recycle", "get", "full", "put"}
INVARIANTS TypeOK 
PROPERTIES OnlyRacesLoosen
CHECK_DEADLOCK FALSE

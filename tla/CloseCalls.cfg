SPECIFICATION FairSpec
CONSTANTS
  ExitTimeout = 0
  Closers = {"c1", "c2"}
  Long = {"l1", "l2"}
  Short = {"s1"}
  AtFirst = {"l1"}
  MaxRetries = 2
  Kinds = {"flatten", "partial", "force"}
  Faults = {"reply", "raise", "reject"}
INVARIANTS TypeOK OneCloser ReportedIsClosed
 

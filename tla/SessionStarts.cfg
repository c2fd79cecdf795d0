SPECIFICATION Spec
CONSTANTS
  p1 = p1
  p2 = p2
  p3 = p3
  Nobody = Nobody
  Pids = {p1, p2, p3}
SYMMETRY Alike
INVARIANTS TypeOK OneAgentUnlessMixed FileNamesAgent

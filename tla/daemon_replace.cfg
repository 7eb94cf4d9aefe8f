SPECIFICATION Spec
CONSTANTS
  d1 = d1
  d2 = d2
  d3 = d3
  d4 = d4
  Daemon = {d1, d2}
  None = None
  Tries = 3
  Launch = "endpoint"
PROPERTIES LiveSocketNeverRemoved
CHECK_DEADLOCK FALSE

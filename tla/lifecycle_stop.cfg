SPECIFICATION Spec
CONSTANTS
  MaxQueue = 2
  StartupCrash = FALSE
INVARIANT StopRequestIsFinal

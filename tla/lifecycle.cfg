SPECIFICATION FairSpec
CONSTANTS
  MaxQueue = 3
  StartupCrash = FALSE
INVARIANTS TypeOK SchedulerMatchesIntent SchedulerRespectsSettings StopIsDurable StartIsDurable
PROPERTIES StopIsAnswered

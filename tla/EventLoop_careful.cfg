SPECIFICATION FairSpec
CONSTANTS
    l1 = l1
    l2 = l2
    Loops = {l1, l2}
    NoLoop = NoLoop
    Control = Control
    Other = Other
    NoThread = NoThread
    MaxPending = 1
    MaxErrors = 1
    Refusing = {l1}
    Habits = {"replace", "destroy", "setLate", "stopInCallback",
              "throwInCallback"}
INVARIANTS
    TypeOK
    StartedLoopRuns
    IsRunningIsAccurate
    ClosedBusIsUnused
    CrashesAreEarned
PROPERTIES
    StopEnds
    StopIsNear
    MessagesAreProcessed

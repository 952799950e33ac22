SPECIFICATION Spec
CONSTANTS
    l1 = l1
    l2 = l2
    Loops = {l1, l2}
    NoLoop = NoLoop
    Control = Control
    Other = Other
    NoThread = NoThread
    MaxPending = 1
    MaxErrors = 1
    Refusing = {l1}
    Habits = {"restart"}
INVARIANT StartedLoopRuns

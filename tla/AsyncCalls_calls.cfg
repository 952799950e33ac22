SPECIFICATION FairSpec
CONSTANTS
    u1 = u1
    u2 = u2
    c1 = c1
    c2 = c2
    Callers = {u1, u2}
    LoopThread = LoopThread
    NoThread = NoThread
    Calls = {c1, c2}
    NoCall = NoCall
    Plans <- AllPlans
INVARIANTS
    TypeOK
    OnlyTheWaitIsUnlocked
    CallbackSeesItsContext
    WildUnrefOnlyAfterThrow
    ReportsOnce
    CrashOnlyByErrorCallback
PROPERTIES
    AcceptedCompletes
    CallsEnd
    DestructionEnds
    KeepsPromise

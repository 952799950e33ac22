SPECIFICATION Spec
CONSTANTS
    u1 = u1
    u2 = u2
    c1 = c1
    c2 = c2
    Callers = {u1}
    LoopThread = LoopThread
    NoThread = NoThread
    Calls = {c1}
    NoCall = NoCall
    Plans <- OmittedPlans
INVARIANT OmittedErrorIsHarmless

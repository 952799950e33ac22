SPECIFICATION Spec
CONSTANTS
    u1 = u1
    u2 = u2
    s1 = s1
    s2 = s2
    m1 = m1
    m2 = m2
    sigA = sigA
    sigB = sigB
    Users = {u1}
    LoopThread = LoopThread
    NoThread = NoThread
    Slots = {s1, s2}
    NoSlot = NoSlot
    Signals = {sigA}
    Messages = {m1, m2}
    NoMessage = NoMessage
    SignalOf <- OneSignal
    Habits = {"plainDelete"}
INVARIANT ReleasedIsDeletable

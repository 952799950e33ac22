-------------------------- MODULE AsyncCalls_proofs --------------------------
(***************************************************************************)
(* Proofs about AsyncCalls, for any number of threads and of calls, any    *)
(* kinds of call and any behaviour of the callbacks.                       *)
(***************************************************************************)
EXTENDS AsyncCalls, TLAPS

\* A thread that is making a call knows which one, and the loop's thread makes
\* calls from code of the application only.
CallInv ==
    /\ \A t \in Threads :
          /\ pc[t] # "idle" => call[t] \in Calls
          /\ pc[t] = "outerLock" => IsProperty(call[t])
    /\ pc[LoopThread] # "idle" => InUserCode

\* How often thread t has taken the mutex: around the call of a property function,
\* in the call itself, and around sd_bus_process.
HoldsOuter(t) == pc[t] \notin {"idle", "outerLock"} /\ IsProperty(call[t])
HoldsInner(t) == pc[t] \in {"insert", "send", "setSlot", "reply"}
HoldsLoop(t) ==
    t = LoopThread /\ (loop \in {"process"} \cup CallbackSteps \/ crashed)
Levels(t) ==
    (IF HoldsOuter(t) THEN 1 ELSE 0) + (IF HoldsInner(t) THEN 1 ELSE 0)
        + (IF HoldsLoop(t) THEN 1 ELSE 0)

\* The mutex counts what its owner holds, and nobody else holds anything.
LockInv ==
    /\ owner = NoThread <=> depth = 0
    /\ \A t \in Threads : Levels(t) = IF owner = t THEN depth ELSE 0

LockingInv == TypeOK /\ CallInv /\ LockInv

-----------------------------------------------------------------------------

\* Counting one entry more keeps a counter per call.
LEMMA CountType ==
  ASSUME NEW f \in [Calls -> Nat], NEW x
  PROVE  [f EXCEPT ![x] = @ + 1] \in [Calls -> Nat]
  <1>1. CASE x \in Calls
    BY <1>1
  <1>2. CASE x \notin Calls
    <2>1. [f EXCEPT ![x] = @ + 1] = f
      BY <1>2
    <2> QED
      BY <2>1
  <1> QED
    BY <1>1, <1>2

\* Nobody holds the mutex at first, and no call has begun.
LEMMA InitLocking == Init => LockingInv
  <1> SUFFICES ASSUME Init PROVE LockingInv
    OBVIOUS
  <1>1. TypeOK
    BY DEF Init, TypeOK, Threads, PcValues, LoopValues
  <1>2. CallInv
    BY DEF Init, CallInv, Threads
  <1>3. LockInv
    BY ThreadsAssumption
       DEF Init, LockInv, Levels, HoldsOuter, HoldsInner, HoldsLoop, Threads,
           CallbackSteps
  <1> QED
    BY <1>1, <1>2, <1>3 DEF LockingInv

\* Every action keeps the types and the count of the mutex.
LEMMA LockingStep == LockingInv /\ [Next]_vars => LockingInv'
  <1> SUFFICES ASSUME LockingInv, [Next]_vars
               PROVE  LockingInv'
    OBVIOUS
  <1> USE ThreadsAssumption
      DEF LockingInv, TypeOK, CallInv, LockInv, Levels, HoldsOuter, HoldsInner,
          HoldsLoop, Threads, IsProperty, InUserCode, PcValues, LoopValues,
          CallbackSteps, lockVars, callVars, storeVars, sdbusVars, loopVars,
          historyVars, lifeVars
  <1>1. ASSUME NEW t \in Threads, NEW c \in Calls, Begin(t, c)
       PROVE  LockingInv'
    <2>1. TypeOK'
      BY <1>1 DEF Begin, Step, FirstStep
    <2>2. CallInv'
      BY <1>1 DEF Begin, Step, FirstStep, MayCall
    <2>3. ~HoldsOuter(t)' /\ ~HoldsInner(t)' /\ ~HoldsOuter(t) /\ ~HoldsInner(t)
      BY <1>1 DEF Begin, Step, FirstStep
    <2>4. \A s \in Threads \ {t} : pc'[s] = pc[s] /\ call'[s] = call[s]
      BY <1>1 DEF Begin, Step
    <2>5. UNCHANGED <<plan, owner, depth, loop, crashed>>
      BY <1>1 DEF Begin
    <2>6. LockInv'
      BY <2>3, <2>4, <2>5
    <2> QED
      BY <2>1, <2>2, <2>6
  <1>2. ASSUME NEW t \in Threads, TakeOuterLock(t)
       PROVE  LockingInv'
    BY <1>2 DEF TakeOuterLock, Lock, CanLock, FirstStep, Step
  <1>3. ASSUME NEW t \in Threads, Create(t)
       PROVE  LockingInv'
    BY <1>3 DEF Create, Step
  <1>4. ASSUME NEW t \in Threads, Compose(t)
       PROVE  LockingInv'
    BY <1>4 DEF Compose, Step
  <1>5. ASSUME NEW t \in Threads, TakeLock(t)
       PROVE  LockingInv'
    BY <1>5 DEF TakeLock, Lock, CanLock, Step
  <1>6. ASSUME NEW t \in Threads, InsertContext(t)
       PROVE  LockingInv'
    BY <1>6 DEF InsertContext, Step
  <1>7. ASSUME NEW t \in Threads, Send(t)
       PROVE  LockingInv'
    <2>1. registered' \subseteq Calls
      BY <1>7 DEF Send, Step
    <2>2. answer' \in [Calls -> {"none", "awaited", "consumed"} \cup AnswerKinds]
      BY <1>7 DEF Send, Step
    <2>3. /\ UNCHANGED <<plan, lockVars, call, status, storeVars, expired,
                         loopVars, historyVars, lifeVars>>
          /\ pc[t] = "send" /\ pc' = [pc EXCEPT ![t] = "setSlot"]
      BY <1>7 DEF Send, Step
    <2> QED
      BY <2>1, <2>2, <2>3
  <1>8. ASSUME NEW t \in Threads, SetSlot(t)
       PROVE  LockingInv'
    BY <1>8 DEF SetSlot, SendResult, SentSlot, Unlock, Step
  <1>9. ASSUME NEW t \in Threads, SyncCall(t)
       PROVE  LockingInv'
    BY <1>9 DEF SyncCall, Lock, CanLock, Step
  <1>10. ASSUME NEW t \in Threads, SyncReply(t)
       PROVE  LockingInv'
    BY <1>10 DEF SyncReply, Unlock, Step
  <1>11. ASSUME NEW t \in Threads, Return(t)
       PROVE  LockingInv'
    <2>1. CASE IsProperty(call[t])
      <3>1. owner = t /\ depth = 1 + (IF HoldsLoop(t) THEN 1 ELSE 0)
        BY <1>11, <2>1 DEF Return, Leave, Step
      <3> QED
        BY <1>11, <2>1, <3>1 DEF Return, Leave, LeaveOuterLock, Unlock, Step
    <2>2. CASE ~IsProperty(call[t])
      BY <1>11, <2>2 DEF Return, Leave, LeaveOuterLock, Step
    <2> QED
      BY <2>1, <2>2
  <1>12. ASSUME NEW t \in Threads, Throw(t)
       PROVE  LockingInv'
    <2>1. CASE IsProperty(call[t])
      <3>1. owner = t /\ depth = 1 + (IF HoldsLoop(t) THEN 1 ELSE 0)
        BY <1>12, <2>1 DEF Throw, Leave, Step
      <3> QED
        BY <1>12, <2>1, <3>1 DEF Throw, Leave, LeaveOuterLock, Unlock, Step
    <2>2. CASE ~IsProperty(call[t])
      BY <1>12, <2>2 DEF Throw, Leave, LeaveOuterLock, Step
    <2> QED
      BY <2>1, <2>2
  <1>13. ASSUME NEW c \in Calls, Answer(c)
       PROVE  LockingInv'
    BY <1>13 DEF Answer, AnswerKinds
  <1>14. ASSUME NEW c \in Calls, Expire(c)
       PROVE  LockingInv'
    BY <1>14 DEF Expire
  <1>15. ASSUME LoopExit
       PROVE  LockingInv'
    BY <1>15 DEF LoopExit, LoopStep, StayInLoop
  <1>16. ASSUME LoopLock
       PROVE  LockingInv'
    BY <1>16 DEF LoopLock, Lock, CanLock, LoopStep, StayInLoop
  <1>17. ASSUME NEW c \in Calls, ProcessTimeout(c)
       PROVE  LockingInv'
    BY <1>17 DEF ProcessTimeout, FirstCallbackSteps, DueTimeouts, LoopStep, StayInLoop
  <1>18. ASSUME NEW c \in Calls, ProcessAnswer(c)
       PROVE  LockingInv'
    BY <1>18 DEF ProcessAnswer, FirstCallbackSteps, Arrived, AnswerKinds, LoopStep, StayInLoop
  <1>19. ASSUME NEW c \in Calls, ProcessLateAnswer(c)
       PROVE  LockingInv'
    BY <1>19 DEF ProcessLateAnswer, Arrived, AnswerKinds, Unlock, LoopStep, StayInLoop
  <1>20. ASSUME ProcessNothing
       PROVE  LockingInv'
    BY <1>20 DEF ProcessNothing, Unlock, LoopStep, StayInLoop
  <1>21. ASSUME WaitOver
       PROVE  LockingInv'
    BY <1>21 DEF WaitOver, AfterWait, LoopStep, StayInLoop
  <1>22. ASSUME EnterThen
       PROVE  LockingInv'
    <2>1. thenRuns' \in [Calls -> Nat]
      BY <1>22, CountType DEF EnterThen
    <2>2. /\ UNCHANGED <<plan, lockVars, callVars, storeVars, sdbusVars, current,
                         errRuns, running, phase, wildUnref, crashed>>
          /\ pc[LoopThread] = "idle" /\ loop = "unpack" /\ loop' = "then"
      BY <1>22 DEF EnterThen, LoopStep, StayInCallback
    <2> QED
      BY <2>1, <2>2
  <1>23. ASSUME UnpackThrows
       PROVE  LockingInv'
    BY <1>23 DEF UnpackThrows, UnreadableGoesTo, LoopStep, StayInCallback
  <1>24. ASSUME LeaveThen
       PROVE  LockingInv'
    BY <1>24 DEF LeaveThen, AfterUserCode, LoopStep, StayInCallback
  <1>25. ASSUME EnterErrInTry
       PROVE  LockingInv'
    <2>1. errRuns' \in [Calls -> Nat]
      BY <1>25, CountType DEF EnterErrInTry, EnterErr
    <2>2. /\ UNCHANGED <<plan, lockVars, callVars, storeVars, sdbusVars, current,
                         thenRuns, running, phase, wildUnref, crashed>>
          /\ pc[LoopThread] = "idle" /\ loop = "onFail" /\ loop' = "errTry"
      BY <1>25 DEF EnterErrInTry, EnterErr, LoopStep, StayInCallback
    <2> QED
      BY <2>1, <2>2
  <1>26. ASSUME EnterErrInCatch
       PROVE  LockingInv'
    <2>1. errRuns' \in [Calls -> Nat]
      BY <1>26, CountType DEF EnterErrInCatch, EnterErr
    <2>2. /\ UNCHANGED <<plan, lockVars, callVars, storeVars, sdbusVars, current,
                         thenRuns, running, phase, wildUnref, crashed>>
          /\ pc[LoopThread] = "idle" /\ loop = "catch" /\ loop' = "errCatch"
      BY <1>26 DEF EnterErrInCatch, EnterErr, LoopStep, StayInCallback
    <2> QED
      BY <2>1, <2>2
  <1>27. ASSUME OmittedErrInTry
       PROVE  LockingInv'
    BY <1>27 DEF OmittedErrInTry, LoopStep, StayInCallback
  <1>28. ASSUME LeaveErrInTry
       PROVE  LockingInv'
    BY <1>28 DEF LeaveErrInTry, AfterUserCode, LoopStep, StayInCallback
  <1>29. ASSUME LeaveErrInCatch
       PROVE  LockingInv'
    BY <1>29 DEF LeaveErrInCatch, LoopStep, StayInCallback
  <1>30. ASSUME Escape
       PROVE  LockingInv'
    BY <1>30 DEF Escape, MayEscape, LoopStep, StayInCallback
  <1>31. ASSUME ScopeExit
       PROVE  LockingInv'
    BY <1>31 DEF ScopeExit, Erase, Unlock, LoopStep, StayInLoop
  <1>32. ASSUME StopLoop
       PROVE  LockingInv'
    BY <1>32 DEF StopLoop, Stopped
  <1>33. ASSUME Destroy
       PROVE  LockingInv'
    BY <1>33 DEF Destroy
  <1>34. CASE UNCHANGED vars
    BY <1>34 DEF vars
  <1> QED
    BY <1>1, <1>2, <1>3, <1>4, <1>5, <1>6, <1>7, <1>8, <1>9, <1>10,
       <1>11, <1>12, <1>13, <1>14, <1>15, <1>16, <1>17, <1>18, <1>19,
       <1>20, <1>21, <1>22, <1>23, <1>24, <1>25, <1>26, <1>27, <1>28,
       <1>29, <1>30, <1>31, <1>32, <1>33, <1>34
       DEF Next, CallStep, Loop, Process, Callback, Bus, Finished

\* The types of all variables, the counting of the mutex and who may be at which
\* step, in every reachable state.
THEOREM LockingCorrect == Spec => []LockingInv
  BY InitLocking, LockingStep, PTL DEF Spec

\* The types of the state of calls, store, sd-bus and loop.
THEOREM TypeCorrect == Spec => []TypeOK
  BY LockingCorrect, PTL DEF LockingInv

\* Whoever is inside sd-bus owns the mutex, but for the loop's thread in sd_bus_wait.
LEMMA UserOwnsMutex ==
  ASSUME LockingInv, NEW t \in Threads, UsesBus(t), ~WaitsInBus(t)
  PROVE  owner = t
  BY DEF LockingInv, TypeOK, LockInv, Levels, HoldsOuter, HoldsInner, HoldsLoop,
         UsesBus

\* Beside the loop's thread in sd_bus_wait at most one thread is inside sd-bus, for
\* any number of threads, nested calls of the property functions and calls made from
\* callbacks (bus.hpp: the scoped locks on sdbus_lock_; busy_loop.cpp: the one around
\* sd_bus_process, and none around sd_bus_wait).
THEOREM OnlyWaitersAreUnlocked == Spec => []OnlyTheWaitIsUnlocked
  <1>1. LockingInv => OnlyTheWaitIsUnlocked
    BY UserOwnsMutex DEF OnlyTheWaitIsUnlocked
  <1> QED
    BY <1>1, LockingCorrect, PTL

\* Who holds the mutex is making a call, or is the loop's thread in sd_bus_process or
\* in a callback.
OwnerIsBusy ==
    ~crashed => \A t \in Threads :
        owner = t => \/ pc[t] # "idle"
                     \/ t = LoopThread /\ loop \in {"process"} \cup CallbackSteps

\* Every way out of a call gives back what the call took of the mutex, exceptions
\* included: nobody is left waiting for it (the scoped_locks of bus.hpp and bus.cpp).
THEOREM MutexIsGivenBack == Spec => []OwnerIsBusy
  <1>1. LockingInv => OwnerIsBusy
    <2> SUFFICES ASSUME LockingInv, ~crashed, NEW t \in Threads, owner = t, pc[t] = "idle"
                 PROVE  t = LoopThread /\ loop \in {"process"} \cup CallbackSteps
      BY DEF OwnerIsBusy
    <2>1. t # NoThread
      BY ThreadsAssumption
    <2>2. Levels(t) = depth /\ depth # 0
      BY <2>1 DEF LockingInv, LockInv
    <2>3. ~HoldsOuter(t) /\ ~HoldsInner(t)
      BY DEF HoldsOuter, HoldsInner
    <2> QED
      BY <2>2, <2>3 DEF Levels, HoldsLoop
  <1> QED
    BY <1>1, LockingCorrect, PTL

-----------------------------------------------------------------------------

\* A dispatched call has its context: the loop's thread runs callbacks of calls
\* that are known to sd-bus, and those are known to the store.
CurrentInv ==
    /\ ~crashed => (current # NoCall <=> loop \in CallbackSteps)
    /\ current # NoCall => current \in contexts /\ slot[current] = "valid"

PhaseInv ==
    /\ phase # "alive" => \A t \in Callers : pc[t] = "idle"
    /\ phase = "dead" => loop = "exited"

\* A call is made by one thread.
OwnCallInv ==
    /\ \A t \in Threads : pc[t] # "idle" => status[call[t]] = "calling"
    /\ \A s, t \in Threads :
          pc[s] # "idle" /\ pc[t] # "idle" /\ call[s] = call[t] => s = t

\* A thread that has not passed SetSlot works on a call without a slot.
UnsetSteps == {"outerLock", "create", "compose", "lock", "insert", "send",
               "setSlot"}

SlotInv ==
    /\ \A c \in Calls : status[c] = "new" => slot[c] = "unset" /\ c \notin contexts
    /\ \A t \in Threads : pc[t] \in UnsetSteps => slot[call[t]] = "unset"
    /\ \A t \in Threads : pc[t] \in {"send", "setSlot"} => call[t] \in contexts

\* A call known to sd-bus is in the store, and its slot is set, or its caller is
\* about to set it and holds the mutex.
RegisteredInv ==
    \A c \in registered :
        /\ c \in contexts
        /\ WasSent(c)
        /\ \/ slot[c] = "valid"
           \/ \E t \in Threads : pc[t] = "setSlot" /\ call[t] = c

ContextInv ==
    /\ CurrentInv
    /\ PhaseInv
    /\ OwnCallInv
    /\ SlotInv
    /\ RegisteredInv

\* No call is known to anybody at first.
LEMMA InitContext == Init => ContextInv
  BY ThreadsAssumption
     DEF Init, ContextInv, CurrentInv, PhaseInv, OwnCallInv,
         SlotInv, RegisteredInv, UnsetSteps, CallbackSteps, Threads

\* While the loop's thread is in sd_bus_process no thread is about to set a slot,
\* so everything known to sd-bus has its slot.
LEMMA ProcessedIsSet ==
  ASSUME LockingInv, RegisteredInv, pc[LoopThread] = "idle", loop = "process",
         NEW c \in registered
  PROVE  c \in contexts /\ slot[c] = "valid"
  <1>1. ~ \E t \in Threads : pc[t] = "setSlot"
    <2> SUFFICES ASSUME NEW t \in Threads, pc[t] = "setSlot" PROVE FALSE
      OBVIOUS
    <2>1. /\ UsesBus(t) /\ ~WaitsInBus(t)
          /\ UsesBus(LoopThread) /\ ~WaitsInBus(LoopThread)
          /\ LoopThread \in Threads
      BY DEF UsesBus, WaitsInBus, Threads
    <2> QED
      BY <2>1, UserOwnsMutex
  <1> QED
    BY <1>1 DEF RegisteredInv

\* Every action keeps contexts, slots and registered calls together.
LEMMA ContextStep ==
  LockingInv /\ ContextInv /\ [Next]_vars => ContextInv'
  <1> SUFFICES ASSUME LockingInv, ContextInv, [Next]_vars
               PROVE  ContextInv'
    OBVIOUS
  <1> USE ThreadsAssumption
      DEF ContextInv, CurrentInv, PhaseInv, OwnCallInv,
          SlotInv, RegisteredInv, UnsetSteps, CallbackSteps, Threads, WasSent,
          LockingInv, CallInv, TypeOK, InUserCode, lockVars, callVars, storeVars,
          sdbusVars, loopVars, historyVars, lifeVars
  <1>1. ASSUME NEW t \in Threads, NEW c \in Calls, Begin(t, c)
       PROVE  ContextInv'
    BY <1>1 DEF Begin, MayCall, FirstStep, Step
  <1>2. ASSUME NEW t \in Threads, TakeOuterLock(t)
       PROVE  ContextInv'
    BY <1>2 DEF TakeOuterLock, Lock, CanLock, FirstStep, Step
  <1>3. ASSUME NEW t \in Threads, Create(t)
       PROVE  ContextInv'
    BY <1>3 DEF Create, Step
  <1>4. ASSUME NEW t \in Threads, Compose(t)
       PROVE  ContextInv'
    BY <1>4 DEF Compose, Step
  <1>5. ASSUME NEW t \in Threads, TakeLock(t)
       PROVE  ContextInv'
    BY <1>5 DEF TakeLock, Lock, CanLock, Step
  <1>6. ASSUME NEW t \in Threads, InsertContext(t)
       PROVE  ContextInv'
    BY <1>6 DEF InsertContext, Step
  <1>7. ASSUME NEW t \in Threads, Send(t)
       PROVE  ContextInv'
    BY <1>7 DEF Send, Step
  <1>8. ASSUME NEW t \in Threads, SetSlot(t)
       PROVE  ContextInv'
    BY <1>8 DEF SetSlot, SendResult, SentSlot, Unlock, Step
  <1>9. ASSUME NEW t \in Threads, SyncCall(t)
       PROVE  ContextInv'
    BY <1>9 DEF SyncCall, Lock, CanLock, Step
  <1>10. ASSUME NEW t \in Threads, SyncReply(t)
       PROVE  ContextInv'
    BY <1>10 DEF SyncReply, Unlock, Step
  <1>11. ASSUME NEW t \in Threads, Return(t)
       PROVE  ContextInv'
    BY <1>11 DEF Return, Leave, LeaveOuterLock, Unlock, Step
  <1>12. ASSUME NEW t \in Threads, Throw(t)
       PROVE  ContextInv'
    BY <1>12 DEF Throw, Leave, LeaveOuterLock, Unlock, Step
  <1>13. ASSUME NEW c \in Calls, Answer(c)
       PROVE  ContextInv'
    BY <1>13 DEF Answer, AnswerKinds
  <1>14. ASSUME NEW c \in Calls, Expire(c)
       PROVE  ContextInv'
    BY <1>14 DEF Expire
  <1>15. ASSUME LoopExit
       PROVE  ContextInv'
    BY <1>15 DEF LoopExit, LoopStep, StayInLoop
  <1>16. ASSUME LoopLock
       PROVE  ContextInv'
    BY <1>16 DEF LoopLock, Lock, CanLock, LoopStep, StayInLoop
  <1>17. ASSUME NEW c \in Calls, ProcessTimeout(c)
       PROVE  ContextInv'
    BY <1>17, ProcessedIsSet DEF ProcessTimeout, FirstCallbackSteps, DueTimeouts, LoopStep, StayInLoop
  <1>18. ASSUME NEW c \in Calls, ProcessAnswer(c)
       PROVE  ContextInv'
    BY <1>18, ProcessedIsSet DEF ProcessAnswer, FirstCallbackSteps, Arrived, AnswerKinds, LoopStep, StayInLoop
  <1>19. ASSUME NEW c \in Calls, ProcessLateAnswer(c)
       PROVE  ContextInv'
    BY <1>19 DEF ProcessLateAnswer, Arrived, AnswerKinds, Unlock, LoopStep, StayInLoop
  <1>20. ASSUME ProcessNothing
       PROVE  ContextInv'
    BY <1>20 DEF ProcessNothing, Unlock, LoopStep, StayInLoop
  <1>21. ASSUME WaitOver
       PROVE  ContextInv'
    BY <1>21 DEF WaitOver, AfterWait, LoopStep, StayInLoop
  <1>22. ASSUME EnterThen
       PROVE  ContextInv'
    BY <1>22 DEF EnterThen, LoopStep, StayInCallback
  <1>23. ASSUME UnpackThrows
       PROVE  ContextInv'
    BY <1>23 DEF UnpackThrows, UnreadableGoesTo, LoopStep, StayInCallback
  <1>24. ASSUME LeaveThen
       PROVE  ContextInv'
    BY <1>24 DEF LeaveThen, AfterUserCode, LoopStep, StayInCallback
  <1>25. ASSUME EnterErrInTry
       PROVE  ContextInv'
    BY <1>25 DEF EnterErrInTry, EnterErr, LoopStep, StayInCallback
  <1>26. ASSUME EnterErrInCatch
       PROVE  ContextInv'
    BY <1>26 DEF EnterErrInCatch, EnterErr, LoopStep, StayInCallback
  <1>27. ASSUME OmittedErrInTry
       PROVE  ContextInv'
    BY <1>27 DEF OmittedErrInTry, LoopStep, StayInCallback
  <1>28. ASSUME LeaveErrInTry
       PROVE  ContextInv'
    BY <1>28 DEF LeaveErrInTry, AfterUserCode, LoopStep, StayInCallback
  <1>29. ASSUME LeaveErrInCatch
       PROVE  ContextInv'
    BY <1>29 DEF LeaveErrInCatch, LoopStep, StayInCallback
  <1>30. ASSUME Escape
       PROVE  ContextInv'
    BY <1>30 DEF Escape, MayEscape, LoopStep, StayInCallback
  <1>31. ASSUME ScopeExit
       PROVE  ContextInv'
    BY <1>31 DEF ScopeExit, Erase, Unlock, LoopStep, StayInLoop
  <1>32. ASSUME StopLoop
       PROVE  ContextInv'
    BY <1>32 DEF StopLoop, Stopped
  <1>33. ASSUME Destroy
       PROVE  ContextInv'
    BY <1>33 DEF Destroy
  <1>34. CASE UNCHANGED vars
    BY <1>34 DEF vars
  <1> QED
    BY <1>1, <1>2, <1>3, <1>4, <1>5, <1>6, <1>7, <1>8, <1>9, <1>10,
       <1>11, <1>12, <1>13, <1>14, <1>15, <1>16, <1>17, <1>18, <1>19,
       <1>20, <1>21, <1>22, <1>23, <1>24, <1>25, <1>26, <1>27, <1>28,
       <1>29, <1>30, <1>31, <1>32, <1>33, <1>34
       DEF Next, CallStep, Loop, Process, Callback, Bus, Finished

\* Contexts, slots and the calls known to sd-bus belong together in every reachable
\* state.
THEOREM ContextCorrect == Spec => [](LockingInv /\ ContextInv)
  <1>1. Init => LockingInv /\ ContextInv
    BY InitLocking, InitContext
  <1>2. LockingInv /\ ContextInv /\ [Next]_vars => (LockingInv /\ ContextInv)'
    BY LockingStep, ContextStep
  <1> QED
    BY <1>1, <1>2, PTL DEF Spec

\* What sd-bus knows is in the store, and a callback runs on a context whose slot is
\* set: the block of call_method_async that inserts, sends and sets the slot cannot
\* be interleaved with the dispatch of the answer.
THEOREM CallbacksSeeTheirContext == Spec => []CallbackSeesItsContext
  <1>1. LockingInv /\ ContextInv => CallbackSeesItsContext
    BY DEF ContextInv, CurrentInv, RegisteredInv, CallbackSeesItsContext
  <1> QED
    BY <1>1, ContextCorrect, PTL

-----------------------------------------------------------------------------

\* What is not sent reports nothing, and refuses or is still to be sent.
UnsentInv ==
    /\ \A c \in Calls : ~WasSent(c) => thenRuns[c] = 0 /\ errRuns[c] = 0
    /\ \A c \in Calls : status[c] \in {"new", "thrown"} => ~WasSent(c)
    /\ \A t \in Threads : pc[t] \notin {"idle", "setSlot", "return"}
                              => ~WasSent(call[t])

\* What the callbacks of the current call have been told when the handler is at
\* the given step.
CurrentReportInv ==
    current # NoCall =>
        /\ WasSent(current)
        /\ current \notin registered
        /\ loop \in {"unpack", "misread", "onFail"}
              => thenRuns[current] = 0 /\ errRuns[current] = 0
        /\ loop = "then" => thenRuns[current] = 1 /\ errRuns[current] = 0
        /\ loop = "errTry" => thenRuns[current] = 0 /\ errRuns[current] = 1
        /\ loop = "catch" =>
              /\ thenRuns[current] <= 1
              /\ thenRuns[current] > 0 => plan[current].then = "throws"
              /\ \/ errRuns[current] = 0
                 \/ errRuns[current] = 1 /\ plan[current].err = "throws"
        /\ loop = "errCatch" =>
              /\ thenRuns[current] <= 1
              /\ thenRuns[current] > 0 => plan[current].then = "throws"
              /\ \/ errRuns[current] = 1
                 \/ errRuns[current] = 2 /\ plan[current].err = "throws"
        /\ loop = "scopeExit" =>
              /\ thenRuns[current] + errRuns[current] > 0
              /\ thenRuns[current] > 0
                    => (errRuns[current] > 0 <=> plan[current].then = "throws")

ReportInv ==
    /\ UnsentInv
    /\ \A c \in registered : thenRuns[c] = 0 /\ errRuns[c] = 0
    /\ CurrentReportInv
    /\ ReportsOnce

\* Nothing is reported at first.
LEMMA InitReport == Init => ReportInv
  BY DEF Init, ReportInv, UnsentInv, CurrentReportInv, ReportsOnce,
         IsDispatched, WasSent, Threads

\* Every action reports to the callbacks what its step of the handler says.
LEMMA ReportStep ==
  LockingInv /\ ContextInv /\ ReportInv /\ [Next]_vars => ReportInv'
  <1> SUFFICES ASSUME LockingInv, ContextInv, ReportInv, [Next]_vars
               PROVE  ReportInv'
    OBVIOUS
  <1> USE ThreadsAssumption
      DEF ReportInv, UnsentInv, CurrentReportInv, ReportsOnce,
          IsDispatched, WasSent, ContextInv, CurrentInv,
          OwnCallInv, RegisteredInv, CallbackSteps, Threads, LockingInv, CallInv,
          TypeOK, InUserCode, lockVars, callVars, storeVars, sdbusVars, loopVars,
          historyVars, lifeVars
  <1>1. ASSUME NEW t \in Threads, NEW c \in Calls, Begin(t, c)
       PROVE  ReportInv'
    BY <1>1 DEF Begin, MayCall, FirstStep, Step
  <1>2. ASSUME NEW t \in Threads, TakeOuterLock(t)
       PROVE  ReportInv'
    BY <1>2 DEF TakeOuterLock, Lock, CanLock, FirstStep, Step
  <1>3. ASSUME NEW t \in Threads, Create(t)
       PROVE  ReportInv'
    BY <1>3 DEF Create, Step
  <1>4. ASSUME NEW t \in Threads, Compose(t)
       PROVE  ReportInv'
    BY <1>4 DEF Compose, Step
  <1>5. ASSUME NEW t \in Threads, TakeLock(t)
       PROVE  ReportInv'
    BY <1>5 DEF TakeLock, Lock, CanLock, Step
  <1>6. ASSUME NEW t \in Threads, InsertContext(t)
       PROVE  ReportInv'
    BY <1>6 DEF InsertContext, Step
  <1>7. ASSUME NEW t \in Threads, Send(t)
       PROVE  ReportInv'
    BY <1>7 DEF Send, Step
  <1>8. ASSUME NEW t \in Threads, SetSlot(t)
       PROVE  ReportInv'
    BY <1>8 DEF SetSlot, SendResult, SentSlot, Unlock, Step
  <1>9. ASSUME NEW t \in Threads, SyncCall(t)
       PROVE  ReportInv'
    BY <1>9 DEF SyncCall, Lock, CanLock, Step
  <1>10. ASSUME NEW t \in Threads, SyncReply(t)
       PROVE  ReportInv'
    BY <1>10 DEF SyncReply, Unlock, Step
  <1>11. ASSUME NEW t \in Threads, Return(t)
       PROVE  ReportInv'
    BY <1>11 DEF Return, Leave, LeaveOuterLock, Unlock, Step
  <1>12. ASSUME NEW t \in Threads, Throw(t)
       PROVE  ReportInv'
    BY <1>12 DEF Throw, Leave, LeaveOuterLock, Unlock, Step
  <1>13. ASSUME NEW c \in Calls, Answer(c)
       PROVE  ReportInv'
    BY <1>13 DEF Answer, AnswerKinds
  <1>14. ASSUME NEW c \in Calls, Expire(c)
       PROVE  ReportInv'
    BY <1>14 DEF Expire
  <1>15. ASSUME LoopExit
       PROVE  ReportInv'
    BY <1>15 DEF LoopExit, LoopStep, StayInLoop
  <1>16. ASSUME LoopLock
       PROVE  ReportInv'
    BY <1>16 DEF LoopLock, Lock, CanLock, LoopStep, StayInLoop
  <1>17. ASSUME NEW c \in Calls, ProcessTimeout(c)
       PROVE  ReportInv'
    BY <1>17 DEF ProcessTimeout, FirstCallbackSteps, DueTimeouts, LoopStep, StayInLoop
  <1>18. ASSUME NEW c \in Calls, ProcessAnswer(c)
       PROVE  ReportInv'
    BY <1>18 DEF ProcessAnswer, FirstCallbackSteps, Arrived, AnswerKinds, LoopStep, StayInLoop
  <1>19. ASSUME NEW c \in Calls, ProcessLateAnswer(c)
       PROVE  ReportInv'
    BY <1>19 DEF ProcessLateAnswer, Arrived, AnswerKinds, Unlock, LoopStep, StayInLoop
  <1>20. ASSUME ProcessNothing
       PROVE  ReportInv'
    BY <1>20 DEF ProcessNothing, Unlock, LoopStep, StayInLoop
  <1>21. ASSUME WaitOver
       PROVE  ReportInv'
    BY <1>21 DEF WaitOver, AfterWait, LoopStep, StayInLoop
  <1>22. ASSUME EnterThen
       PROVE  ReportInv'
    BY <1>22 DEF EnterThen, LoopStep, StayInCallback
  <1>23. ASSUME UnpackThrows
       PROVE  ReportInv'
    BY <1>23 DEF UnpackThrows, UnreadableGoesTo, LoopStep, StayInCallback
  <1>24. ASSUME LeaveThen
       PROVE  ReportInv'
    BY <1>24 DEF LeaveThen, AfterUserCode, LoopStep, StayInCallback
  <1>25. ASSUME EnterErrInTry
       PROVE  ReportInv'
    BY <1>25 DEF EnterErrInTry, EnterErr, LoopStep, StayInCallback
  <1>26. ASSUME EnterErrInCatch
       PROVE  ReportInv'
    BY <1>26 DEF EnterErrInCatch, EnterErr, LoopStep, StayInCallback
  <1>27. ASSUME OmittedErrInTry
       PROVE  ReportInv'
    BY <1>27 DEF OmittedErrInTry, LoopStep, StayInCallback
  <1>28. ASSUME LeaveErrInTry
       PROVE  ReportInv'
    BY <1>28 DEF LeaveErrInTry, AfterUserCode, LoopStep, StayInCallback
  <1>29. ASSUME LeaveErrInCatch
       PROVE  ReportInv'
    BY <1>29 DEF LeaveErrInCatch, LoopStep, StayInCallback
  <1>30. ASSUME Escape
       PROVE  ReportInv'
    BY <1>30 DEF Escape, MayEscape, LoopStep, StayInCallback
  <1>31. ASSUME ScopeExit
       PROVE  ReportInv'
    BY <1>31 DEF ScopeExit, Erase, Unlock, LoopStep, StayInLoop
  <1>32. ASSUME StopLoop
       PROVE  ReportInv'
    BY <1>32 DEF StopLoop, Stopped
  <1>33. ASSUME Destroy
       PROVE  ReportInv'
    BY <1>33 DEF Destroy
  <1>34. CASE UNCHANGED vars
    BY <1>34 DEF vars
  <1> QED
    BY <1>1, <1>2, <1>3, <1>4, <1>5, <1>6, <1>7, <1>8, <1>9, <1>10,
       <1>11, <1>12, <1>13, <1>14, <1>15, <1>16, <1>17, <1>18, <1>19,
       <1>20, <1>21, <1>22, <1>23, <1>24, <1>25, <1>26, <1>27, <1>28,
       <1>29, <1>30, <1>31, <1>32, <1>33, <1>34
       DEF Next, CallStep, Loop, Process, Callback, Bus, Finished

\* What the callbacks of every call have been told, in every reachable state.
THEOREM ReportCorrect == Spec => [](LockingInv /\ ContextInv /\ ReportInv)
  <1>1. Init => LockingInv /\ ContextInv /\ ReportInv
    BY InitLocking, InitContext, InitReport
  <1>2. LockingInv /\ ContextInv /\ ReportInv /\ [Next]_vars
            => (LockingInv /\ ContextInv /\ ReportInv)'
    BY LockingStep, ContextStep, ReportStep
  <1> QED
    BY <1>1, <1>2, PTL DEF Spec

\* Whatever arrives, a timeout, an answer or both, no call enters its success callback
\* twice, nor its error callback unless that callback throws; and no outcome is lost,
\* whichever handlers of dbus_mock_async_callback it goes through.
THEOREM CallsReportOnce == Spec => []ReportsOnce
  <1>1. LockingInv /\ ContextInv /\ ReportInv => ReportsOnce
    BY DEF ReportInv
  <1> QED
    BY <1>1, ReportCorrect, PTL

-----------------------------------------------------------------------------
(* AsyncCalls implements CallOutcome. *)

\* A step that changes nothing a caller can see is a stuttering step.
LEMMA InvisibleStep ==
  ASSUME UNCHANGED <<status, thenRuns, errRuns>>,
         \A c \in Calls : WasSent(c)' = WasSent(c),
         (phase = "dead")' = (phase = "dead")
  PROVE  UNCHANGED Promise!vars
  BY DEF Promise!vars, OutcomeOf

\* A step that changes the outcome of one call.
LEMMA VisibleStep ==
  ASSUME NEW c \in Calls, phase # "dead", phase' # "dead",
         \A d \in Calls \ {c} : OutcomeOf(d)' = OutcomeOf(d),
         \/ OutcomeOf(c) = "none" /\ OutcomeOf(c)' \in {"refused", "pending", "delivered"}
         \/ OutcomeOf(c) = "pending" /\ OutcomeOf(c)' = "delivered"
         \/ OutcomeOf(c) \in {"pending", "delivered"} /\ OutcomeOf(c)' = "failed"
         \/ OutcomeOf(c)' = OutcomeOf(c)
  PROVE  [Promise!Next]_(Promise!vars)
  <1> DEFINE out == [d \in Calls |-> OutcomeOf(d)]
  <1>1. out' = [out EXCEPT ![c] = OutcomeOf(c)'] /\ out[c] = OutcomeOf(c)
    OBVIOUS
  <1>2. CASE OutcomeOf(c)' = OutcomeOf(c)
    BY <1>2 DEF Promise!vars
  <1>3. CASE OutcomeOf(c)' # OutcomeOf(c)
    <2>1. \/ Promise!Refuse(c) \/ Promise!Accept(c) \/ Promise!ReturnResult(c)
          \/ Promise!Deliver(c) \/ Promise!Fail(c)
      BY <1>1, <1>3
         DEF Promise!Refuse, Promise!Accept, Promise!ReturnResult,
             Promise!Deliver, Promise!Fail, Promise!Becomes
    <2> QED
      BY <2>1 DEF Promise!Next
  <1> QED
    BY <1>2, <1>3

\* Every step is a step of CallOutcome or a stutter.
LEMMA PromiseStep ==
  LockingInv /\ ContextInv /\ ReportInv /\ [Next]_vars
      => [Promise!Next]_(Promise!vars)
  <1> SUFFICES ASSUME LockingInv, ContextInv, ReportInv, [Next]_vars
               PROVE  [Promise!Next]_(Promise!vars)
    OBVIOUS
  <1> USE ThreadsAssumption
      DEF ContextInv, PhaseInv, OwnCallInv, CurrentInv, ReportInv, UnsentInv,
          CurrentReportInv, WasSent, LockingInv, CallInv, TypeOK, Threads,
          CallbackSteps, InUserCode, lockVars, callVars, storeVars, sdbusVars,
          loopVars, historyVars, lifeVars
  <1>1. ASSUME NEW t \in Threads, NEW c \in Calls, Begin(t, c)
       PROVE  [Promise!Next]_(Promise!vars)
    <2>1. phase # "dead" /\ phase' = phase
      BY <1>1 DEF Begin, MayCall, FirstStep, Step
    <2>2. \A d \in Calls \ {c} : OutcomeOf(d)' = OutcomeOf(d)
      BY <1>1 DEF Begin, MayCall, FirstStep, Step, OutcomeOf
    <2>3. OutcomeOf(c)' = OutcomeOf(c)
      BY <1>1 DEF Begin, MayCall, FirstStep, Step, OutcomeOf
    <2> QED
      BY <2>1, <2>2, <2>3, VisibleStep
  <1>2. ASSUME NEW t \in Threads, TakeOuterLock(t)
       PROVE  [Promise!Next]_(Promise!vars)
    BY <1>2, InvisibleStep DEF TakeOuterLock, Lock, CanLock, FirstStep, Step
  <1>3. ASSUME NEW t \in Threads, Create(t)
       PROVE  [Promise!Next]_(Promise!vars)
    BY <1>3, InvisibleStep DEF Create, Step
  <1>4. ASSUME NEW t \in Threads, Compose(t)
       PROVE  [Promise!Next]_(Promise!vars)
    BY <1>4, InvisibleStep DEF Compose, Step
  <1>5. ASSUME NEW t \in Threads, TakeLock(t)
       PROVE  [Promise!Next]_(Promise!vars)
    BY <1>5, InvisibleStep DEF TakeLock, Lock, CanLock, Step
  <1>6. ASSUME NEW t \in Threads, InsertContext(t)
       PROVE  [Promise!Next]_(Promise!vars)
    BY <1>6, InvisibleStep DEF InsertContext, Step
  <1>7. ASSUME NEW t \in Threads, Send(t)
       PROVE  [Promise!Next]_(Promise!vars)
    <2> PICK c \in Calls : c = call[t]
      BY <1>7 DEF Send, Step
    <2>1. phase # "dead" /\ phase' = phase
      BY <1>7 DEF Send, Step
    <2>2. \A d \in Calls \ {c} : OutcomeOf(d)' = OutcomeOf(d)
      BY <1>7 DEF Send, Step, OutcomeOf
    <2>3. OutcomeOf(c) = "none" /\ OutcomeOf(c)' \in {"none", "pending"}
      BY <1>7 DEF Send, Step, OutcomeOf
    <2> QED
      BY <2>1, <2>2, <2>3, VisibleStep
  <1>8. ASSUME NEW t \in Threads, SetSlot(t)
       PROVE  [Promise!Next]_(Promise!vars)
    BY <1>8, InvisibleStep DEF SetSlot, SendResult, SentSlot, Unlock, Step
  <1>9. ASSUME NEW t \in Threads, SyncCall(t)
       PROVE  [Promise!Next]_(Promise!vars)
    BY <1>9, InvisibleStep DEF SyncCall, Lock, CanLock, Step
  <1>10. ASSUME NEW t \in Threads, SyncReply(t)
       PROVE  [Promise!Next]_(Promise!vars)
    BY <1>10, InvisibleStep DEF SyncReply, Unlock, Step
  <1>11. ASSUME NEW t \in Threads, Return(t)
       PROVE  [Promise!Next]_(Promise!vars)
    <2> PICK c \in Calls : c = call[t]
      BY <1>11 DEF Return, Leave, LeaveOuterLock, Unlock, Step
    <2>1. phase # "dead" /\ phase' = phase
      BY <1>11 DEF Return, Leave, LeaveOuterLock, Unlock, Step
    <2>2. \A d \in Calls \ {c} : OutcomeOf(d)' = OutcomeOf(d)
      BY <1>11 DEF Return, Leave, LeaveOuterLock, Unlock, Step, OutcomeOf
    <2>3. \/ OutcomeOf(c)' = OutcomeOf(c)
          \/ OutcomeOf(c) = "none" /\ OutcomeOf(c)' = "delivered"
      BY <1>11 DEF Return, Leave, LeaveOuterLock, Unlock, Step, OutcomeOf
    <2> QED
      BY <2>1, <2>2, <2>3, VisibleStep
  <1>12. ASSUME NEW t \in Threads, Throw(t)
       PROVE  [Promise!Next]_(Promise!vars)
    <2> PICK c \in Calls : c = call[t]
      BY <1>12 DEF Throw, Leave, LeaveOuterLock, Unlock, Step
    <2>1. phase # "dead" /\ phase' = phase
      BY <1>12 DEF Throw, Leave, LeaveOuterLock, Unlock, Step
    <2>2. \A d \in Calls \ {c} : OutcomeOf(d)' = OutcomeOf(d)
      BY <1>12 DEF Throw, Leave, LeaveOuterLock, Unlock, Step, OutcomeOf
    <2>3. OutcomeOf(c) = "none" /\ OutcomeOf(c)' = "refused"
      BY <1>12 DEF Throw, Leave, LeaveOuterLock, Unlock, Step, OutcomeOf
    <2> QED
      BY <2>1, <2>2, <2>3, VisibleStep
  <1>13. ASSUME NEW c \in Calls, Answer(c)
       PROVE  [Promise!Next]_(Promise!vars)
    BY <1>13, InvisibleStep DEF Answer, AnswerKinds
  <1>14. ASSUME NEW c \in Calls, Expire(c)
       PROVE  [Promise!Next]_(Promise!vars)
    BY <1>14, InvisibleStep DEF Expire
  <1>15. ASSUME LoopExit
       PROVE  [Promise!Next]_(Promise!vars)
    BY <1>15, InvisibleStep DEF LoopExit, LoopStep, StayInLoop
  <1>16. ASSUME LoopLock
       PROVE  [Promise!Next]_(Promise!vars)
    BY <1>16, InvisibleStep DEF LoopLock, Lock, CanLock, LoopStep, StayInLoop
  <1>17. ASSUME NEW c \in Calls, ProcessTimeout(c)
       PROVE  [Promise!Next]_(Promise!vars)
    BY <1>17, InvisibleStep DEF ProcessTimeout, FirstCallbackSteps, DueTimeouts, LoopStep, StayInLoop
  <1>18. ASSUME NEW c \in Calls, ProcessAnswer(c)
       PROVE  [Promise!Next]_(Promise!vars)
    BY <1>18, InvisibleStep DEF ProcessAnswer, FirstCallbackSteps, Arrived, AnswerKinds, LoopStep, StayInLoop
  <1>19. ASSUME NEW c \in Calls, ProcessLateAnswer(c)
       PROVE  [Promise!Next]_(Promise!vars)
    BY <1>19, InvisibleStep DEF ProcessLateAnswer, Arrived, AnswerKinds, Unlock, LoopStep, StayInLoop
  <1>20. ASSUME ProcessNothing
       PROVE  [Promise!Next]_(Promise!vars)
    BY <1>20, InvisibleStep DEF ProcessNothing, Unlock, LoopStep, StayInLoop
  <1>21. ASSUME WaitOver
       PROVE  [Promise!Next]_(Promise!vars)
    BY <1>21, InvisibleStep DEF WaitOver, AfterWait, LoopStep, StayInLoop
  <1>22. ASSUME EnterThen
       PROVE  [Promise!Next]_(Promise!vars)
    <2> PICK c \in Calls : c = current
      BY <1>22 DEF EnterThen, LoopStep, StayInCallback
    <2>1. phase # "dead" /\ phase' = phase
      BY <1>22 DEF EnterThen, LoopStep, StayInCallback
    <2>2. \A d \in Calls \ {c} : OutcomeOf(d)' = OutcomeOf(d)
      BY <1>22 DEF EnterThen, LoopStep, StayInCallback, OutcomeOf
    <2>3. OutcomeOf(c) = "pending" /\ OutcomeOf(c)' = "delivered"
      BY <1>22 DEF EnterThen, LoopStep, StayInCallback, OutcomeOf
    <2> QED
      BY <2>1, <2>2, <2>3, VisibleStep
  <1>23. ASSUME UnpackThrows
       PROVE  [Promise!Next]_(Promise!vars)
    BY <1>23, InvisibleStep DEF UnpackThrows, UnreadableGoesTo, LoopStep, StayInCallback
  <1>24. ASSUME LeaveThen
       PROVE  [Promise!Next]_(Promise!vars)
    BY <1>24, InvisibleStep DEF LeaveThen, AfterUserCode, LoopStep, StayInCallback
  <1>25. ASSUME EnterErrInTry
       PROVE  [Promise!Next]_(Promise!vars)
    <2> PICK c \in Calls : c = current
      BY <1>25 DEF EnterErrInTry, EnterErr, LoopStep, StayInCallback
    <2>1. phase # "dead" /\ phase' = phase
      BY <1>25 DEF EnterErrInTry, EnterErr, LoopStep, StayInCallback
    <2>2. \A d \in Calls \ {c} : OutcomeOf(d)' = OutcomeOf(d)
      BY <1>25 DEF EnterErrInTry, EnterErr, LoopStep, StayInCallback, OutcomeOf
    <2>3. OutcomeOf(c) = "pending" /\ OutcomeOf(c)' = "failed"
      BY <1>25 DEF EnterErrInTry, EnterErr, LoopStep, StayInCallback, OutcomeOf
    <2> QED
      BY <2>1, <2>2, <2>3, VisibleStep
  <1>26. ASSUME EnterErrInCatch
       PROVE  [Promise!Next]_(Promise!vars)
    <2> PICK c \in Calls : c = current
      BY <1>26 DEF EnterErrInCatch, EnterErr, LoopStep, StayInCallback
    <2>1. phase # "dead" /\ phase' = phase
      BY <1>26 DEF EnterErrInCatch, EnterErr, LoopStep, StayInCallback
    <2>2. \A d \in Calls \ {c} : OutcomeOf(d)' = OutcomeOf(d)
      BY <1>26 DEF EnterErrInCatch, EnterErr, LoopStep, StayInCallback, OutcomeOf
    <2>3. /\ OutcomeOf(c) \in {"pending", "delivered", "failed"}
          /\ OutcomeOf(c)' = "failed"
      BY <1>26 DEF EnterErrInCatch, EnterErr, LoopStep, StayInCallback, OutcomeOf
    <2> QED
      BY <2>1, <2>2, <2>3, VisibleStep
  <1>27. ASSUME OmittedErrInTry
       PROVE  [Promise!Next]_(Promise!vars)
    BY <1>27, InvisibleStep DEF OmittedErrInTry, LoopStep, StayInCallback
  <1>28. ASSUME LeaveErrInTry
       PROVE  [Promise!Next]_(Promise!vars)
    BY <1>28, InvisibleStep DEF LeaveErrInTry, AfterUserCode, LoopStep, StayInCallback
  <1>29. ASSUME LeaveErrInCatch
       PROVE  [Promise!Next]_(Promise!vars)
    BY <1>29, InvisibleStep DEF LeaveErrInCatch, LoopStep, StayInCallback
  <1>30. ASSUME Escape
       PROVE  [Promise!Next]_(Promise!vars)
    BY <1>30, InvisibleStep DEF Escape, MayEscape, LoopStep, StayInCallback
  <1>31. ASSUME ScopeExit
       PROVE  [Promise!Next]_(Promise!vars)
    BY <1>31, InvisibleStep DEF ScopeExit, Erase, Unlock, LoopStep, StayInLoop
  <1>32. ASSUME StopLoop
       PROVE  [Promise!Next]_(Promise!vars)
    BY <1>32, InvisibleStep DEF StopLoop, Stopped
  <1>33. ASSUME Destroy
       PROVE  [Promise!Next]_(Promise!vars)
    <2>1. Promise!Die
      BY <1>33 DEF Destroy, Promise!Die, OutcomeOf
    <2> QED
      BY <2>1 DEF Promise!Next
  <1>34. CASE UNCHANGED vars
    BY <1>34, InvisibleStep DEF vars
  <1> QED
    BY <1>1, <1>2, <1>3, <1>4, <1>5, <1>6, <1>7, <1>8, <1>9, <1>10,
       <1>11, <1>12, <1>13, <1>14, <1>15, <1>16, <1>17, <1>18, <1>19,
       <1>20, <1>21, <1>22, <1>23, <1>24, <1>25, <1>26, <1>27, <1>28,
       <1>29, <1>30, <1>31, <1>32, <1>33, <1>34
       DEF Next, CallStep, Loop, Process, Callback, Bus, Finished

\* The calls of a connection keep the promise of CallOutcome, for any number of
\* threads and calls and whatever the callbacks do.
THEOREM PromiseKept == Spec => KeepsPromise
  <1>1. Init => Promise!Init
    BY DEF Init, Promise!Init, OutcomeOf, WasSent
  <1> QED
    BY <1>1, PromiseStep, ReportCorrect, PTL DEF Spec, KeepsPromise, Promise!Spec

-----------------------------------------------------------------------------
(* The end of the process, and slots that were never set. *)

\* Nothing happens after std::terminate.
LEMMA CrashIsFinal ==
  ASSUME Next, crashed
  PROVE  UNCHANGED vars
  BY DEF Next, CallStep, Loop, Process, Callback, Bus, Finished, Step, LoopStep,
         Begin, TakeOuterLock, Create, Compose, TakeLock, InsertContext, Send,
         SetSlot, SyncCall, SyncReply, Return, EnterErr, Leave, Throw, Answer,
         Expire, LoopExit, LoopLock, ProcessTimeout, ProcessAnswer,
         ProcessLateAnswer, ProcessNothing, WaitOver, EnterThen, UnpackThrows,
         LeaveThen, EnterErrInTry, EnterErrInCatch, OmittedErrInTry,
         LeaveErrInTry, LeaveErrInCatch, Escape, ScopeExit, StopLoop, Destroy

\* Only an exception that leaves the handler ends the process.
LEMMA OnlyEscapeCrashes ==
  ASSUME Next, ~crashed, crashed'
  PROVE  Escape
  BY DEF Next, CallStep, Loop, Process, Callback, Bus, Finished, StayInLoop,
         lifeVars, vars,
         Begin, TakeOuterLock, Create, Compose, TakeLock, InsertContext, Send,
         SetSlot, SyncCall, SyncReply, Return, EnterErr, Leave, Throw, Answer,
         Expire, LoopExit, LoopLock, ProcessTimeout, ProcessAnswer,
         ProcessLateAnswer, ProcessNothing, WaitOver, EnterThen, UnpackThrows,
         LeaveThen, EnterErrInTry, EnterErrInCatch, OmittedErrInTry,
         LeaveErrInTry, LeaveErrInCatch, ScopeExit, StopLoop, Destroy,
         StayInCallback

\* The process is lost only through an error callback that was omitted or throws.
THEOREM CrashesByErrorCallback == Spec => []CrashOnlyByErrorCallback
  <1>1. Init => CrashOnlyByErrorCallback
    BY DEF Init, CrashOnlyByErrorCallback
  <1>2. CrashOnlyByErrorCallback /\ [Next]_vars => CrashOnlyByErrorCallback'
    <2> SUFFICES ASSUME CrashOnlyByErrorCallback, [Next]_vars, crashed'
                 PROVE  (plan[current].err # "returns")'
      BY DEF CrashOnlyByErrorCallback
    <2>1. CASE UNCHANGED vars
      BY <2>1 DEF vars, loopVars, lifeVars, CrashOnlyByErrorCallback
    <2>2. CASE Next /\ crashed
      BY <2>2, CrashIsFinal DEF vars, loopVars, lifeVars, CrashOnlyByErrorCallback
    <2>3. CASE Next /\ ~crashed
      <3>1. Escape
        BY <2>3, OnlyEscapeCrashes
      <3> QED
        BY <3>1 DEF Escape, MayEscape, StayInCallback, LoopStep
    <2> QED
      BY <2>1, <2>2, <2>3
  <1> QED
    BY <1>1, <1>2, PTL DEF Spec

\* A context whose slot_ is the uninitialised local was refused by sd-bus, and its
\* caller was told or is being told.
GarbageInv ==
    /\ \A c \in Calls : slot[c] = "garbage" =>
          /\ ~WasSent(c)
          /\ \/ status[c] = "thrown"
             \/ \E t \in Threads : pc[t] = "throw" /\ call[t] = c
    /\ wildUnref => phase = "dead"
    /\ WildUnrefOnlyAfterThrow

\* No slot is set at first.
LEMMA InitGarbage == Init => GarbageInv
  BY DEF Init, GarbageInv, WildUnrefOnlyAfterThrow

\* Every action leaves unset slots to refused calls.
LEMMA GarbageStep ==
  LockingInv /\ ContextInv /\ GarbageInv /\ [Next]_vars => GarbageInv'
  <1> SUFFICES ASSUME LockingInv, ContextInv, GarbageInv, [Next]_vars
               PROVE  GarbageInv'
    OBVIOUS
  <1> USE ThreadsAssumption
      DEF GarbageInv, WildUnrefOnlyAfterThrow, WasSent, ContextInv, OwnCallInv,
          SlotInv, UnsetSteps, PhaseInv, RegisteredInv, Threads, LockingInv, CallInv, TypeOK,
          InUserCode, lockVars, callVars, storeVars, sdbusVars, loopVars,
          historyVars, lifeVars
  <1>1. ASSUME NEW t \in Threads, NEW c \in Calls, Begin(t, c)
       PROVE  GarbageInv'
    BY <1>1 DEF Begin, MayCall, FirstStep, Step
  <1>2. ASSUME NEW t \in Threads, TakeOuterLock(t)
       PROVE  GarbageInv'
    BY <1>2 DEF TakeOuterLock, Lock, CanLock, FirstStep, Step
  <1>3. ASSUME NEW t \in Threads, Create(t)
       PROVE  GarbageInv'
    BY <1>3 DEF Create, Step
  <1>4. ASSUME NEW t \in Threads, Compose(t)
       PROVE  GarbageInv'
    BY <1>4 DEF Compose, Step
  <1>5. ASSUME NEW t \in Threads, TakeLock(t)
       PROVE  GarbageInv'
    BY <1>5 DEF TakeLock, Lock, CanLock, Step
  <1>6. ASSUME NEW t \in Threads, InsertContext(t)
       PROVE  GarbageInv'
    BY <1>6 DEF InsertContext, Step
  <1>7. ASSUME NEW t \in Threads, Send(t)
       PROVE  GarbageInv'
    BY <1>7 DEF Send, Step
  <1>8. ASSUME NEW t \in Threads, SetSlot(t)
       PROVE  GarbageInv'
    BY <1>8 DEF SetSlot, SendResult, SentSlot, Unlock, Step
  <1>9. ASSUME NEW t \in Threads, SyncCall(t)
       PROVE  GarbageInv'
    BY <1>9 DEF SyncCall, Lock, CanLock, Step
  <1>10. ASSUME NEW t \in Threads, SyncReply(t)
       PROVE  GarbageInv'
    BY <1>10 DEF SyncReply, Unlock, Step
  <1>11. ASSUME NEW t \in Threads, Return(t)
       PROVE  GarbageInv'
    BY <1>11 DEF Return, Leave, LeaveOuterLock, Unlock, Step
  <1>12. ASSUME NEW t \in Threads, Throw(t)
       PROVE  GarbageInv'
    BY <1>12 DEF Throw, Leave, LeaveOuterLock, Unlock, Step
  <1>13. ASSUME NEW c \in Calls, Answer(c)
       PROVE  GarbageInv'
    BY <1>13 DEF Answer, AnswerKinds
  <1>14. ASSUME NEW c \in Calls, Expire(c)
       PROVE  GarbageInv'
    BY <1>14 DEF Expire
  <1>15. ASSUME LoopExit
       PROVE  GarbageInv'
    BY <1>15 DEF LoopExit, LoopStep, StayInLoop
  <1>16. ASSUME LoopLock
       PROVE  GarbageInv'
    BY <1>16 DEF LoopLock, Lock, CanLock, LoopStep, StayInLoop
  <1>17. ASSUME NEW c \in Calls, ProcessTimeout(c)
       PROVE  GarbageInv'
    BY <1>17 DEF ProcessTimeout, FirstCallbackSteps, DueTimeouts, LoopStep, StayInLoop
  <1>18. ASSUME NEW c \in Calls, ProcessAnswer(c)
       PROVE  GarbageInv'
    BY <1>18 DEF ProcessAnswer, FirstCallbackSteps, Arrived, AnswerKinds, LoopStep, StayInLoop
  <1>19. ASSUME NEW c \in Calls, ProcessLateAnswer(c)
       PROVE  GarbageInv'
    BY <1>19 DEF ProcessLateAnswer, Arrived, AnswerKinds, Unlock, LoopStep, StayInLoop
  <1>20. ASSUME ProcessNothing
       PROVE  GarbageInv'
    BY <1>20 DEF ProcessNothing, Unlock, LoopStep, StayInLoop
  <1>21. ASSUME WaitOver
       PROVE  GarbageInv'
    BY <1>21 DEF WaitOver, AfterWait, LoopStep, StayInLoop
  <1>22. ASSUME EnterThen
       PROVE  GarbageInv'
    BY <1>22 DEF EnterThen, LoopStep, StayInCallback
  <1>23. ASSUME UnpackThrows
       PROVE  GarbageInv'
    BY <1>23 DEF UnpackThrows, UnreadableGoesTo, LoopStep, StayInCallback
  <1>24. ASSUME LeaveThen
       PROVE  GarbageInv'
    BY <1>24 DEF LeaveThen, AfterUserCode, LoopStep, StayInCallback
  <1>25. ASSUME EnterErrInTry
       PROVE  GarbageInv'
    BY <1>25 DEF EnterErrInTry, EnterErr, LoopStep, StayInCallback
  <1>26. ASSUME EnterErrInCatch
       PROVE  GarbageInv'
    BY <1>26 DEF EnterErrInCatch, EnterErr, LoopStep, StayInCallback
  <1>27. ASSUME OmittedErrInTry
       PROVE  GarbageInv'
    BY <1>27 DEF OmittedErrInTry, LoopStep, StayInCallback
  <1>28. ASSUME LeaveErrInTry
       PROVE  GarbageInv'
    BY <1>28 DEF LeaveErrInTry, AfterUserCode, LoopStep, StayInCallback
  <1>29. ASSUME LeaveErrInCatch
       PROVE  GarbageInv'
    BY <1>29 DEF LeaveErrInCatch, LoopStep, StayInCallback
  <1>30. ASSUME Escape
       PROVE  GarbageInv'
    BY <1>30 DEF Escape, MayEscape, LoopStep, StayInCallback
  <1>31. ASSUME ScopeExit
       PROVE  GarbageInv'
    BY <1>31 DEF ScopeExit, Erase, Unlock, LoopStep, StayInLoop
  <1>32. ASSUME StopLoop
       PROVE  GarbageInv'
    BY <1>32 DEF StopLoop, Stopped
  <1>33. ASSUME Destroy
       PROVE  GarbageInv'
    <2>1. \A t \in Threads : pc[t] = "idle"
      BY <1>33 DEF Destroy
    <2>2. \A c \in Calls : slot[c] = "garbage" => status[c] = "thrown" /\ ~WasSent(c)
      BY <2>1
    <2>3. UNCHANGED <<answer, status, pc, call>> /\ phase' = "dead"
      BY <1>33 DEF Destroy
    <2>4. \A c \in Calls : slot'[c] = "garbage" => slot[c] = "garbage"
      BY <1>33 DEF Destroy
    <2>5. ASSUME wildUnref'
          PROVE  \E c \in contexts : slot[c] = "garbage"
      <3>1. wildUnref' \in IF \E c \in contexts : slot[c] = "garbage"
                          THEN BOOLEAN ELSE {FALSE}
        BY <1>33 DEF Destroy
      <3> HIDE DEF GarbageInv, ContextInv, LockingInv
      <3>2. CASE ~\E c \in contexts : slot[c] = "garbage"
        <4>1. wildUnref' \in {FALSE}
          BY <3>1, <3>2
        <4> QED
          BY <2>5, <4>1
      <3> QED
        BY <3>2
    <2>6. contexts \subseteq Calls
      OBVIOUS
    <2> QED
      BY <2>2, <2>3, <2>4, <2>5, <2>6
  <1>34. CASE UNCHANGED vars
    BY <1>34 DEF vars
  <1> QED
    BY <1>1, <1>2, <1>3, <1>4, <1>5, <1>6, <1>7, <1>8, <1>9, <1>10,
       <1>11, <1>12, <1>13, <1>14, <1>15, <1>16, <1>17, <1>18, <1>19,
       <1>20, <1>21, <1>22, <1>23, <1>24, <1>25, <1>26, <1>27, <1>28,
       <1>29, <1>30, <1>31, <1>32, <1>33, <1>34
       DEF Next, CallStep, Loop, Process, Callback, Bus, Finished

\* ~dbus gives back a slot that was never set only for a call that sd-bus refused
\* and whose caller got an exception.
THEOREM WildUnrefsAfterThrow == Spec => []WildUnrefOnlyAfterThrow
  <1>1. Init => LockingInv /\ ContextInv /\ GarbageInv
    BY InitLocking, InitContext, InitGarbage
  <1>2. LockingInv /\ ContextInv /\ GarbageInv /\ [Next]_vars
            => (LockingInv /\ ContextInv /\ GarbageInv)'
    BY LockingStep, ContextStep, GarbageStep
  <1>3. LockingInv /\ ContextInv /\ GarbageInv => WildUnrefOnlyAfterThrow
    BY DEF GarbageInv
  <1> QED
    BY <1>1, <1>2, <1>3, PTL DEF Spec

=============================================================================

--------------------------- MODULE EventLoop_proofs ---------------------------
(***************************************************************************)
(* Proofs about EventLoop, for any number of loops, messages and errors.   *)
(* Each theorem names the habits of the application that it excludes: the  *)
(* types and the single thread need none excluded; that started loops run, *)
(* that is_running() is accurate and that a closed connection is left      *)
(* alone, and that the process ends only for what the application did,     *)
(* exclude restart; that stop() ends excludes stopWithMutex.               *)
(***************************************************************************)
EXTENDS EventLoop, TLAPS

\* No thread of l is in the loop.
Out(l) == at[l] \in {"none", "ended"}

\* stop() joins the thread of l.
Joining(l) == control = "join" /\ target = l

Starting == control \in {"startRunning", "startActual", "startCheck", "spawn"}

-----------------------------------------------------------------------------
(* Types, whatever the application does. *)

\* The types are right at first.
LEMMA InitType == Init => TypeOK
  <1> SUFFICES ASSUME Init PROVE TypeOK
    OBVIOUS
  <1>1. /\ running \in [Loops -> BOOLEAN] /\ actuallyRunning \in [Loops -> BOOLEAN]
        /\ joinable \in [Loops -> BOOLEAN]
        /\ refused \in [Loops -> BOOLEAN] /\ wanted \in [Loops -> BOOLEAN]
    BY Zenon DEF Init
  <1>2. pending \in 0 .. MaxPending /\ errors \in 0 .. MaxErrors
    BY LoopAssumption DEF Init
  <1> QED
    BY <1>1, <1>2 DEF Init, TypeOK, ThreadSteps, ControlSteps, BlockingSteps

\* Every action keeps the types.
LEMMA TypeStep == TypeOK /\ [Next]_vars => TypeOK'
  <1> SUFFICES ASSUME TypeOK, [Next]_vars
               PROVE  TypeOK'
    OBVIOUS
  <1> USE LoopAssumption
      DEF TypeOK, ThreadSteps, ControlSteps, BlockingSteps, objectVars, flagVars,
          threadVars, controlVars, busVars
  <1>1. ASSUME NEW l \in Loops, Create(l)
       PROVE  TypeOK'
    BY <1>1 DEF Create, Idle
  <1>2. ASSUME NEW l \in Loops, SetErrorCallback(l)
       PROVE  TypeOK'
    BY <1>2 DEF SetErrorCallback, Idle
  <1>3. ASSUME ErrorCallbackSet
       PROVE  TypeOK'
    BY <1>3 DEF ErrorCallbackSet
  <1>4. ASSUME TakeMutex
       PROVE  TypeOK'
    BY <1>4 DEF TakeMutex, Idle
  <1>5. ASSUME LeaveMutex
       PROVE  TypeOK'
    BY <1>5 DEF LeaveMutex, Idle
  <1>6. ASSUME NEW l \in Loops, Start(l)
       PROVE  TypeOK'
    BY <1>6 DEF Start, Command, NotWanted, Idle
  <1>7. ASSUME NEW l \in Loops, Install(l)
       PROVE  TypeOK'
    BY <1>7 DEF Install, Command, NotWanted, Idle
  <1>8. ASSUME NEW l \in Loops, Stop(l)
       PROVE  TypeOK'
    BY <1>8 DEF Stop, StopThen, StopFlag, NotWanted, Idle
  <1>9. ASSUME Destroy
       PROVE  TypeOK'
    BY <1>9 DEF Destroy, Idle
  <1>10. ASSUME StartRunning
       PROVE  TypeOK'
    BY <1>10 DEF StartRunning
  <1>11. ASSUME StartActual
       PROVE  TypeOK'
    BY <1>11 DEF StartActual
  <1>12. ASSUME StartCheck
       PROVE  TypeOK'
    <2>1. running' \in [Loops -> BOOLEAN]
      BY <1>12 DEF StartCheck, StopThen, StopFlag
    <2>2. /\ control' \in {"join", "spawn"} /\ afterJoin' \in {"idle", "spawn", "close"}
          /\ target' \in Loops \cup {NoLoop}
      BY <1>12 DEF StartCheck, StopThen
    <2> QED
      BY <2>1, <2>2, <1>12 DEF StartCheck
  <1>13. ASSUME Spawn
       PROVE  TypeOK'
    BY <1>13 DEF Spawn
  <1>14. ASSUME Join
       PROVE  TypeOK'
    BY <1>14 DEF Join
  <1>15. ASSUME DestroyCheck
       PROVE  TypeOK'
    BY <1>15 DEF DestroyCheck, DestructorStops, StopThen, StopFlag
  <1>16. ASSUME Close
       PROVE  TypeOK'
    BY <1>16 DEF Close
  <1>17. ASSUME DestroyMembers
       PROVE  TypeOK'
    BY <1>17 DEF DestroyMembers
  <1>18. ASSUME RunBlocking
       PROVE  TypeOK'
    BY <1>18 DEF RunBlocking, BlockingStep, KeepLoops
  <1>19. ASSUME ClearKeepRunning
       PROVE  TypeOK'
    <2>1. keepRunning' = FALSE /\ UNCHANGED <<control, busVars, mutex>> /\ KeepLoops
      BY <1>19 DEF ClearKeepRunning
    <2>2. keepRunning' \in BOOLEAN
      BY <2>1
    <2>3. UNCHANGED <<objectVars, flagVars, threadVars, controlVars, busVars, errorCb,
                      mutex, bus, crash>>
      BY <2>1 DEF KeepLoops
    <2> QED
      BY <2>2, <2>3
  <1>20. ASSUME BlockingHead
       PROVE  TypeOK'
    BY <1>20 DEF BlockingHead, BlockingStep, KeepLoops
  <1>21. ASSUME BlockingReturns
       PROVE  TypeOK'
    BY <1>21 DEF BlockingReturns, BlockingStep, KeepLoops
  <1>22. ASSUME BlockingProcesses
       PROVE  TypeOK'
    BY <1>22 DEF BlockingProcesses, BlockingStep, KeepLoops
  <1>23. ASSUME BlockingProcessesNothing
       PROVE  TypeOK'
    BY <1>23 DEF BlockingProcessesNothing, BlockingStep, KeepLoops
  <1>24. ASSUME BlockingBadMessage
       PROVE  TypeOK'
    BY <1>24 DEF BlockingBadMessage, AfterBadMessage, BlockingStep, KeepLoops
  <1>25. ASSUME BlockingThrows
       PROVE  TypeOK'
    BY <1>25 DEF BlockingThrows, BlockingStep, KeepLoops
  <1>26. ASSUME BlockingCaught
       PROVE  TypeOK'
    BY <1>26 DEF BlockingCaught, BlockingStep, KeepLoops
  <1>27. ASSUME BlockingWaitOver
       PROVE  TypeOK'
    BY <1>27 DEF BlockingWaitOver, BlockingStep, KeepLoops
  <1>28. ASSUME NEW l \in Loops, Head(l)
       PROVE  TypeOK'
    BY <1>28 DEF Head, ThreadStep, KeepControl
  <1>29. ASSUME NEW l \in Loops, LeaveFor(l)
       PROVE  TypeOK'
    BY <1>29 DEF LeaveFor, ThreadStep, KeepControl
  <1>30. ASSUME NEW l \in Loops, ProcessMessage(l)
       PROVE  TypeOK'
    BY <1>30 DEF ProcessMessage, ThreadStep, KeepControl
  <1>31. ASSUME NEW l \in Loops, ProcessNothing(l)
       PROVE  TypeOK'
    BY <1>31 DEF ProcessNothing, ThreadStep, KeepControl
  <1>32. ASSUME NEW l \in Loops, ProcessFails(l)
       PROVE  TypeOK'
    BY <1>32 DEF ProcessFails, ThreadStep, KeepControl
  <1>33. ASSUME NEW l \in Loops, MessageCallback(l)
       PROVE  TypeOK'
    BY <1>33 DEF MessageCallback, ThreadStep, KeepControl
  <1>34. ASSUME NEW l \in Loops, WaitOver(l)
       PROVE  TypeOK'
    BY <1>34 DEF WaitOver, ThreadStep, KeepControl
  <1>35. ASSUME NEW l \in Loops, WaitFails(l)
       PROVE  TypeOK'
    BY <1>35 DEF WaitFails, ThreadStep, KeepControl
  <1>36. ASSUME NEW l \in Loops, NoErrorCallback(l)
       PROVE  TypeOK'
    BY <1>36 DEF NoErrorCallback, ThreadStep, KeepControl
  <1>37. ASSUME NEW l \in Loops, ErrorCallbackContinues(l)
       PROVE  TypeOK'
    BY <1>37 DEF ErrorCallbackContinues, AfterError, ThreadStep, KeepControl
  <1>38. ASSUME NEW l \in Loops, ErrorCallbackRefuses(l)
       PROVE  TypeOK'
    BY <1>38 DEF ErrorCallbackRefuses, ThreadStep, KeepControl
  <1>39. ASSUME NEW l \in Loops, End(l)
       PROVE  TypeOK'
    BY <1>39 DEF End, EndFlag, ThreadStep, KeepControl
  <1>40. ASSUME Arrive
       PROVE  TypeOK'
    BY <1>40 DEF Arrive
  <1>42. ASSUME NEW l \in Loops, LoopLock(l)
       PROVE  TypeOK'
    BY <1>42 DEF LoopLock, ThreadStep, KeepControl
  <1>43. ASSUME NEW l \in Loops, CallbackThrows(l)
       PROVE  TypeOK'
    BY <1>43 DEF CallbackThrows, ThreadStep, KeepControl
  <1>44. ASSUME OtherCalls \/ OtherReturns
       PROVE  TypeOK'
    BY <1>44 DEF OtherCalls, OtherReturns, KeepLoops
  <1>41. CASE UNCHANGED vars
    BY <1>41 DEF vars
  <1> QED
    BY <1>1, <1>2, <1>3, <1>4, <1>5, <1>6, <1>7, <1>8, <1>9, <1>10, <1>11, <1>12,
       <1>13, <1>14, <1>15, <1>16, <1>17, <1>18, <1>19, <1>20, <1>21, <1>22, <1>23,
       <1>24, <1>25, <1>26, <1>27, <1>28, <1>29, <1>30, <1>31, <1>32, <1>33, <1>34,
       <1>35, <1>36, <1>37, <1>38, <1>39, <1>40, <1>41, <1>42,
       <1>43, <1>44
       DEF Next, Commands, ControlStep, BlockingLoop, LoopThread, Finished

\* TypeOK in every reachable state: flags, threads and commands stay within their
\* values, the mutex has at most one holder, and no message is handed out that did
\* not come in.
THEOREM TypeCorrect == Spec => []TypeOK
  BY InitType, TypeStep, PTL DEF Spec

-----------------------------------------------------------------------------
(* Threads, whatever the application does. *)

\* While the process lives, one loop at most has a thread: start() makes one when the
\* thread before it was joined, and a loop that has one is not replaced.
ThreadInv ==
    Alive =>
        /\ \A l \in Loops :
              /\ joinable[l] => l \in created /\ at[l] # "none"
              /\ ~joinable[l] => Out(l)
              /\ refused[l] => l \in Refusing
              /\ Joining(l) => joinable[l] /\ ~running[l]
        /\ \A k, l \in Loops : joinable[k] /\ joinable[l] => k = l
        /\ Starting => /\ target \in created /\ target \in Loops
                       /\ \A l \in Loops : joinable[l] => l = target
        /\ control = "spawn" => \A l \in Loops : ~joinable[l]
        /\ control = "join" => target \in Loops

\* At first there are no threads but the controlling one.
LEMMA InitThread == Init => ThreadInv
  BY DEF Init, ThreadInv, Out, Joining, Starting

\* Every action keeps one thread at most.
LEMMA ThreadStepKept == TypeOK /\ ThreadInv /\ [Next]_vars => ThreadInv'
  <1> SUFFICES ASSUME TypeOK, ThreadInv, [Next]_vars
               PROVE  ThreadInv'
    OBVIOUS
  <1> USE LoopAssumption
      DEF ThreadInv, Starting, Out, Joining, Alive, Has, TypeOK, ThreadSteps,
          ControlSteps, BlockingSteps, objectVars, flagVars, threadVars, controlVars, busVars
  <1>1. ASSUME NEW l \in Loops, Create(l)
        PROVE  ThreadInv'
    BY <1>1 DEF Create, Idle
  <1>2. ASSUME NEW l \in Loops, SetErrorCallback(l)
        PROVE  ThreadInv'
    BY <1>2 DEF SetErrorCallback, Idle
  <1>3. ASSUME ErrorCallbackSet
        PROVE  ThreadInv'
    BY <1>3 DEF ErrorCallbackSet
  <1>4. ASSUME TakeMutex \/ LeaveMutex
        PROVE  ThreadInv'
    BY <1>4 DEF TakeMutex, LeaveMutex, Idle
  <1>5. ASSUME NEW l \in Loops, Start(l)
        PROVE  ThreadInv'
    BY <1>5 DEF Start, MayStop, Command, NotWanted, Idle
  <1>6. ASSUME NEW l \in Loops, Install(l)
        PROVE  ThreadInv'
    BY <1>6 DEF Install, MayStop, Command, NotWanted, Idle
  <1>7. ASSUME NEW l \in Loops, Stop(l)
        PROVE  ThreadInv'
    BY <1>7 DEF Stop, MayStop, StopThen, StopFlag, NotWanted, Idle
  <1>8. ASSUME Destroy
        PROVE  ThreadInv'
    BY <1>8 DEF Destroy, MayStop, Idle
  <1>9. ASSUME StartRunning
        PROVE  ThreadInv'
    BY <1>9 DEF StartRunning
  <1>10. ASSUME StartActual
        PROVE  ThreadInv'
    BY <1>10 DEF StartActual
  <1>11. ASSUME StartCheck
        PROVE  ThreadInv'
    BY <1>11 DEF StartCheck, StopThen, StopFlag
  <1>12. ASSUME Spawn
        PROVE  ThreadInv'
    BY <1>12 DEF Spawn
  <1>13. ASSUME Join
        PROVE  ThreadInv'
    BY <1>13 DEF Join
  <1>14. ASSUME DestroyCheck
        PROVE  ThreadInv'
    BY <1>14 DEF DestroyCheck, DestructorStops, StopThen, StopFlag
  <1>15. ASSUME Close
        PROVE  ThreadInv'
    BY <1>15 DEF Close
  <1>16. ASSUME DestroyMembers
        PROVE  ThreadInv'
    BY <1>16 DEF DestroyMembers
  <1>17. ASSUME RunBlocking
        PROVE  ThreadInv'
    BY <1>17 DEF RunBlocking, BlockingStep, KeepLoops
  <1>18. ASSUME ClearKeepRunning
        PROVE  ThreadInv'
    BY <1>18 DEF ClearKeepRunning, KeepLoops
  <1>19. ASSUME BlockingLoop
        PROVE  ThreadInv'
    BY <1>19 DEF BlockingLoop, BlockingHead, BlockingReturns, BlockingProcesses,
           BlockingProcessesNothing, BlockingBadMessage, AfterBadMessage, BlockingThrows,
           BlockingCaught, BlockingWaitOver, BlockingStep, KeepLoops
  <1>20. ASSUME NEW l \in Loops, Head(l) \/ LeaveFor(l)
        PROVE  ThreadInv'
    BY <1>20 DEF Head, LeaveFor, ThreadStep, KeepControl
  <1>21. ASSUME NEW l \in Loops, LoopLock(l)
        PROVE  ThreadInv'
    BY <1>21 DEF LoopLock, ThreadStep, KeepControl
  <1>22. ASSUME NEW l \in Loops, ProcessMessage(l)
        PROVE  ThreadInv'
    BY <1>22 DEF ProcessMessage, ThreadStep, KeepControl
  <1>23. ASSUME NEW l \in Loops, ProcessNothing(l)
        PROVE  ThreadInv'
    BY <1>23 DEF ProcessNothing, ThreadStep, KeepControl
  <1>24. ASSUME NEW l \in Loops, ProcessFails(l)
        PROVE  ThreadInv'
    BY <1>24 DEF ProcessFails, ThreadStep, KeepControl
  <1>25. ASSUME NEW l \in Loops, MessageCallback(l)
        PROVE  ThreadInv'
    BY <1>25 DEF MessageCallback, ThreadStep, KeepControl
  <1>26. ASSUME NEW l \in Loops, WaitOver(l) \/ WaitFails(l)
        PROVE  ThreadInv'
    BY <1>26 DEF WaitOver, WaitFails, ThreadStep, KeepControl
  <1>27. ASSUME NEW l \in Loops, NoErrorCallback(l)
        PROVE  ThreadInv'
    BY <1>27 DEF NoErrorCallback, ThreadStep, KeepControl
  <1>28. ASSUME NEW l \in Loops, ErrorCallbackContinues(l)
        PROVE  ThreadInv'
    BY <1>28 DEF ErrorCallbackContinues, AfterError, ThreadStep, KeepControl
  <1>29. ASSUME NEW l \in Loops, ErrorCallbackRefuses(l)
        PROVE  ThreadInv'
    BY <1>29 DEF ErrorCallbackRefuses, ThreadStep, KeepControl
  <1>30. ASSUME NEW l \in Loops, End(l)
        PROVE  ThreadInv'
    BY <1>30 DEF End, EndFlag, ThreadStep, KeepControl
  <1>31. ASSUME Arrive
        PROVE  ThreadInv'
    BY <1>31 DEF Arrive
  <1>33. ASSUME NEW l \in Loops, CallbackThrows(l)
        PROVE  ThreadInv'
    BY <1>33 DEF CallbackThrows, ThreadStep, KeepControl
  <1>34. ASSUME OtherCalls \/ OtherReturns
        PROVE  ThreadInv'
    BY <1>34 DEF OtherCalls, OtherReturns, KeepLoops
  <1>32. CASE UNCHANGED vars
    BY <1>32 DEF vars
  <1> QED
    BY <1>1, <1>2, <1>3, <1>4, <1>5, <1>6, <1>7, <1>8, <1>9, <1>10, <1>11,
       <1>12, <1>13, <1>14, <1>15, <1>16, <1>17, <1>18, <1>19, <1>20, <1>21,
       <1>22, <1>23, <1>24, <1>25, <1>26, <1>27, <1>28, <1>29, <1>30, <1>31,
       <1>32, <1>33, <1>34
       DEF Next, Commands, ControlStep, LoopThread, Finished

\* One thread at most runs a loop, in every reachable state, whatever the application
\* does (busy_loop::start, install_event_loop).
THEOREM OneLoopRuns == Spec => [](TypeOK /\ ThreadInv)
  BY InitType, TypeStep, InitThread, ThreadStepKept, PTL DEF Spec

-----------------------------------------------------------------------------
(* Flags, commands and the closed connection, unless a loop is started again *)
(* while its thread is not joined.                                           *)

\* A thread leaves its loop because stop() waits for it or because its error
\* callback refused to go on.
LeaveInv ==
    Alive => \A l \in Loops : joinable[l] =>
        /\ running[l] \/ Joining(l)
        /\ at[l] \in {"leaving", "ended"} => refused[l] \/ Joining(l)

\* start() is called for a loop without a thread, and sets the flags before there
\* is one; at all other times actually_running_ tells where the thread is.
StartInv ==
    Alive =>
        /\ Starting => ~joinable[target] /\ ~wanted[target]
        /\ control \in {"startActual", "startCheck", "spawn"} => running[target]
        /\ control \in {"startCheck", "spawn"} => actuallyRunning[target]
        /\ control = "join" => afterJoin \in {"idle", "close"}
        /\ \A l \in Loops :
              /\ wanted[l] => joinable[l] /\ ~Joining(l)
              /\ ~(control \in {"startCheck", "spawn"} /\ target = l) =>
                    (actuallyRunning[l] <=> ~Out(l))

\* The destructor gets past its look at the loop only when its thread has ended.
DestroyInv ==
    /\ Alive /\ control = "destroyCheck" =>
          \A l \in Loops : ~wanted[l] /\ (joinable[l] => l = target)
    /\ control \in {"close", "destroyMembers", "gone"} => \A l \in Loops : Out(l)
    /\ bus = "closed" => control \in {"destroyMembers", "gone"}

LoopInv == LeaveInv /\ StartInv /\ DestroyInv

\* At first there are no loops.
LEMMA InitLoop == Init => LoopInv
  BY DEF Init, LoopInv, LeaveInv, StartInv, DestroyInv, Out, Joining, Starting

\* Every action keeps threads, flags and commands together.
LEMMA LoopStep ==
  ASSUME "restart" \notin Habits
  PROVE  TypeOK /\ ThreadInv /\ LoopInv /\ [Next]_vars => LoopInv'
  <1> SUFFICES ASSUME TypeOK, ThreadInv, LoopInv, [Next]_vars
               PROVE  LoopInv'
    OBVIOUS
  <1> USE LoopAssumption
      DEF ThreadInv, Starting, LoopInv, LeaveInv, StartInv, DestroyInv, Out, Joining, Alive, Has, TypeOK, ThreadSteps,
          ControlSteps, BlockingSteps, objectVars, flagVars, threadVars, controlVars, busVars
  <1>1. ASSUME NEW l \in Loops, Create(l)
        PROVE  LoopInv'
    BY <1>1 DEF Create, Idle
  <1>2. ASSUME NEW l \in Loops, SetErrorCallback(l)
        PROVE  LoopInv'
    BY <1>2 DEF SetErrorCallback, Idle
  <1>3. ASSUME ErrorCallbackSet
        PROVE  LoopInv'
    BY <1>3 DEF ErrorCallbackSet
  <1>4. ASSUME TakeMutex \/ LeaveMutex
        PROVE  LoopInv'
    BY <1>4 DEF TakeMutex, LeaveMutex, Idle
  <1>5. ASSUME NEW l \in Loops, Start(l)
        PROVE  LoopInv'
    BY <1>5 DEF Start, MayStop, Command, NotWanted, Idle
  <1>6. ASSUME NEW l \in Loops, Install(l)
        PROVE  LoopInv'
    BY <1>6 DEF Install, MayStop, Command, NotWanted, Idle
  <1>7. ASSUME NEW l \in Loops, Stop(l)
        PROVE  LoopInv'
    BY <1>7 DEF Stop, MayStop, StopThen, StopFlag, NotWanted, Idle
  <1>8. ASSUME Destroy
        PROVE  LoopInv'
    BY <1>8 DEF Destroy, MayStop, Idle
  <1>9. ASSUME StartRunning
        PROVE  LoopInv'
    BY <1>9 DEF StartRunning
  <1>10. ASSUME StartActual
        PROVE  LoopInv'
    BY <1>10 DEF StartActual
  <1>11. ASSUME StartCheck
        PROVE  LoopInv'
    BY <1>11 DEF StartCheck, StopThen, StopFlag
  <1>12. ASSUME Spawn
        PROVE  LoopInv'
    BY <1>12 DEF Spawn
  <1>13. ASSUME Join
        PROVE  LoopInv'
    BY <1>13 DEF Join
  <1>14. ASSUME DestroyCheck
        PROVE  LoopInv'
    BY <1>14 DEF DestroyCheck, DestructorStops, StopThen, StopFlag
  <1>15. ASSUME Close
        PROVE  LoopInv'
    BY <1>15 DEF Close
  <1>16. ASSUME DestroyMembers
        PROVE  LoopInv'
    BY <1>16 DEF DestroyMembers
  <1>17. ASSUME RunBlocking
        PROVE  LoopInv'
    BY <1>17 DEF RunBlocking, BlockingStep, KeepLoops
  <1>18. ASSUME ClearKeepRunning
        PROVE  LoopInv'
    BY <1>18 DEF ClearKeepRunning, KeepLoops
  <1>19. ASSUME BlockingLoop
        PROVE  LoopInv'
    BY <1>19 DEF BlockingLoop, BlockingHead, BlockingReturns, BlockingProcesses,
           BlockingProcessesNothing, BlockingBadMessage, AfterBadMessage, BlockingThrows,
           BlockingCaught, BlockingWaitOver, BlockingStep, KeepLoops
  <1>20. ASSUME NEW l \in Loops, Head(l) \/ LeaveFor(l)
        PROVE  LoopInv'
    BY <1>20 DEF Head, LeaveFor, ThreadStep, KeepControl
  <1>21. ASSUME NEW l \in Loops, LoopLock(l)
        PROVE  LoopInv'
    BY <1>21 DEF LoopLock, ThreadStep, KeepControl
  <1>22. ASSUME NEW l \in Loops, ProcessMessage(l)
        PROVE  LoopInv'
    BY <1>22 DEF ProcessMessage, ThreadStep, KeepControl
  <1>23. ASSUME NEW l \in Loops, ProcessNothing(l)
        PROVE  LoopInv'
    BY <1>23 DEF ProcessNothing, ThreadStep, KeepControl
  <1>24. ASSUME NEW l \in Loops, ProcessFails(l)
        PROVE  LoopInv'
    BY <1>24 DEF ProcessFails, ThreadStep, KeepControl
  <1>25. ASSUME NEW l \in Loops, MessageCallback(l)
        PROVE  LoopInv'
    BY <1>25 DEF MessageCallback, ThreadStep, KeepControl
  <1>26. ASSUME NEW l \in Loops, WaitOver(l) \/ WaitFails(l)
        PROVE  LoopInv'
    BY <1>26 DEF WaitOver, WaitFails, ThreadStep, KeepControl
  <1>27. ASSUME NEW l \in Loops, NoErrorCallback(l)
        PROVE  LoopInv'
    BY <1>27 DEF NoErrorCallback, ThreadStep, KeepControl
  <1>28. ASSUME NEW l \in Loops, ErrorCallbackContinues(l)
        PROVE  LoopInv'
    BY <1>28 DEF ErrorCallbackContinues, AfterError, ThreadStep, KeepControl
  <1>29. ASSUME NEW l \in Loops, ErrorCallbackRefuses(l)
        PROVE  LoopInv'
    BY <1>29 DEF ErrorCallbackRefuses, ThreadStep, KeepControl
  <1>30. ASSUME NEW l \in Loops, End(l)
        PROVE  LoopInv'
    BY <1>30 DEF End, EndFlag, ThreadStep, KeepControl
  <1>31. ASSUME Arrive
        PROVE  LoopInv'
    BY <1>31 DEF Arrive
  <1>33. ASSUME NEW l \in Loops, CallbackThrows(l)
        PROVE  LoopInv'
    BY <1>33 DEF CallbackThrows, ThreadStep, KeepControl
  <1>34. ASSUME OtherCalls \/ OtherReturns
        PROVE  LoopInv'
    BY <1>34 DEF OtherCalls, OtherReturns, KeepLoops
  <1>32. CASE UNCHANGED vars
    BY <1>32 DEF vars
  <1> QED
    BY <1>1, <1>2, <1>3, <1>4, <1>5, <1>6, <1>7, <1>8, <1>9, <1>10, <1>11,
       <1>12, <1>13, <1>14, <1>15, <1>16, <1>17, <1>18, <1>19, <1>20, <1>21,
       <1>22, <1>23, <1>24, <1>25, <1>26, <1>27, <1>28, <1>29, <1>30, <1>31,
       <1>32, <1>33, <1>34
       DEF Next, Commands, ControlStep, LoopThread, Finished

\* What the threads and the flags of a loop have to do with the command in progress,
\* in every reachable state.
THEOREM LoopCorrect ==
  ASSUME "restart" \notin Habits
  PROVE  Spec => [](TypeOK /\ ThreadInv /\ LoopInv)
  BY InitType, TypeStep, InitThread, ThreadStepKept, InitLoop, LoopStep, PTL DEF Spec

\* A loop that was started, and not stopped since, runs until its error callback
\* refuses to go on (busy_loop::start and the loop of its thread).
THEOREM StartedLoopsRun ==
  ASSUME "restart" \notin Habits
  PROVE  Spec => []StartedLoopRuns
  <1>1. LoopInv => StartedLoopRuns
    BY DEF LoopInv, LeaveInv, StartInv, StartedLoopRuns
  <1> QED
    BY <1>1, LoopCorrect, PTL

\* Between two commands is_running() is true exactly while there is a thread in the
\* loop, which is what install_event_loop and ~dbus rely on.
THEOREM IsRunningIsTrusted ==
  ASSUME "restart" \notin Habits
  PROVE  Spec => []IsRunningIsAccurate
  <1>1. LoopInv => IsRunningIsAccurate
    BY DEF LoopInv, StartInv, Out, Idle, IsRunningIsAccurate
  <1> QED
    BY <1>1, LoopCorrect, PTL

\* ~dbus closes the connection only when no thread uses it any more.
THEOREM ClosedBusIsLeftAlone ==
  ASSUME "restart" \notin Habits
  PROVE  Spec => []ClosedBusIsUnused
  <1>1. LoopInv => ClosedBusIsUnused
    BY DEF LoopInv, DestroyInv, Out, ClosedBusIsUnused
  <1> QED
    BY <1>1, LoopCorrect, PTL

-----------------------------------------------------------------------------
(* How the process ends. *)

\* A callback is assigned under a thread only by a careless application, and a thread
\* whose loop ~dbus destroys has ended because its error callback refused to go on.
CrashInv ==
    /\ CrashesAreEarned
    /\ Alive =>
          /\ \A l \in Loops : errorCb[l] = "changing" =>
                control = "assign" /\ target = l /\ joinable[l] /\ Has("setLate")
          /\ control = "destroyCheck" =>
                \A l \in Loops : joinable[l] /\ l \in Refusing => Has("destroy")
          /\ control \in {"close", "destroyMembers"} =>
                \A l \in Loops : joinable[l] =>
                    l = target /\ refused[l] /\ at[l] = "ended" /\ Has("destroy")

\* Nothing has gone wrong at first.
LEMMA InitCrash == Init => CrashInv
  BY DEF Init, CrashInv, CrashesAreEarned

\* Every action keeps it so, if no loop is started again under its thread.
LEMMA CrashStep ==
  ASSUME "restart" \notin Habits
  PROVE  TypeOK /\ ThreadInv /\ LoopInv /\ CrashInv /\ [Next]_vars => CrashInv'
  <1> SUFFICES ASSUME TypeOK, ThreadInv, LoopInv, CrashInv, [Next]_vars
               PROVE  CrashInv'
    OBVIOUS
  <1> USE LoopAssumption
      DEF CrashInv, CrashesAreEarned, ThreadInv, Starting, Out, Joining, Alive, Has, TypeOK, ThreadSteps,
          ControlSteps, BlockingSteps, objectVars, flagVars, threadVars, controlVars, busVars
  <1>1. ASSUME NEW l \in Loops, Create(l)
        PROVE  CrashInv'
    BY <1>1 DEF Create, Idle
  <1>2. ASSUME NEW l \in Loops, SetErrorCallback(l)
        PROVE  CrashInv'
    BY <1>2 DEF SetErrorCallback, Idle
  <1>3. ASSUME ErrorCallbackSet
        PROVE  CrashInv'
    BY <1>3 DEF ErrorCallbackSet
  <1>4. ASSUME TakeMutex \/ LeaveMutex
        PROVE  CrashInv'
    BY <1>4 DEF TakeMutex, LeaveMutex, Idle
  <1>5. ASSUME NEW l \in Loops, Start(l)
        PROVE  CrashInv'
    BY <1>5 DEF Start, MayStop, Command, NotWanted, Idle
  <1>6. ASSUME NEW l \in Loops, Install(l)
        PROVE  CrashInv'
    BY <1>6 DEF Install, MayStop, Command, NotWanted, Idle
  <1>7. ASSUME NEW l \in Loops, Stop(l)
        PROVE  CrashInv'
    BY <1>7 DEF Stop, MayStop, StopThen, StopFlag, NotWanted, Idle
  <1>8. ASSUME Destroy
        PROVE  CrashInv'
    BY <1>8 DEF Destroy, MayStop, Idle
  <1>9. ASSUME StartRunning
        PROVE  CrashInv'
    BY <1>9 DEF StartRunning
  <1>10. ASSUME StartActual
        PROVE  CrashInv'
    BY <1>10 DEF StartActual
  <1>11. ASSUME StartCheck
        PROVE  CrashInv'
    BY <1>11 DEF StartCheck, StopThen, StopFlag
  <1>12. ASSUME Spawn
        PROVE  CrashInv'
    BY <1>12 DEF Spawn
  <1>13. ASSUME Join
        PROVE  CrashInv'
    BY <1>13 DEF Join
  <1>14. ASSUME DestroyCheck
        PROVE  CrashInv'
    <2>1. ASSUME NEW l \in Loops, joinable[l], ~DestructorStops
          PROVE  l = target /\ refused[l] /\ at[l] = "ended" /\ Has("destroy")
      <3>1. Alive /\ control = "destroyCheck"
        BY <1>14 DEF DestroyCheck
      <3>2. l = target
        BY <2>1, <3>1 DEF LoopInv, DestroyInv
      <3>3. ~actuallyRunning[l]
        BY <2>1, <3>2 DEF DestructorStops
      <3>4. at[l] = "ended"
        BY <2>1, <3>1, <3>3 DEF LoopInv, StartInv
      <3>5. refused[l]
        BY <2>1, <3>1, <3>4 DEF LoopInv, LeaveInv
      <3> QED
        BY <2>1, <3>1, <3>2, <3>4, <3>5
    <2>2. \/ control' = "join"
          \/ control' = "close" /\ (~DestructorStops \/ ~joinable[target])
      BY <1>14 DEF DestroyCheck, StopThen
    <2>3. UNCHANGED <<joinable, crash, errorCb, refused, at, target>>
      BY <1>14 DEF DestroyCheck
    <2>4. \A l \in Loops : errorCb[l] # "changing"
      BY <1>14 DEF DestroyCheck
    <2>5. control' = "close" => \A l \in Loops : joinable[l] =>
              l = target /\ refused[l] /\ at[l] = "ended" /\ Has("destroy")
      <3>1. \A l \in Loops : joinable[l] => l = target
        BY <1>14 DEF DestroyCheck, LoopInv, DestroyInv
      <3> QED
        BY <2>1, <2>2, <3>1
    <2> QED
      BY <2>2, <2>3, <2>4, <2>5, <1>14 DEF DestroyCheck
  <1>15. ASSUME Close
        PROVE  CrashInv'
    BY <1>15 DEF Close
  <1>16. ASSUME DestroyMembers
        PROVE  CrashInv'
    BY <1>16 DEF DestroyMembers
  <1>17. ASSUME RunBlocking
        PROVE  CrashInv'
    BY <1>17 DEF RunBlocking, BlockingStep, KeepLoops
  <1>18. ASSUME ClearKeepRunning
        PROVE  CrashInv'
    BY <1>18 DEF ClearKeepRunning, KeepLoops
  <1>19. ASSUME BlockingLoop
        PROVE  CrashInv'
    BY <1>19 DEF BlockingLoop, BlockingHead, BlockingReturns, BlockingProcesses,
           BlockingProcessesNothing, BlockingBadMessage, AfterBadMessage, BlockingThrows,
           BlockingCaught, BlockingWaitOver, BlockingStep, KeepLoops
  <1>20. ASSUME NEW l \in Loops, Head(l) \/ LeaveFor(l)
        PROVE  CrashInv'
    BY <1>20 DEF Head, LeaveFor, ThreadStep, KeepControl
  <1>21. ASSUME NEW l \in Loops, LoopLock(l)
        PROVE  CrashInv'
    BY <1>21 DEF LoopLock, ThreadStep, KeepControl
  <1>22. ASSUME NEW l \in Loops, ProcessMessage(l)
        PROVE  CrashInv'
    BY <1>22 DEF ProcessMessage, ThreadStep, KeepControl
  <1>23. ASSUME NEW l \in Loops, ProcessNothing(l)
        PROVE  CrashInv'
    BY <1>23 DEF ProcessNothing, ThreadStep, KeepControl
  <1>24. ASSUME NEW l \in Loops, ProcessFails(l)
        PROVE  CrashInv'
    BY <1>24 DEF ProcessFails, ThreadStep, KeepControl
  <1>25. ASSUME NEW l \in Loops, MessageCallback(l)
        PROVE  CrashInv'
    BY <1>25 DEF MessageCallback, ThreadStep, KeepControl
  <1>26. ASSUME NEW l \in Loops, WaitOver(l) \/ WaitFails(l)
        PROVE  CrashInv'
    BY <1>26 DEF WaitOver, WaitFails, ThreadStep, KeepControl
  <1>27. ASSUME NEW l \in Loops, NoErrorCallback(l)
        PROVE  CrashInv'
    BY <1>27 DEF NoErrorCallback, ThreadStep, KeepControl
  <1>28. ASSUME NEW l \in Loops, ErrorCallbackContinues(l)
        PROVE  CrashInv'
    BY <1>28 DEF ErrorCallbackContinues, AfterError, ThreadStep, KeepControl
  <1>29. ASSUME NEW l \in Loops, ErrorCallbackRefuses(l)
        PROVE  CrashInv'
    BY <1>29 DEF ErrorCallbackRefuses, ThreadStep, KeepControl
  <1>30. ASSUME NEW l \in Loops, End(l)
        PROVE  CrashInv'
    BY <1>30 DEF End, EndFlag, ThreadStep, KeepControl
  <1>31. ASSUME Arrive
        PROVE  CrashInv'
    BY <1>31 DEF Arrive
  <1>33. ASSUME NEW l \in Loops, CallbackThrows(l)
        PROVE  CrashInv'
    BY <1>33 DEF CallbackThrows, ThreadStep, KeepControl
  <1>34. ASSUME OtherCalls \/ OtherReturns
        PROVE  CrashInv'
    BY <1>34 DEF OtherCalls, OtherReturns, KeepLoops
  <1>32. CASE UNCHANGED vars
    BY <1>32 DEF vars
  <1> QED
    BY <1>1, <1>2, <1>3, <1>4, <1>5, <1>6, <1>7, <1>8, <1>9, <1>10, <1>11,
       <1>12, <1>13, <1>14, <1>15, <1>16, <1>17, <1>18, <1>19, <1>20, <1>21,
       <1>22, <1>23, <1>24, <1>25, <1>26, <1>27, <1>28, <1>29, <1>30, <1>31,
       <1>32, <1>33, <1>34
       DEF Next, Commands, ControlStep, LoopThread, Finished

\* std::terminate is called for what the application did, whatever else it does: for an
\* error without an error callback, for a callback assigned late or that throws, for a
\* loop that is replaced or left to ~dbus after it ended itself.  With one of these
\* habits less, one of these ends less.
THEOREM CrashesEarned ==
  ASSUME "restart" \notin Habits
  PROVE  Spec => []CrashesAreEarned
  <1>1. CrashInv => CrashesAreEarned
    BY DEF CrashInv
  <1> QED
    BY <1>1, LoopCorrect, InitCrash, CrashStep, PTL DEF Spec

-----------------------------------------------------------------------------
(* stop() ends, unless its caller holds the mutex. *)

\* The mutex is with a thread that is in sd_bus_process, or with the controlling one,
\* which holds it between two commands and in dbus::busy_loop only, or with another one.
MutexInv ==
    /\ \A l \in Loops : at[l] = "process" <=> mutex = l
    /\ mutex = Control => control \in {"idle", "assign", "blockProcess"}
    /\ control \in BlockingSteps => (control = "blockProcess" <=> mutex = Control)

\* The mutex is free at first.
LEMMA InitMutex == Init => MutexInv
  BY LoopAssumption DEF Init, MutexInv, BlockingSteps

\* Every action keeps it so, if no command is given with the mutex.
LEMMA MutexStep ==
  ASSUME "stopWithMutex" \notin Habits
  PROVE  TypeOK /\ ThreadInv /\ MutexInv /\ [Next]_vars => MutexInv'
  <1> SUFFICES ASSUME TypeOK, ThreadInv, MutexInv, [Next]_vars
               PROVE  MutexInv'
    OBVIOUS
  <1> USE LoopAssumption
      DEF MutexInv, ThreadInv, Starting, Out, Joining, Alive, Has, TypeOK, ThreadSteps,
          ControlSteps, BlockingSteps, objectVars, flagVars, threadVars, controlVars, busVars
  <1>1. ASSUME NEW l \in Loops, Create(l)
        PROVE  MutexInv'
    BY <1>1 DEF Create, Idle
  <1>2. ASSUME NEW l \in Loops, SetErrorCallback(l)
        PROVE  MutexInv'
    BY <1>2 DEF SetErrorCallback, Idle
  <1>3. ASSUME ErrorCallbackSet
        PROVE  MutexInv'
    BY <1>3 DEF ErrorCallbackSet
  <1>4. ASSUME TakeMutex \/ LeaveMutex
        PROVE  MutexInv'
    BY <1>4 DEF TakeMutex, LeaveMutex, Idle
  <1>5. ASSUME NEW l \in Loops, Start(l)
        PROVE  MutexInv'
    BY <1>5 DEF Start, MayStop, Command, NotWanted, Idle
  <1>6. ASSUME NEW l \in Loops, Install(l)
        PROVE  MutexInv'
    BY <1>6 DEF Install, MayStop, Command, NotWanted, Idle
  <1>7. ASSUME NEW l \in Loops, Stop(l)
        PROVE  MutexInv'
    BY <1>7 DEF Stop, MayStop, StopThen, StopFlag, NotWanted, Idle
  <1>8. ASSUME Destroy
        PROVE  MutexInv'
    BY <1>8 DEF Destroy, MayStop, Idle
  <1>9. ASSUME StartRunning
        PROVE  MutexInv'
    BY <1>9 DEF StartRunning
  <1>10. ASSUME StartActual
        PROVE  MutexInv'
    BY <1>10 DEF StartActual
  <1>11. ASSUME StartCheck
        PROVE  MutexInv'
    BY <1>11 DEF StartCheck, StopThen, StopFlag
  <1>12. ASSUME Spawn
        PROVE  MutexInv'
    BY <1>12 DEF Spawn
  <1>13. ASSUME Join
        PROVE  MutexInv'
    BY <1>13 DEF Join
  <1>14. ASSUME DestroyCheck
        PROVE  MutexInv'
    BY <1>14 DEF DestroyCheck, DestructorStops, StopThen, StopFlag
  <1>15. ASSUME Close
        PROVE  MutexInv'
    BY <1>15 DEF Close
  <1>16. ASSUME DestroyMembers
        PROVE  MutexInv'
    BY <1>16 DEF DestroyMembers
  <1>17. ASSUME RunBlocking
        PROVE  MutexInv'
    BY <1>17 DEF RunBlocking, BlockingStep, KeepLoops
  <1>18. ASSUME ClearKeepRunning
        PROVE  MutexInv'
    BY <1>18 DEF ClearKeepRunning, KeepLoops
  <1>19. ASSUME BlockingLoop
        PROVE  MutexInv'
    BY <1>19 DEF BlockingLoop, BlockingHead, BlockingReturns, BlockingProcesses,
           BlockingProcessesNothing, BlockingBadMessage, AfterBadMessage, BlockingThrows,
           BlockingCaught, BlockingWaitOver, BlockingStep, KeepLoops
  <1>20. ASSUME NEW l \in Loops, Head(l) \/ LeaveFor(l)
        PROVE  MutexInv'
    BY <1>20 DEF Head, LeaveFor, ThreadStep, KeepControl
  <1>21. ASSUME NEW l \in Loops, LoopLock(l)
        PROVE  MutexInv'
    BY <1>21 DEF LoopLock, ThreadStep, KeepControl
  <1>22. ASSUME NEW l \in Loops, ProcessMessage(l)
        PROVE  MutexInv'
    BY <1>22 DEF ProcessMessage, ThreadStep, KeepControl
  <1>23. ASSUME NEW l \in Loops, ProcessNothing(l)
        PROVE  MutexInv'
    BY <1>23 DEF ProcessNothing, ThreadStep, KeepControl
  <1>24. ASSUME NEW l \in Loops, ProcessFails(l)
        PROVE  MutexInv'
    BY <1>24 DEF ProcessFails, ThreadStep, KeepControl
  <1>25. ASSUME NEW l \in Loops, MessageCallback(l)
        PROVE  MutexInv'
    BY <1>25 DEF MessageCallback, ThreadStep, KeepControl
  <1>26. ASSUME NEW l \in Loops, WaitOver(l) \/ WaitFails(l)
        PROVE  MutexInv'
    BY <1>26 DEF WaitOver, WaitFails, ThreadStep, KeepControl
  <1>27. ASSUME NEW l \in Loops, NoErrorCallback(l)
        PROVE  MutexInv'
    BY <1>27 DEF NoErrorCallback, ThreadStep, KeepControl
  <1>28. ASSUME NEW l \in Loops, ErrorCallbackContinues(l)
        PROVE  MutexInv'
    BY <1>28 DEF ErrorCallbackContinues, AfterError, ThreadStep, KeepControl
  <1>29. ASSUME NEW l \in Loops, ErrorCallbackRefuses(l)
        PROVE  MutexInv'
    BY <1>29 DEF ErrorCallbackRefuses, ThreadStep, KeepControl
  <1>30. ASSUME NEW l \in Loops, End(l)
        PROVE  MutexInv'
    BY <1>30 DEF End, EndFlag, ThreadStep, KeepControl
  <1>31. ASSUME Arrive
        PROVE  MutexInv'
    BY <1>31 DEF Arrive
  <1>33. ASSUME NEW l \in Loops, CallbackThrows(l)
        PROVE  MutexInv'
    BY <1>33 DEF CallbackThrows, ThreadStep, KeepControl
  <1>34. ASSUME OtherCalls \/ OtherReturns
        PROVE  MutexInv'
    BY <1>34 DEF OtherCalls, OtherReturns, KeepLoops
  <1>32. CASE UNCHANGED vars
    BY <1>32 DEF vars
  <1> QED
    BY <1>1, <1>2, <1>3, <1>4, <1>5, <1>6, <1>7, <1>8, <1>9, <1>10, <1>11,
       <1>12, <1>13, <1>14, <1>15, <1>16, <1>17, <1>18, <1>19, <1>20, <1>21,
       <1>22, <1>23, <1>24, <1>25, <1>26, <1>27, <1>28, <1>29, <1>30, <1>31,
       <1>32, <1>33, <1>34
       DEF Next, Commands, ControlStep, LoopThread, Finished

\* stop() is near its end in every state and comes nearer with every step of the thread
\* it joins: that thread waits for a call of another thread at most, and running_ stays
\* false (busy_loop::stop, the stop() in start() and the one in ~dbus).
THEOREM StopComesNearer ==
  ASSUME "stopWithMutex" \notin Habits
  PROVE  Spec => StopIsNear
  <1>1. TypeOK /\ ThreadInv /\ MutexInv =>
            (control = "join" /\ Alive /\ at[target] = "lock"
                => mutex \in {NoThread, Other})
    <2> SUFFICES ASSUME TypeOK, ThreadInv, MutexInv, control = "join", Alive, at[target] = "lock"
                 PROVE  mutex \in {NoThread, Other}
      OBVIOUS
    <2>1. target \in Loops /\ joinable[target]
      BY DEF ThreadInv, Joining
    <2>2. \A l \in Loops : joinable[l] => l = target
      BY <2>1 DEF ThreadInv
    <2>3. \A l \in Loops : at[l] # "process"
      BY <2>1, <2>2 DEF ThreadInv, Out
    <2> QED
      BY <2>3 DEF MutexInv, TypeOK
  <1>2. TypeOK /\ ThreadInv /\ [Next]_vars =>
            [control = "join" /\ at[target]' # at[target]
                 => StepsLeft(at[target]') < StepsLeft(at[target])]_vars
    <2> SUFFICES ASSUME TypeOK, ThreadInv, [Next]_vars, control = "join", at[target]' # at[target]
                 PROVE  StepsLeft(at[target]') < StepsLeft(at[target])
      OBVIOUS
    <2>1. PICK l \in Loops : LoopThread(l)
      <3>1. ~Idle /\ ~Commands /\ ~RunBlocking /\ ~BlockingLoop
        BY DEF Idle, Commands, Create, SetErrorCallback, TakeMutex,
               LeaveMutex, Start, Install, Command, Stop, Destroy, RunBlocking,
               BlockingStep, BlockingLoop, BlockingHead, BlockingReturns,
               BlockingProcesses, BlockingProcessesNothing, BlockingBadMessage,
               BlockingThrows, BlockingCaught, BlockingWaitOver
      <3>2. ControlStep => UNCHANGED <<at, target>>
        BY DEF ControlStep, ErrorCallbackSet, StartRunning, StartActual, StartCheck, Spawn, Join,
               DestroyCheck, Close, DestroyMembers, threadVars
      <3>3. ClearKeepRunning \/ OtherCalls \/ OtherReturns \/ Arrive \/ Finished
                \/ UNCHANGED vars => UNCHANGED <<at, target>>
        BY DEF ClearKeepRunning, OtherCalls, OtherReturns, KeepLoops, Arrive, Finished, vars, threadVars, controlVars
      <3> QED
        BY <3>1, <3>2, <3>3 DEF Next
    <2>2. target \in Loops /\ ~running[target]
      <3>1. Alive
        BY <2>1 DEF LoopThread, Head, LoopLock, LeaveFor, ProcessMessage, ProcessNothing,
               ProcessFails, MessageCallback, CallbackThrows, WaitOver, WaitFails, NoErrorCallback,
               ErrorCallbackContinues, AfterError, ErrorCallbackRefuses, End, ThreadStep
      <3> QED
        BY <3>1 DEF ThreadInv, Joining
    <2>3. \E from, to \in ThreadSteps :
             /\ at[l] = from /\ at' = [at EXCEPT ![l] = to] /\ UNCHANGED target
             /\ l = target => StepsLeft(to) < StepsLeft(from)
      <3> USE DEF ThreadStep, ThreadSteps, KeepControl, controlVars, StepsLeft
      <3>1. CASE Head(l) \/ LoopLock(l) \/ LeaveFor(l)
        BY <2>2, <3>1 DEF Head, LoopLock, LeaveFor
      <3>2. CASE ProcessMessage(l) \/ ProcessNothing(l) \/ ProcessFails(l)
        BY <3>2 DEF ProcessMessage, ProcessNothing, ProcessFails
      <3>3. CASE MessageCallback(l) \/ CallbackThrows(l) \/ WaitOver(l) \/ WaitFails(l)
        BY <3>3 DEF MessageCallback, CallbackThrows, WaitOver, WaitFails
      <3>4. CASE \/ NoErrorCallback(l) \/ ErrorCallbackContinues(l)
                 \/ ErrorCallbackRefuses(l) \/ End(l)
        BY <3>4 DEF NoErrorCallback, ErrorCallbackContinues, AfterError,
                    ErrorCallbackRefuses, End
      <3> QED
        BY <2>1, <3>1, <3>2, <3>3, <3>4 DEF LoopThread
    <2>4. at \in [Loops -> ThreadSteps]
      BY DEF TypeOK
    <2> QED
      BY <2>2, <2>3, <2>4
  <1> QED
    BY <1>1, <1>2, OneLoopRuns, InitMutex, MutexStep, PTL DEF Spec, StopIsNear
=============================================================================

------------------------- MODULE SignalSlots_proofs -------------------------
(***************************************************************************)
(* Proofs about SignalSlots, for any number of threads, slot objects,      *)
(* signals and messages.  What holds for every habit of the application is *)
(* proved without an assumption about Habits; that listeners are called on *)
(* objects that exist, by one thread at a time, holds for applications     *)
(* that delete released slots with the mutex.                              *)
(***************************************************************************)
EXTENDS SignalSlots, FiniteSetTheorems, TLAPS

\* A thread with something to do has a slot object to do it to; the loop's thread
\* does so from code of the application; and threads of the application leave the
\* connection alone once its destructor has begun.
WorkInv ==
    /\ \A t \in Threads : pc[t] = "idle" <=> work[t] = NoSlot
    /\ pc[LoopThread] # "idle" => InUserCode
    /\ pc[LoopThread] \notin {"plainUnref", "plainFree"}
    /\ phase = "stopping" => \A t \in Users : pc[t] = "idle"
    /\ phase = "dead" =>
          \A t \in Threads : pc[t] \in {"idle", "plainUnref", "plainFree"}
    /\ phase = "dead" => loop = "exited" /\ ~crashed
    /\ crashed => loop = "exited"

\* How often a thread has taken the mutex.
HoldsForWork(t) == pc[t] \in {"match", "publish", "unref", "free"}
HoldsForLoop(t) ==
    t = LoopThread /\ (loop \in {"process", "dispatch"} \cup HandlerSteps \/ crashed)
Levels(t) ==
    (IF HoldsForWork(t) THEN 1 ELSE 0) + (IF HoldsForLoop(t) THEN 1 ELSE 0)

LockInv ==
    /\ owner = NoThread => depth = 0
    /\ \A t \in Threads : Levels(t) = IF owner = t THEN depth ELSE 0

\* The message that is processed is in hand exactly while the loop dispatches, and
\* the slot object exactly while its handler runs.
HandInv ==
    /\ ~crashed =>
          /\ message # NoMessage <=> loop \in {"dispatch"} \cup HandlerSteps
          /\ current # NoSlot <=> loop \in HandlerSteps

LockingInv == TypeOK /\ WorkInv /\ LockInv /\ HandInv

-----------------------------------------------------------------------------

\* Counting one entry more keeps a counter per message.
LEMMA CountType ==
  ASSUME NEW f \in [Messages -> Nat], NEW x
  PROVE  [f EXCEPT ![x] = @ + 1] \in [Messages -> Nat]
  <1>1. CASE x \in Messages
    BY <1>1
  <1>2. CASE x \notin Messages
    <2>1. [f EXCEPT ![x] = @ + 1] = f
      BY <1>2
    <2> QED
      BY <2>1
  <1> QED
    BY <1>1, <1>2

\* At first nobody holds the mutex or has work.
LEMMA InitLocking == Init => LockingInv
  <1> SUFFICES ASSUME Init PROVE LockingInv
    OBVIOUS
  <1>1. TypeOK
    <2>1. /\ due \in [Messages -> SUBSET Slots]
          /\ callees \in [Messages -> SUBSET Slots]
      BY Zenon DEF Init
    <2>2. queue \in Seq(Messages)
      BY DEF Init
    <2> QED
      BY <2>1, <2>2 DEF Init, TypeOK, PcValues, LoopValues
  <1>2. WorkInv /\ HandInv
    BY SlotsAssumption DEF Init, WorkInv, HandInv, HandlerSteps, Threads
  <1>3. LockInv
    BY SlotsAssumption
       DEF Init, LockInv, Levels, HoldsForWork, HoldsForLoop, Threads, HandlerSteps
  <1> QED
    BY <1>1, <1>2, <1>3 DEF LockingInv

\* Every action keeps the types, the count of the mutex and what is in hand.
LEMMA LockingStep == LockingInv /\ [Next]_vars => LockingInv'
  <1> SUFFICES ASSUME LockingInv, [Next]_vars
               PROVE  LockingInv'
    OBVIOUS
  <1> USE SlotsAssumption
      DEF LockingInv, TypeOK, WorkInv, LockInv, HandInv, Levels, HoldsForWork,
          HoldsForLoop, Threads, InUserCode, PcValues, LoopValues, HandlerSteps,
          lockVars, threadVars, slotVars, messageVars, loopVars, lifeVars
  <1>1. ASSUME NEW t \in Threads, NEW s \in Slots, Install(t, s)
       PROVE  LockingInv'
    BY <1>1 DEF Install, MayUseBus, Lock, Step
  <1>2. ASSUME NEW t \in Threads, MatchSucceeds(t)
       PROVE  LockingInv'
    BY <1>2 DEF MatchSucceeds, Step
  <1>3. ASSUME NEW t \in Threads, MatchFails(t)
       PROVE  LockingInv'
    BY <1>3 DEF MatchFails, Unlock, Step
  <1>4. ASSUME NEW t \in Threads, Publish(t)
       PROVE  LockingInv'
    BY <1>4 DEF Publish, Keep, Unlock, Step
  <1>5. ASSUME NEW t \in Threads, NEW s \in Slots, DeleteWithMutex(t, s)
       PROVE  LockingInv'
    BY <1>5 DEF DeleteWithMutex, TakeReleased, MayUseBus, Lock, Step
  <1>6. ASSUME NEW t \in Threads, NEW s \in Slots, DeletePlainly(t, s)
       PROVE  LockingInv'
    BY <1>6 DEF DeletePlainly, TakeReleased, Step
  <1>7. ASSUME NEW t \in Threads, UnrefWithMutex(t)
       PROVE  LockingInv'
    BY <1>7 DEF UnrefWithMutex, Unref, Unmatch, Step
  <1>8. ASSUME NEW t \in Threads, UnrefPlainly(t)
       PROVE  LockingInv'
    BY <1>8 DEF UnrefPlainly, Unref, Unmatch, Step
  <1>9. ASSUME NEW t \in Threads, FreeWithMutex(t)
       PROVE  LockingInv'
    BY <1>9 DEF FreeWithMutex, Free, Unlock, Step
  <1>10. ASSUME NEW t \in Threads, FreePlainly(t)
       PROVE  LockingInv'
    BY <1>10 DEF FreePlainly, Free, Step
  <1>11. ASSUME LoopExit
       PROVE  LockingInv'
    BY <1>11 DEF LoopExit, LoopStep, StayInLoop
  <1>12. ASSUME LoopLock
       PROVE  LockingInv'
    BY <1>12 DEF LoopLock, LoopGuard, Lock, LoopStep, StayInLoop
  <1>13. ASSUME ProcessNothing
       PROVE  LockingInv'
    BY <1>13 DEF ProcessNothing, Unlock, LoopStep, StayInLoop
  <1>14. ASSUME WaitOver
       PROVE  LockingInv'
    BY <1>14 DEF WaitOver, AfterWait, LoopStep, StayInLoop
  <1>15. ASSUME ProcessMessage
       PROVE  LockingInv'
    BY <1>15 DEF ProcessMessage, LoopStep, StayInLoop
  <1>16. ASSUME NEW s \in Slots, CallHandler(s)
       PROVE  LockingInv'
    BY <1>16 DEF CallHandler, Untried, Listeners, LoopStep, StayInLoop
  <1>17. ASSUME NoMoreHandlers
       PROVE  LockingInv'
    BY <1>17 DEF NoMoreHandlers, Untried, Listeners, EndProcess, Unlock, LoopStep,
           StayInLoop
  <1>18. ASSUME EnterCallback
       PROVE  LockingInv'
    <2>1. told' \in [Messages -> Nat]
      BY <1>18, CountType DEF EnterCallback, Enter
    <2>2. /\ UNCHANGED <<lockVars, threadVars, slotVars, queue, status, due, callees,
                         message, current, lifeVars>>
          /\ pc[LoopThread] = "idle" /\ loop = "unpack" /\ loop' = "callback"
          /\ ~crashed
      BY <1>18 DEF EnterCallback, Enter, LoopStep, StayInHandler
    <2> QED
      BY <2>1, <2>2
  <1>19. ASSUME EnterErrInTry
       PROVE  LockingInv'
    <2>1. told' \in [Messages -> Nat]
      BY <1>19, CountType DEF EnterErrInTry, Enter
    <2>2. /\ UNCHANGED <<lockVars, threadVars, slotVars, queue, status, due, callees,
                         message, current, lifeVars>>
          /\ pc[LoopThread] = "idle" /\ loop = "onFail" /\ loop' = "errTry"
          /\ ~crashed
      BY <1>19 DEF EnterErrInTry, Enter, LoopStep, StayInHandler
    <2> QED
      BY <2>1, <2>2
  <1>20. ASSUME EnterErrInCatch
       PROVE  LockingInv'
    <2>1. told' \in [Messages -> Nat]
      BY <1>20, CountType DEF EnterErrInCatch, Enter
    <2>2. /\ UNCHANGED <<lockVars, threadVars, slotVars, queue, status, due, callees,
                         message, current, lifeVars>>
          /\ pc[LoopThread] = "idle" /\ loop = "catch" /\ loop' = "errCatch"
          /\ ~crashed
      BY <1>20 DEF EnterErrInCatch, Enter, LoopStep, StayInHandler
    <2> QED
      BY <2>1, <2>2
  <1>21. ASSUME UnpackThrows
       PROVE  LockingInv'
    BY <1>21 DEF UnpackThrows, ThrownGoesTo, LoopStep, StayInHandler
  <1>22. ASSUME LeaveCallback
       PROVE  LockingInv'
    BY <1>22 DEF LeaveCallback, LoopStep, StayInHandler
  <1>23. ASSUME Escape
       PROVE  LockingInv'
    BY <1>23 DEF Escape, LoopStep, StayInHandler
  <1>24. ASSUME HandlerReturns
       PROVE  LockingInv'
    BY <1>24 DEF HandlerReturns, AfterHandler, EndProcess, Unlock, LoopStep,
           StayInLoop
  <1>25. ASSUME NEW m \in Messages, Emit(m)
       PROVE  LockingInv'
    BY <1>25 DEF Emit, Listeners
  <1>26. ASSUME StopLoop
       PROVE  LockingInv'
    BY <1>26 DEF StopLoop
  <1>27. ASSUME Destroy
       PROVE  LockingInv'
    BY <1>27 DEF Destroy, ClearedObject
  <1>28. CASE UNCHANGED vars
    BY <1>28 DEF vars
  <1> QED
    BY <1>1, <1>2, <1>3, <1>4, <1>5, <1>6, <1>7, <1>8, <1>9, <1>10, <1>11,
       <1>12, <1>13, <1>14, <1>15, <1>16, <1>17, <1>18, <1>19, <1>20, <1>21,
       <1>22, <1>23, <1>24, <1>25, <1>26, <1>27, <1>28
       DEF Next, UserStep, Loop, Finished

\* Types, the mutex and what is in hand, in every reachable state.
THEOREM LockingCorrect == Spec => []LockingInv
  BY InitLocking, LockingStep, PTL DEF Spec

\* The types of all variables, whatever the application does.
THEOREM TypeCorrect == Spec => []TypeOK
  BY LockingCorrect, PTL DEF LockingInv

-----------------------------------------------------------------------------
\* Every slot object that lives is kept, released or in the hands of one thread.
OwnInv ==
    /\ \A s \in kept \cup released : object[s] = "live" /\ \A t \in Threads : work[t] # s
    /\ kept \cap released = {}
    /\ \A t \in Threads : work[t] # NoSlot =>
          /\ object[work[t]] = "live"
          /\ \A u \in Threads : work[u] = work[t] => u = t
    /\ \A s \in Slots : object[s] = "live" =>
          s \in kept \cup released \/ \E t \in Threads : work[t] = s

\* What sd-bus holds is live, and not in the hands of a thread that has not matched
\* it yet or has given it back.
MatchInv ==
    \A s \in matches :
        /\ object[s] = "live"
        /\ \A t \in Threads : work[t] = s => pc[t] \in {"publish", "unref", "plainUnref"}

\* Who listened to a message when it was emitted has been matched.
DueInv ==
    \A m \in Messages : \A s \in due[m] :
        /\ signal[s] = SignalOf[m]
        /\ object[s] # "none"
        /\ \A t \in Threads : work[t] = s => pc[t] # "match"

OwningInv == OwnInv /\ MatchInv /\ DueInv
\* There is no slot object at first.
LEMMA InitOwning == Init => OwningInv
  BY SlotsAssumption DEF Init, OwningInv, OwnInv, MatchInv, DueInv, Threads

\* Every action keeps owners, matches and listeners together.
LEMMA OwningStep == LockingInv /\ OwningInv /\ [Next]_vars => OwningInv'
  <1> SUFFICES ASSUME LockingInv, OwningInv, [Next]_vars
               PROVE  OwningInv'
    OBVIOUS
  <1> USE SlotsAssumption
      DEF OwningInv, OwnInv, MatchInv, DueInv, LockingInv, TypeOK, WorkInv, HandInv,
          Threads, InUserCode, HandlerSteps, lockVars, threadVars, slotVars,
          messageVars, loopVars, lifeVars
  <1>1. ASSUME NEW t \in Threads, NEW s \in Slots, Install(t, s)
       PROVE  OwningInv'
    BY <1>1 DEF Install, MayUseBus, Lock, Step
  <1>2. ASSUME NEW t \in Threads, MatchSucceeds(t)
       PROVE  OwningInv'
    BY <1>2 DEF MatchSucceeds, Step
  <1>3. ASSUME NEW t \in Threads, MatchFails(t)
       PROVE  OwningInv'
    <2>1. /\ work[t] \in Slots
          /\ work[t] \notin kept \cup released \cup matches
          /\ \A u \in Threads \ {t} : work[u] # work[t]
      <3>1. /\ pc[t] \in {"match", "free", "plainFree"}
            /\ work[t] # NoSlot
        BY <1>3 DEF MatchFails, Unlock, Step
      <3>2. work[t] \in Slots
        BY <3>1
      <3> USE DEF OwnInv
      <3>3. work[t] \notin kept \cup released
        BY <3>2
      <3>4. work[t] \notin matches
        BY <3>1
      <3> QED
        BY <3>1, <3>2, <3>3, <3>4
    <2>2. /\ object' = [object EXCEPT ![work[t]] = "freed"]
          /\ work' = [work EXCEPT ![t] = NoSlot]
          /\ pc' = [pc EXCEPT ![t] = "idle"]
          /\ UNCHANGED <<signal, matches, kept, released, due>>
      BY <1>3 DEF MatchFails, Unlock, Step
    <2>3. OwnInv'
      BY <2>1, <2>2
    <2>4. MatchInv'
      BY <2>1, <2>2
    <2>5. DueInv'
      BY <2>1, <2>2
    <2> QED
      BY <2>3, <2>4, <2>5
  <1>4. ASSUME NEW t \in Threads, Publish(t)
       PROVE  OwningInv'
    BY <1>4 DEF Publish, Keep, Unlock, Step
  <1>5. ASSUME NEW t \in Threads, NEW s \in Slots, DeleteWithMutex(t, s)
       PROVE  OwningInv'
    BY <1>5 DEF DeleteWithMutex, TakeReleased, MayUseBus, Lock, Step
  <1>6. ASSUME NEW t \in Threads, NEW s \in Slots, DeletePlainly(t, s)
       PROVE  OwningInv'
    BY <1>6 DEF DeletePlainly, TakeReleased, Step
  <1>7. ASSUME NEW t \in Threads, UnrefWithMutex(t)
       PROVE  OwningInv'
    BY <1>7 DEF UnrefWithMutex, Unref, Unmatch, Step
  <1>8. ASSUME NEW t \in Threads, UnrefPlainly(t)
       PROVE  OwningInv'
    BY <1>8 DEF UnrefPlainly, Unref, Unmatch, Step
  <1>9. ASSUME NEW t \in Threads, FreeWithMutex(t)
       PROVE  OwningInv'
    <2>1. /\ work[t] \in Slots
          /\ work[t] \notin kept \cup released \cup matches
          /\ \A u \in Threads \ {t} : work[u] # work[t]
      <3>1. /\ pc[t] \in {"match", "free", "plainFree"}
            /\ work[t] # NoSlot
        BY <1>9 DEF FreeWithMutex, Free, Unlock, Step
      <3>2. work[t] \in Slots
        BY <3>1
      <3> USE DEF OwnInv
      <3>3. work[t] \notin kept \cup released
        BY <3>2
      <3>4. work[t] \notin matches
        BY <3>1
      <3> QED
        BY <3>1, <3>2, <3>3, <3>4
    <2>2. /\ object' = [object EXCEPT ![work[t]] = "freed"]
          /\ work' = [work EXCEPT ![t] = NoSlot]
          /\ pc' = [pc EXCEPT ![t] = "idle"]
          /\ UNCHANGED <<signal, matches, kept, released, due>>
      BY <1>9 DEF FreeWithMutex, Free, Unlock, Step
    <2>3. OwnInv'
      BY <2>1, <2>2
    <2>4. MatchInv'
      BY <2>1, <2>2
    <2>5. DueInv'
      BY <2>1, <2>2
    <2> QED
      BY <2>3, <2>4, <2>5
  <1>10. ASSUME NEW t \in Threads, FreePlainly(t)
       PROVE  OwningInv'
    <2>1. /\ work[t] \in Slots
          /\ work[t] \notin kept \cup released \cup matches
          /\ \A u \in Threads \ {t} : work[u] # work[t]
      <3>1. /\ pc[t] \in {"match", "free", "plainFree"}
            /\ work[t] # NoSlot
        BY <1>10 DEF FreePlainly, Free, Step
      <3>2. work[t] \in Slots
        BY <3>1
      <3> USE DEF OwnInv
      <3>3. work[t] \notin kept \cup released
        BY <3>2
      <3>4. work[t] \notin matches
        BY <3>1
      <3> QED
        BY <3>1, <3>2, <3>3, <3>4
    <2>2. /\ object' = [object EXCEPT ![work[t]] = "freed"]
          /\ work' = [work EXCEPT ![t] = NoSlot]
          /\ pc' = [pc EXCEPT ![t] = "idle"]
          /\ UNCHANGED <<signal, matches, kept, released, due>>
      BY <1>10 DEF FreePlainly, Free, Step
    <2>3. OwnInv'
      BY <2>1, <2>2
    <2>4. MatchInv'
      BY <2>1, <2>2
    <2>5. DueInv'
      BY <2>1, <2>2
    <2> QED
      BY <2>3, <2>4, <2>5
  <1>11. ASSUME LoopExit
       PROVE  OwningInv'
    BY <1>11 DEF LoopExit, LoopStep, StayInLoop
  <1>12. ASSUME LoopLock
       PROVE  OwningInv'
    BY <1>12 DEF LoopLock, LoopGuard, Lock, LoopStep, StayInLoop
  <1>13. ASSUME ProcessNothing
       PROVE  OwningInv'
    BY <1>13 DEF ProcessNothing, Unlock, LoopStep, StayInLoop
  <1>14. ASSUME WaitOver
       PROVE  OwningInv'
    BY <1>14 DEF WaitOver, AfterWait, LoopStep, StayInLoop
  <1>15. ASSUME ProcessMessage
       PROVE  OwningInv'
    BY <1>15 DEF ProcessMessage, LoopStep, StayInLoop
  <1>16. ASSUME NEW s \in Slots, CallHandler(s)
       PROVE  OwningInv'
    BY <1>16 DEF CallHandler, Untried, Listeners, LoopStep, StayInLoop
  <1>17. ASSUME NoMoreHandlers
       PROVE  OwningInv'
    BY <1>17 DEF NoMoreHandlers, Untried, Listeners, EndProcess, Unlock, LoopStep,
           StayInLoop
  <1>18. ASSUME EnterCallback
       PROVE  OwningInv'
    BY <1>18 DEF EnterCallback, Enter, LoopStep, StayInHandler
  <1>19. ASSUME EnterErrInTry
       PROVE  OwningInv'
    BY <1>19 DEF EnterErrInTry, Enter, LoopStep, StayInHandler
  <1>20. ASSUME EnterErrInCatch
       PROVE  OwningInv'
    BY <1>20 DEF EnterErrInCatch, Enter, LoopStep, StayInHandler
  <1>21. ASSUME UnpackThrows
       PROVE  OwningInv'
    BY <1>21 DEF UnpackThrows, ThrownGoesTo, LoopStep, StayInHandler
  <1>22. ASSUME LeaveCallback
       PROVE  OwningInv'
    BY <1>22 DEF LeaveCallback, LoopStep, StayInHandler
  <1>23. ASSUME Escape
       PROVE  OwningInv'
    BY <1>23 DEF Escape, LoopStep, StayInHandler
  <1>24. ASSUME HandlerReturns
       PROVE  OwningInv'
    BY <1>24 DEF HandlerReturns, AfterHandler, EndProcess, Unlock, LoopStep,
           StayInLoop
  <1>25. ASSUME NEW m \in Messages, Emit(m)
       PROVE  OwningInv'
    <2>1. /\ due' = [due EXCEPT ![m] = Listeners(SignalOf[m])]
          /\ UNCHANGED <<threadVars, slotVars>>
      BY <1>25 DEF Emit
    <2>2. OwnInv' /\ MatchInv'
      BY <2>1
    <2>3. \A s \in Listeners(SignalOf[m]) : s \in matches /\ signal[s] = SignalOf[m]
      BY DEF Listeners
    <2>4. ASSUME NEW k \in Messages, NEW s \in due'[k]
          PROVE  /\ signal[s] = SignalOf[k]
                 /\ object[s] # "none"
                 /\ \A t \in Threads : work[t] = s => pc[t] # "match"
      <3>1. CASE k = m
        <4>1. s \in Listeners(SignalOf[m])
          BY <2>1, <2>4, <3>1
        <4>2. s \in matches /\ signal[s] = SignalOf[k]
          BY <2>3, <3>1, <4>1
        <4> QED
          BY <4>2
      <3>2. CASE k # m
        <4>1. s \in due[k]
          BY <2>1, <2>4, <3>2
        <4> QED
          BY <4>1
      <3> QED
        BY <3>1, <3>2
    <2>5. DueInv'
      BY <2>1, <2>4
    <2> QED
      BY <2>2, <2>5
  <1>26. ASSUME StopLoop
       PROVE  OwningInv'
    BY <1>26 DEF StopLoop
  <1>27. ASSUME Destroy
       PROVE  OwningInv'
    BY <1>27 DEF Destroy, ClearedObject
  <1>28. CASE UNCHANGED vars
    BY <1>28 DEF vars
  <1> QED
    BY <1>1, <1>2, <1>3, <1>4, <1>5, <1>6, <1>7, <1>8, <1>9, <1>10, <1>11,
       <1>12, <1>13, <1>14, <1>15, <1>16, <1>17, <1>18, <1>19, <1>20, <1>21,
       <1>22, <1>23, <1>24, <1>25, <1>26, <1>27, <1>28
       DEF Next, UserStep, Loop, Finished

\* Owners and matches, in every reachable state.
THEOREM OwningCorrect == Spec => [](LockingInv /\ OwningInv)
  BY InitLocking, LockingStep, InitOwning, OwningStep, PTL DEF Spec

\* sd-bus never holds the address of a slot object that was freed, whatever the
\* application does: ~slot gives the address back before the memory, a match that
\* failed left none, and ~dbus clears the kept ones (slot.hpp, bus.hpp, bus.cpp).
THEOREM MatchedAreLive == Spec => []MatchedIsLive
  <1>1. OwningInv => MatchedIsLive
    BY DEF OwningInv, MatchInv, MatchedIsLive
  <1> QED
    BY <1>1, OwningCorrect, PTL

\* The number of elements of {x} that are in A.
LEMMA OneOrNone ==
  ASSUME NEW x, NEW A
  PROVE  Cardinality({x} \cap A) = IF x \in A THEN 1 ELSE 0
  <1>1. CASE x \in A
    <2>1. {x} \cap A = {x}
      BY <1>1
    <2> QED
      BY <1>1, <2>1, FS_Singleton
  <1>2. CASE x \notin A
    <2>1. {x} \cap A = {}
      BY <1>2
    <2> QED
      BY <1>2, <2>1, FS_EmptySet
  <1> QED
    BY <1>1, <1>2

\* Every slot object that lives has one owner, which will destroy it, whatever the
\* application does (install_signal_listener, signals.hpp, ~slot, ~dbus).
THEOREM EveryoneHasOneOwner == Spec => []OneOwner
  <1>1. ASSUME LockingInv, OwningInv
        PROVE  OneOwner
    <2> SUFFICES ASSUME NEW s \in Slots
                 PROVE  Cardinality({s} \cap kept) + Cardinality({s} \cap released)
                          + Cardinality({t \in Threads : work[t] = s})
                        = IF object[s] = "live" THEN 1 ELSE 0
      BY DEF OneOwner
    <2> DEFINE hands == {t \in Threads : work[t] = s}
    <2> USE <1>1, SlotsAssumption DEF OwningInv, OwnInv
    <2>1. Cardinality({s} \cap kept) = IF s \in kept THEN 1 ELSE 0
      BY OneOrNone
    <2>2. Cardinality({s} \cap released) = IF s \in released THEN 1 ELSE 0
      BY OneOrNone
    <2>3. CASE hands = {}
      <3>1. Cardinality(hands) = 0
        BY <2>3, FS_EmptySet
      <3>2. s \in kept \/ s \in released <=> object[s] = "live"
        BY <2>3
      <3>3. ~(s \in kept /\ s \in released)
        OBVIOUS
      <3> HIDE DEF hands
      <3> QED
        BY <2>1, <2>2, <3>1, <3>2, <3>3 DEF hands
    <2>4. CASE hands # {}
      <3>1. PICK t \in Threads : work[t] = s
        BY <2>4
      <3>2. object[s] = "live" /\ s \notin kept /\ s \notin released
        BY <3>1
      <3>3. hands = {t}
        BY <3>1
      <3>4. Cardinality(hands) = 1
        BY <3>3, FS_Singleton
      <3> HIDE DEF hands
      <3> QED
        BY <2>1, <2>2, <3>2, <3>4 DEF hands
    <2> QED
      BY <2>3, <2>4
  <1> QED
    BY <1>1, OwningCorrect, PTL

-----------------------------------------------------------------------------
\* A message is in the queue once, and nobody was called for it yet.
QueueInv ==
    /\ \A i \in 1 .. Len(queue) : status[queue[i]] = "queued"
    /\ \A i, j \in 1 .. Len(queue) : queue[i] = queue[j] => i = j
    /\ \A m \in Messages : status[m] \in {"new", "queued"} => callees[m] = {} /\ told[m] = 0
    /\ ~crashed /\ message # NoMessage => status[message] = "processed"

\* How far the handler of the one slot object that is called has come.
CalleeInv ==
    ~crashed /\ message # NoMessage =>
        /\ callees[message] = IF loop = "dispatch" THEN {} ELSE {current}
        /\ loop \in {"dispatch", "unpack", "misread", "onFail"} => told[message] = 0
        /\ loop \in {"callback", "errTry"} => told[message] = 1
        /\ loop = "catch" => told[message] \in {0, 1}
        /\ loop \in {"errCatch", "release"} => told[message] \in {1, 2}

\* A message that was dispatched had one callee, which was told, or nobody who
\* listened to it when it was emitted listens any more.
DoneInv ==
    \A m \in Messages : status[m] = "done" =>
        /\ callees[m] # {} => told[m] \in {1, 2} /\ \E s \in Slots : callees[m] = {s}
        /\ callees[m] = {} => told[m] = 0 /\ due[m] \cap matches = {}

DispatchInv == QueueInv /\ CalleeInv /\ DoneInv
\* Nothing has come in at first.
LEMMA InitDispatch == Init => DispatchInv
  BY SlotsAssumption DEF Init, DispatchInv, QueueInv, CalleeInv, DoneInv

\* Every action keeps count of the callbacks.
LEMMA DispatchStep == LockingInv /\ OwningInv /\ DispatchInv /\ [Next]_vars => DispatchInv'
  <1> SUFFICES ASSUME LockingInv, OwningInv, DispatchInv, [Next]_vars
               PROVE  DispatchInv'
    OBVIOUS
  <1> USE SlotsAssumption
      DEF DispatchInv, QueueInv, CalleeInv, DoneInv, OwningInv, OwnInv, MatchInv, DueInv,
          LockingInv, TypeOK, WorkInv, HandInv, Threads, InUserCode, HandlerSteps,
          lockVars, threadVars, slotVars, messageVars, loopVars, lifeVars
  <1>1. ASSUME NEW t \in Threads, NEW s \in Slots, Install(t, s)
       PROVE  DispatchInv'
    BY <1>1 DEF Install, MayUseBus, Lock, Step
  <1>2. ASSUME NEW t \in Threads, MatchSucceeds(t)
       PROVE  DispatchInv'
    BY <1>2 DEF MatchSucceeds, Step
  <1>3. ASSUME NEW t \in Threads, MatchFails(t)
       PROVE  DispatchInv'
    BY <1>3 DEF MatchFails, Unlock, Step
  <1>4. ASSUME NEW t \in Threads, Publish(t)
       PROVE  DispatchInv'
    BY <1>4 DEF Publish, Keep, Unlock, Step
  <1>5. ASSUME NEW t \in Threads, NEW s \in Slots, DeleteWithMutex(t, s)
       PROVE  DispatchInv'
    BY <1>5 DEF DeleteWithMutex, TakeReleased, MayUseBus, Lock, Step
  <1>6. ASSUME NEW t \in Threads, NEW s \in Slots, DeletePlainly(t, s)
       PROVE  DispatchInv'
    BY <1>6 DEF DeletePlainly, TakeReleased, Step
  <1>7. ASSUME NEW t \in Threads, UnrefWithMutex(t)
       PROVE  DispatchInv'
    BY <1>7 DEF UnrefWithMutex, Unref, Unmatch, Step
  <1>8. ASSUME NEW t \in Threads, UnrefPlainly(t)
       PROVE  DispatchInv'
    BY <1>8 DEF UnrefPlainly, Unref, Unmatch, Step
  <1>9. ASSUME NEW t \in Threads, FreeWithMutex(t)
       PROVE  DispatchInv'
    BY <1>9 DEF FreeWithMutex, Free, Unlock, Step
  <1>10. ASSUME NEW t \in Threads, FreePlainly(t)
       PROVE  DispatchInv'
    BY <1>10 DEF FreePlainly, Free, Step
  <1>11. ASSUME LoopExit
       PROVE  DispatchInv'
    BY <1>11 DEF LoopExit, LoopStep, StayInLoop
  <1>12. ASSUME LoopLock
       PROVE  DispatchInv'
    BY <1>12 DEF LoopLock, LoopGuard, Lock, LoopStep, StayInLoop
  <1>13. ASSUME ProcessNothing
       PROVE  DispatchInv'
    BY <1>13 DEF ProcessNothing, Unlock, LoopStep, StayInLoop
  <1>14. ASSUME WaitOver
       PROVE  DispatchInv'
    BY <1>14 DEF WaitOver, AfterWait, LoopStep, StayInLoop
  <1>15. ASSUME ProcessMessage
       PROVE  DispatchInv'
    BY <1>15 DEF ProcessMessage, LoopStep, StayInLoop
  <1>16. ASSUME NEW s \in Slots, CallHandler(s)
       PROVE  DispatchInv'
    <2>1. /\ callees' = [callees EXCEPT ![message] = callees[message] \cup {s}]
          /\ current' = s /\ ~crashed /\ loop = "dispatch"
          /\ loop' \in {"unpack", "misread", "onFail"}
          /\ UNCHANGED <<queue, status, message, due, told, matches, crashed>>
      <3> HIDE DEF DispatchInv, OwningInv, LockingInv
      <3> QED
        BY <1>16 DEF CallHandler, Untried, Listeners, LoopStep, StayInLoop
    <2>2. /\ message \in Messages /\ status[message] = "processed"
          /\ callees[message] = {} /\ told[message] = 0
      BY <2>1
    <2>3. /\ callees'[message] = {s}
          /\ \A m \in Messages \ {message} : callees'[m] = callees[m]
      <3> HIDE DEF DispatchInv, OwningInv
      <3> QED
        BY <2>1, <2>2
    <2>4. QueueInv'
      <3> QueueInv
        OBVIOUS
      <3> HIDE DEF DispatchInv, OwningInv
      <3> QED
        BY <2>1, <2>2, <2>3
    <2>5. CalleeInv'
      BY <2>1, <2>2, <2>3
    <2>6. DoneInv'
      <3> DoneInv
        OBVIOUS
      <3> HIDE DEF DispatchInv, OwningInv
      <3> QED
        BY <2>1, <2>2, <2>3
    <2> QED
      BY <2>4, <2>5, <2>6
  <1>17. ASSUME NoMoreHandlers
       PROVE  DispatchInv'
    BY <1>17 DEF NoMoreHandlers, Untried, Listeners, EndProcess, Unlock, LoopStep,
           StayInLoop
  <1>18. ASSUME EnterCallback
       PROVE  DispatchInv'
    BY <1>18 DEF EnterCallback, Enter, LoopStep, StayInHandler
  <1>19. ASSUME EnterErrInTry
       PROVE  DispatchInv'
    BY <1>19 DEF EnterErrInTry, Enter, LoopStep, StayInHandler
  <1>20. ASSUME EnterErrInCatch
       PROVE  DispatchInv'
    BY <1>20 DEF EnterErrInCatch, Enter, LoopStep, StayInHandler
  <1>21. ASSUME UnpackThrows
       PROVE  DispatchInv'
    BY <1>21 DEF UnpackThrows, ThrownGoesTo, LoopStep, StayInHandler
  <1>22. ASSUME LeaveCallback
       PROVE  DispatchInv'
    BY <1>22 DEF LeaveCallback, LoopStep, StayInHandler
  <1>23. ASSUME Escape
       PROVE  DispatchInv'
    BY <1>23 DEF Escape, LoopStep, StayInHandler
  <1>24. ASSUME HandlerReturns
       PROVE  DispatchInv'
    <2>1. /\ status' = [status EXCEPT ![message] = "done"]
          /\ message' = NoMessage
          /\ ~crashed /\ loop = "release"
          /\ UNCHANGED <<queue, callees, due, told, matches, crashed>>
      <3> HIDE DEF DispatchInv, OwningInv, LockingInv
      <3> QED
        BY <1>24 DEF HandlerReturns, AfterHandler, EndProcess, Unlock, LoopStep, StayInLoop
    <2>2. /\ message \in Messages /\ status[message] = "processed"
          /\ current \in Slots /\ callees[message] = {current}
          /\ told[message] \in {1, 2}
      BY <2>1
    <2>3. QueueInv'
      BY <2>1, <2>2
    <2>4. CalleeInv'
      BY <2>1
    <2>5. DoneInv'
      <3> DoneInv
        OBVIOUS
      <3> HIDE DEF DispatchInv, OwningInv
      <3>1. \A m \in Messages \ {message} :
               status'[m] = status[m] /\ told'[m] = told[m] /\ callees'[m] = callees[m]
        BY <2>1
      <3>2. callees'[message] = {current} /\ told'[message] \in {1, 2}
        BY <2>1, <2>2
      <3>3. ASSUME NEW m \in Messages, status'[m] = "done"
            PROVE  /\ callees'[m] # {} => told'[m] \in {1, 2} /\ \E s \in Slots : callees'[m] = {s}
                   /\ callees'[m] = {} => told'[m] = 0 /\ due'[m] \cap matches' = {}
        <4>1. CASE m = message
          BY <2>2, <3>2, <4>1
        <4>2. CASE m # message
          <5>1. status[m] = "done" /\ UNCHANGED <<due, matches>>
            BY <2>1, <3>1, <3>3, <4>2
          <5>2. /\ callees[m] # {} => told[m] \in {1, 2} /\ \E s \in Slots : callees[m] = {s}
                /\ callees[m] = {} => told[m] = 0 /\ due[m] \cap matches = {}
            BY <5>1
          <5>3. due'[m] \cap matches' = due[m] \cap matches
            BY <5>1
          <5>4. told'[m] = told[m] /\ callees'[m] = callees[m]
            BY <3>1, <4>2
          <5> HIDE DEF DoneInv, LockingInv, TypeOK
          <5> QED
            BY <5>2, <5>3, <5>4
        <4> QED
          BY <4>1, <4>2
      <3> QED
        BY <3>3
    <2> QED
      BY <2>3, <2>4, <2>5
  <1>25. ASSUME NEW m \in Messages, Emit(m)
       PROVE  DispatchInv'
    BY <1>25 DEF Emit, Listeners
  <1>26. ASSUME StopLoop
       PROVE  DispatchInv'
    BY <1>26 DEF StopLoop
  <1>27. ASSUME Destroy
       PROVE  DispatchInv'
    BY <1>27 DEF Destroy, ClearedObject
  <1>28. CASE UNCHANGED vars
    BY <1>28 DEF vars
  <1> QED
    BY <1>1, <1>2, <1>3, <1>4, <1>5, <1>6, <1>7, <1>8, <1>9, <1>10, <1>11,
       <1>12, <1>13, <1>14, <1>15, <1>16, <1>17, <1>18, <1>19, <1>20, <1>21,
       <1>22, <1>23, <1>24, <1>25, <1>26, <1>27, <1>28
       DEF Next, UserStep, Loop, Finished

\* How far every message has come, in every reachable state.
THEOREM DispatchCorrect == Spec => [](LockingInv /\ OwningInv /\ DispatchInv)
  BY InitLocking, LockingStep, InitOwning, OwningStep, InitDispatch, DispatchStep, PTL
     DEF Spec

\* A signal that was dispatched reached one listener, if one of those that were there
\* when it came in still is; and that one was told by one of its callbacks, or by both
\* when the first threw (dbus_mock_signal_callback, which returns 1 or -1).
THEOREM OneListenerHears == Spec => []HeardByOneListener
  <1>1. ASSUME DispatchInv
        PROVE  HeardByOneListener
    <2> SUFFICES ASSUME NEW m \in Messages, status[m] = "done"
                 PROVE  /\ Cardinality(callees[m]) <= 1
                        /\ due[m] \cap matches # {} => callees[m] # {}
                        /\ callees[m] # {} => told[m] \in {1, 2}
      BY DEF HeardByOneListener
    <2> USE <1>1 DEF DispatchInv, DoneInv
    <2>1. CASE callees[m] = {}
      <3>1. Cardinality(callees[m]) = 0
        BY <2>1, FS_EmptySet
      <3> QED
        BY <2>1, <3>1
    <2>2. CASE callees[m] # {}
      <3>1. PICK s \in Slots : callees[m] = {s}
        BY <2>2
      <3>2. Cardinality(callees[m]) = 1
        BY <3>1, FS_Singleton
      <3> QED
        BY <2>2, <3>2
    <2> QED
      BY <2>1, <2>2
  <1> QED
    BY <1>1, DispatchCorrect, PTL

-----------------------------------------------------------------------------
(* The connection implements SignalDelivery. *)

\* What SignalDelivery sees of the messages, and of the life of the connection.
Lined == (IF message = NoMessage THEN <<>> ELSE <<message>>) \o queue
Sent == {m \in Messages : status[m] # "new"}
Alive == phase # "dead" /\ ~crashed

\* A step that changes nothing SignalDelivery sees is a stutter.
LEMMA UnseenStep ==
  ASSUME UNCHANGED <<signal, matches, callees, told>>, Sent' = Sent, Lined' = Lined,
         Alive' = Alive
  PROVE  [Delivery!Next]_(Delivery!vars)
  <1>1. UNCHANGED <<signal, matches, Sent, Lined, callees, told, Alive>>
    OBVIOUS
  <1> QED
    BY <1>1 DEF Delivery!vars, Sent, Lined, Alive

\* So is one that leaves alone the messages and what sd-bus knows of listeners.
LEMMA QuietStep ==
  ASSUME UNCHANGED <<signal, matches, messageVars, message, crashed>>,
         (phase = "dead") = (phase' = "dead")
  PROVE  [Delivery!Next]_(Delivery!vars)
  <1>1. UNCHANGED <<signal, matches, callees, told>> /\ Sent' = Sent /\ Lined' = Lined
    BY DEF messageVars, Sent, Lined
  <1>2. Alive' = Alive
    BY Zenon DEF Alive
  <1> QED
    BY <1>1, <1>2, UnseenStep

\* The message that is processed has its turn.
LEMMA ItsTurn ==
  ASSUME LockingInv, ~crashed, loop \in {"dispatch"} \cup HandlerSteps
  PROVE  /\ message \in Messages /\ Alive
         /\ Lined # <<>> /\ Head(Lined) = message /\ Tail(Lined) = queue
  <1> USE DEF LockingInv, TypeOK
  <1>1. message \in Messages /\ message # NoMessage
    BY DEF HandInv
  <1>2. phase # "dead"
    BY DEF WorkInv, HandlerSteps
  <1>3. queue \in Seq(Messages) /\ Lined = <<message>> \o queue
    BY <1>1 DEF Lined
  <1>4. \A q \in Seq(Messages), x \in Messages :
           <<x>> \o q # <<>> /\ Head(<<x>> \o q) = x /\ Tail(<<x>> \o q) = q
    OBVIOUS
  <1>5. Alive
    BY <1>2 DEF Alive
  <1> QED
    BY <1>1, <1>3, <1>4, <1>5

\* The same in the words of SignalDelivery.
LEMMA TurnOfMessage ==
  ASSUME LockingInv, ~crashed, loop \in {"dispatch"} \cup HandlerSteps
  PROVE  Delivery!Turn(message)
  BY ItsTurn DEF Delivery!Turn, Lined, Alive

\* A listener whose match was added listens; one whose slot was given back does not.
LEMMA MatchIsSeen ==
  ASSUME LockingInv, NEW t \in Threads, MatchSucceeds(t) \/ UnrefWithMutex(t) \/ UnrefPlainly(t)
  PROVE  [Delivery!Next]_(Delivery!vars)
  <1>1. /\ UNCHANGED <<signal, callees, told>> /\ Sent' = Sent /\ Lined' = Lined
        /\ ~crashed /\ UNCHANGED <<crashed, phase>>
    BY DEF MatchSucceeds, UnrefWithMutex, UnrefPlainly, Unref, Step, messageVars, loopVars,
           lifeVars, Sent, Lined
  <1>2. Alive' = Alive
    BY <1>1 DEF Alive
  <1>3. pc[t] # "idle" => work[t] \in Slots
    BY DEF LockingInv, TypeOK, WorkInv
  <1>4. CASE MatchSucceeds(t)
    <2>1. /\ matches' = matches \cup {work[t]} /\ work[t] \in Slots
          /\ pc[t] = "match"
      BY <1>3, <1>4 DEF MatchSucceeds, Step
    <2>2. Alive
      BY <1>1, <2>1 DEF LockingInv, WorkInv, Alive
    <2>3. Delivery!Listen(work[t])
      BY <1>1, <1>2, <2>1, <2>2 DEF Delivery!Listen, Sent, Lined, Alive
    <2> QED
      BY <2>1, <2>3 DEF Delivery!Next
  <1>5. CASE UnrefWithMutex(t) \/ UnrefPlainly(t)
    <2>1. matches' = matches \ {work[t]} /\ work[t] \in Slots
      BY <1>3, <1>5 DEF UnrefWithMutex, UnrefPlainly, Unref, Unmatch, Step
    <2>2. Delivery!Forget(work[t])
      BY <1>1, <1>2, <2>1 DEF Delivery!Forget, Sent, Lined, Alive
    <2> QED
      BY <2>1, <2>2 DEF Delivery!Next
  <1> QED
    BY <1>4, <1>5

\* A signal that comes in is sent, and waits behind the others.
LEMMA EmitIsSeen ==
  ASSUME LockingInv, NEW m \in Messages, Emit(m)
  PROVE  [Delivery!Next]_(Delivery!vars)
  <1>1. /\ ~crashed /\ phase # "dead" /\ status[m] = "new"
        /\ {s \in matches : signal[s] = SignalOf[m]} # {}
        /\ status' = [status EXCEPT ![m] = "queued"] /\ queue' = Append(queue, m)
        /\ UNCHANGED <<signal, matches, callees, told, message, phase, crashed>>
    BY DEF Emit, Listeners, slotVars, loopVars, lifeVars
  <1>2. Alive /\ Alive' = Alive
    BY <1>1 DEF Alive
  <1>3. status \in [Messages -> {"new", "queued", "processed", "done"}]
    BY DEF LockingInv, TypeOK
  <1>4. m \notin Sent /\ Sent' = Sent \cup {m}
    BY <1>1, <1>3 DEF Sent
  <1>5. Lined' = Append(Lined, m)
    <2>1. queue \in Seq(Messages) /\ message \in Messages \cup {NoMessage}
      BY DEF LockingInv, TypeOK
    <2>2. \A x \in Messages, q \in Seq(Messages) :
             <<x>> \o Append(q, m) = Append(<<x>> \o q, m)
      OBVIOUS
    <2>3. \A q \in Seq(Messages) : <<>> \o Append(q, m) = Append(<<>> \o q, m)
      OBVIOUS
    <2> QED
      BY <1>1, <2>1, <2>2, <2>3 DEF Lined
  <1>6. Delivery!Send(m)
    BY <1>1, <1>2, <1>4, <1>5
       DEF Delivery!Send, Delivery!WhoListens, Sent, Lined, Alive
  <1> QED
    BY <1>6 DEF Delivery!Next

\* Taking the first message out of the queue is not seen.
LEMMA ProcessIsUnseen ==
  ASSUME LockingInv, DispatchInv, ProcessMessage
  PROVE  [Delivery!Next]_(Delivery!vars)
  <1>1. /\ ~crashed /\ loop = "process" /\ queue # <<>>
        /\ message' = Head(queue) /\ queue' = Tail(queue)
        /\ status' = [status EXCEPT ![Head(queue)] = "processed"]
        /\ UNCHANGED <<signal, matches, callees, told, phase, crashed>>
    BY DEF ProcessMessage, LoopStep, StayInLoop, slotVars, lifeVars
  <1>2. queue \in Seq(Messages)
    BY DEF LockingInv, TypeOK
  <1>3. Head(queue) = queue[1] /\ 1 \in 1 .. Len(queue) /\ Head(queue) \in Messages
    BY <1>1, <1>2
  <1>4. status[Head(queue)] = "queued"
    BY <1>3 DEF DispatchInv, QueueInv
  <1>5. status \in [Messages -> {"new", "queued", "processed", "done"}]
    BY DEF LockingInv, TypeOK
  <1>6. Sent' = Sent
    BY <1>1, <1>4, <1>5 DEF Sent
  <1>7. Lined' = Lined
    <2>1. message = NoMessage
      BY <1>1 DEF LockingInv, HandInv, HandlerSteps
    <2>2. message' # NoMessage
      BY <1>1, <1>3, SlotsAssumption
    <2>3. \A q \in Seq(Messages) : q # <<>> => <<Head(q)>> \o Tail(q) = <<>> \o q
      OBVIOUS
    <2> QED
      BY <1>1, <1>2, <2>1, <2>2, <2>3 DEF Lined
  <1>8. Alive' = Alive
    BY <1>1 DEF Alive
  <1> QED
    BY <1>1, <1>6, <1>7, <1>8, UnseenStep

\* A slot object whose handler is called hears the message that has its turn.
LEMMA CallIsSeen ==
  ASSUME LockingInv, DispatchInv, NEW s \in Slots, CallHandler(s)
  PROVE  [Delivery!Next]_(Delivery!vars)
  <1>1. /\ ~crashed /\ loop = "dispatch" /\ s \in matches /\ signal[s] = SignalOf[message]
        /\ callees' = [callees EXCEPT ![message] = callees[message] \cup {s}]
        /\ UNCHANGED <<signal, matches, status, queue, message, told, phase, crashed>>
    BY DEF CallHandler, Untried, Listeners, LoopStep, StayInLoop, slotVars, lifeVars
  <1>2. Delivery!Turn(message) /\ message \in Messages
    BY <1>1, ItsTurn, TurnOfMessage
  <1>3. callees[message] = {}
    BY <1>1, <1>2, SlotsAssumption DEF DispatchInv, CalleeInv
  <1>4. callees' = [callees EXCEPT ![message] = {s}]
    BY <1>1, <1>3
  <1>5. Sent' = Sent /\ Lined' = Lined
    BY <1>1 DEF Sent, Lined
  <1>6. Alive' = Alive
    BY <1>1 DEF Alive
  <1>7. Delivery!Hear(message, s)
    BY <1>1, <1>2, <1>3, <1>4, <1>5, <1>6
       DEF Delivery!Hear, Delivery!WhoListens, Sent, Lined, Alive
  <1> QED
    BY <1>2, <1>7 DEF Delivery!Next

\* The error callback is the second to be told, or the first.
LEMMA EnterIsSeen ==
  ASSUME LockingInv, DispatchInv, EnterCallback \/ EnterErrInTry \/ EnterErrInCatch
  PROVE  [Delivery!Next]_(Delivery!vars)
  <1>1. /\ ~crashed /\ loop \in {"unpack", "onFail", "catch"}
        /\ told' = [told EXCEPT ![message] = told[message] + 1]
        /\ UNCHANGED <<signal, matches, status, queue, message, callees, phase, crashed>>
    BY DEF EnterCallback, EnterErrInTry, EnterErrInCatch, Enter, LoopStep, StayInHandler,
           slotVars
  <1>2. Delivery!Turn(message) /\ message \in Messages
    BY <1>1, ItsTurn, TurnOfMessage DEF HandlerSteps
  <1>3. callees[message] # {} /\ told[message] \in {0, 1}
    BY <1>1, <1>2, SlotsAssumption DEF DispatchInv, CalleeInv
  <1>4. told[message] < 2
    BY <1>3
  <1>5. Sent' = Sent /\ Lined' = Lined
    BY <1>1 DEF Sent, Lined
  <1>6. Alive' = Alive
    BY <1>1 DEF Alive
  <1>7. Delivery!Tell(message)
    BY <1>1, <1>2, <1>3, <1>4, <1>5, <1>6 DEF Delivery!Tell, Sent, Lined, Alive
  <1> QED
    BY <1>2, <1>7 DEF Delivery!Next

\* A message is done with when its handler has returned, or nobody listens for it.
LEMMA EndIsSeen ==
  ASSUME LockingInv, DispatchInv, NoMoreHandlers \/ HandlerReturns
  PROVE  [Delivery!Next]_(Delivery!vars)
  <1>1. /\ ~crashed /\ loop \in {"dispatch", "release"}
        /\ loop = "dispatch" =>
              {s \in matches : signal[s] = SignalOf[message]} \ callees[message] = {}
        /\ status' = [status EXCEPT ![message] = "done"] /\ message' = NoMessage
        /\ UNCHANGED <<signal, matches, queue, callees, told, phase, crashed>>
    BY DEF NoMoreHandlers, HandlerReturns, AfterHandler, EndProcess, Untried, Listeners,
           LoopStep, StayInLoop, slotVars, lifeVars
  <1>2. Delivery!Turn(message) /\ message \in Messages /\ Tail(Lined) = queue
    BY <1>1, ItsTurn, TurnOfMessage DEF HandlerSteps
  <1>3. /\ loop = "dispatch" => callees[message] = {}
        /\ loop = "release" => callees[message] # {} /\ told[message] \in {1, 2}
    BY <1>1, <1>2, SlotsAssumption DEF DispatchInv, CalleeInv
  <1>4. IF callees[message] = {} THEN Delivery!WhoListens(message) = {}
                                 ELSE told[message] > 0
    BY <1>1, <1>3 DEF Delivery!WhoListens
  <1>5. Sent' = Sent
    <2>1. status[message] # "new"
      BY <1>1, <1>2, SlotsAssumption DEF DispatchInv, QueueInv
    <2>2. status \in [Messages -> {"new", "queued", "processed", "done"}]
      BY DEF LockingInv, TypeOK
    <2> QED
      BY <1>1, <2>1, <2>2 DEF Sent
  <1>6. Lined' = Tail(Lined)
    <2>1. \A q \in Seq(Messages) : <<>> \o q = q
      OBVIOUS
    <2>2. queue \in Seq(Messages)
      BY DEF LockingInv, TypeOK
    <2> QED
      BY <1>1, <1>2, <2>1, <2>2 DEF Lined
  <1>7. Alive' = Alive
    BY <1>1 DEF Alive
  <1>8. Delivery!Finish(message)
    BY <1>1, <1>2, <1>4, <1>5, <1>6, <1>7 DEF Delivery!Finish, Sent, Lined, Alive
  <1> QED
    BY <1>2, <1>8 DEF Delivery!Next

\* The connection ends when ~dbus is through, or the process terminates.
LEMMA LastStepIsSeen ==
  ASSUME LockingInv, Destroy \/ Escape
  PROVE  [Delivery!Next]_(Delivery!vars)
  <1>1. /\ UNCHANGED <<signal, callees, told>> /\ Sent' = Sent /\ Lined' = Lined
        /\ matches' \subseteq matches /\ ~crashed
        /\ phase' = "dead" \/ crashed'
    BY DEF Destroy, Escape, LoopStep, StayInHandler, messageVars, loopVars, slotVars,
           Sent, Lined
  <1>2. phase # "dead"
    BY DEF Destroy, Escape, LoopStep, LockingInv, WorkInv
  <1>3. Alive /\ Alive' = FALSE
    BY <1>1, <1>2 DEF Alive
  <1>4. Delivery!End
    BY <1>1, <1>3 DEF Delivery!End, Sent, Lined, Alive
  <1> QED
    BY <1>4 DEF Delivery!Next

\* Every step is one of SignalDelivery or a stutter.
LEMMA DeliveryStep ==
  LockingInv /\ DispatchInv /\ [Next]_vars => [Delivery!Next]_(Delivery!vars)
  <1> SUFFICES ASSUME LockingInv, DispatchInv, [Next]_vars
               PROVE  [Delivery!Next]_(Delivery!vars)
    OBVIOUS
  <1> USE DEF threadVars, slotVars, messageVars, loopVars, lifeVars
  <1>1. ASSUME NEW t \in Threads, UserStep(t)
        PROVE  [Delivery!Next]_(Delivery!vars)
    <2>1. CASE MatchSucceeds(t) \/ UnrefWithMutex(t) \/ UnrefPlainly(t)
      BY <2>1, MatchIsSeen
    <2>2. CASE ~(MatchSucceeds(t) \/ UnrefWithMutex(t) \/ UnrefPlainly(t))
      <3>1. UNCHANGED <<signal, matches, messageVars, message, crashed, phase>>
        BY <1>1, <2>2
           DEF UserStep, Install, MatchFails, Publish, DeleteWithMutex, DeletePlainly,
               TakeReleased, FreeWithMutex, FreePlainly, Free, Keep
      <3> QED
        BY <3>1, QuietStep
    <2> QED
      BY <2>1, <2>2
  <1>2. CASE LoopExit \/ LoopLock \/ ProcessNothing \/ WaitOver \/ UnpackThrows
             \/ LeaveCallback \/ StopLoop \/ UNCHANGED vars
    <2>1. /\ UNCHANGED <<signal, matches, messageVars, message, crashed>>
          /\ UNCHANGED phase \/ (phase = "alive" /\ phase' = "stopping")
      BY <1>2 DEF LoopExit, LoopLock, ProcessNothing, WaitOver, UnpackThrows, LeaveCallback,
                  StopLoop, StayInLoop, StayInHandler, vars
    <2>2. (phase = "dead") = (phase' = "dead")
      BY <2>1
    <2> QED
      BY <2>1, <2>2, QuietStep
  <1> QED
    BY <1>1, <1>2, EmitIsSeen, ProcessIsUnseen, CallIsSeen, EnterIsSeen, EndIsSeen,
       LastStepIsSeen
       DEF Next, Loop, Finished

\* Whoever listens, and however the callbacks end, signals are delivered in turn, each
\* to one listener that is told before the next one comes: the connection implements
\* SignalDelivery (the loop, dbus_mock_signal_callback, ~slot and ~dbus).
THEOREM SignalsDeliveredInTurn == Spec => DeliversInTurn
  <1>1. Init => Delivery!Init
    <2> SUFFICES ASSUME Init PROVE Delivery!Init
      OBVIOUS
    <2>1. Lined = <<>> /\ Sent = {}
      BY DEF Init, Lined, Sent
    <2>2. Alive = TRUE
      BY DEF Init, Alive
    <2> QED
      BY <2>1, <2>2, Zenon DEF Init, Delivery!Init, Lined, Sent, Alive
  <1> QED
    BY <1>1, DispatchCorrect, DeliveryStep, PTL
       DEF Spec, DeliversInTurn, Delivery!Spec

-----------------------------------------------------------------------------
(* Applications that delete released slots with the mutex. *)
\* Deleting without the mutex is left to the time after the connection.
PlainInv == \A t \in Threads : pc[t] \in {"plainUnref", "plainFree"} => phase = "dead"

\* The slot object whose handler runs is live, and no thread has it in hand.
CurrentInv ==
    current # NoSlot => object[current] = "live" /\ \A t \in Threads : work[t] # current
\* No handler runs at first.
LEMMA InitCurrent == Init => PlainInv /\ CurrentInv
  BY SlotsAssumption DEF Init, PlainInv, CurrentInv, Threads

\* While the loop is in sd-bus it has the mutex.
LEMMA LoopOwns ==
  ASSUME LockingInv, loop \in {"process", "dispatch"} \cup HandlerSteps
  PROVE  owner = LoopThread
  <1>1. Levels(LoopThread) = IF owner = LoopThread THEN depth ELSE 0
    BY DEF LockingInv, LockInv, Threads
  <1>2. HoldsForLoop(LoopThread)
    BY DEF HoldsForLoop
  <1>3. Levels(LoopThread) # 0
    BY <1>2 DEF Levels
  <1> QED
    BY <1>1, <1>3

\* While the loop is in sd-bus no thread of the application has work.
LEMMA LoopAlone ==
  ASSUME LockingInv, PlainInv, loop \in {"process", "dispatch"} \cup HandlerSteps
  PROVE  \A t \in Users : pc[t] = "idle"
  BY SlotsAssumption
     DEF LockingInv, TypeOK, WorkInv, LockInv, Levels, HoldsForWork, HoldsForLoop,
         PlainInv, PcValues, Threads, HandlerSteps

\* Without that habit every action keeps the slot object whose handler runs.
LEMMA CurrentStep ==
  ASSUME "plainDelete" \notin Habits
  PROVE  LockingInv /\ OwningInv /\ PlainInv /\ CurrentInv /\ [Next]_vars
             => (PlainInv /\ CurrentInv)'
  <1> SUFFICES ASSUME LockingInv, OwningInv, PlainInv, CurrentInv, [Next]_vars
               PROVE  (PlainInv /\ CurrentInv)'
    OBVIOUS
  <1> USE SlotsAssumption
      DEF PlainInv, CurrentInv, OwningInv, OwnInv, MatchInv, LockingInv, TypeOK,
          WorkInv, HandInv, Threads, InUserCode, HandlerSteps, Has, lockVars,
          threadVars, slotVars, messageVars, loopVars, lifeVars
  <1>1. ASSUME NEW t \in Threads, NEW s \in Slots, Install(t, s)
       PROVE  (PlainInv /\ CurrentInv)'
    BY <1>1 DEF Install, MayUseBus, Lock, Step
  <1>2. ASSUME NEW t \in Threads, MatchSucceeds(t)
       PROVE  (PlainInv /\ CurrentInv)'
    BY <1>2 DEF MatchSucceeds, Step
  <1>3. ASSUME NEW t \in Threads, MatchFails(t)
       PROVE  (PlainInv /\ CurrentInv)'
    BY <1>3 DEF MatchFails, Unlock, Step
  <1>4. ASSUME NEW t \in Threads, Publish(t)
       PROVE  (PlainInv /\ CurrentInv)'
    BY <1>4 DEF Publish, Keep, Unlock, Step
  <1>5. ASSUME NEW t \in Threads, NEW s \in Slots, DeleteWithMutex(t, s)
       PROVE  (PlainInv /\ CurrentInv)'
    <2>1. /\ owner \in {NoThread, t} /\ ~crashed
          /\ t = LoopThread => s # current
          /\ work' = [work EXCEPT ![t] = s] /\ pc' = [pc EXCEPT ![t] = "unref"]
          /\ UNCHANGED <<object, current, phase>>
      BY <1>5 DEF DeleteWithMutex, TakeReleased, MayUseBus, Lock, Step
    <2>2. current # NoSlot => s # current
      <3> SUFFICES ASSUME current # NoSlot PROVE s # current
        OBVIOUS
      <3>1. loop \in HandlerSteps
        BY <2>1
      <3>2. owner = LoopThread
        BY <3>1, LoopOwns
      <3> QED
        BY <2>1, <3>2
    <2> QED
      BY <2>1, <2>2
  <1>6. ASSUME NEW t \in Threads, NEW s \in Slots, DeletePlainly(t, s)
       PROVE  (PlainInv /\ CurrentInv)'
    BY <1>6 DEF DeletePlainly, TakeReleased, Step
  <1>7. ASSUME NEW t \in Threads, UnrefWithMutex(t)
       PROVE  (PlainInv /\ CurrentInv)'
    BY <1>7 DEF UnrefWithMutex, Unref, Unmatch, Step
  <1>8. ASSUME NEW t \in Threads, UnrefPlainly(t)
       PROVE  (PlainInv /\ CurrentInv)'
    BY <1>8 DEF UnrefPlainly, Unref, Unmatch, Step
  <1>9. ASSUME NEW t \in Threads, FreeWithMutex(t)
       PROVE  (PlainInv /\ CurrentInv)'
    BY <1>9 DEF FreeWithMutex, Free, Unlock, Step
  <1>10. ASSUME NEW t \in Threads, FreePlainly(t)
       PROVE  (PlainInv /\ CurrentInv)'
    BY <1>10 DEF FreePlainly, Free, Step
  <1>11. ASSUME LoopExit
       PROVE  (PlainInv /\ CurrentInv)'
    BY <1>11 DEF LoopExit, LoopStep, StayInLoop
  <1>12. ASSUME LoopLock
       PROVE  (PlainInv /\ CurrentInv)'
    BY <1>12 DEF LoopLock, LoopGuard, Lock, LoopStep, StayInLoop
  <1>13. ASSUME ProcessNothing
       PROVE  (PlainInv /\ CurrentInv)'
    BY <1>13 DEF ProcessNothing, Unlock, LoopStep, StayInLoop
  <1>14. ASSUME WaitOver
       PROVE  (PlainInv /\ CurrentInv)'
    BY <1>14 DEF WaitOver, AfterWait, LoopStep, StayInLoop
  <1>15. ASSUME ProcessMessage
       PROVE  (PlainInv /\ CurrentInv)'
    BY <1>15 DEF ProcessMessage, LoopStep, StayInLoop
  <1>16. ASSUME NEW s \in Slots, CallHandler(s)
       PROVE  (PlainInv /\ CurrentInv)'
    <2>1. /\ current' = s /\ loop = "dispatch" /\ pc[LoopThread] = "idle"
          /\ s \in matches /\ UNCHANGED <<pc, work, object, phase>>
      BY <1>16 DEF CallHandler, Untried, Listeners, LoopStep, StayInLoop
    <2>2. \A t \in Users : pc[t] = "idle"
      BY <2>1, LoopAlone
    <2>3. object[s] = "live" /\ \A t \in Threads : work[t] # s
      BY <2>1, <2>2
    <2> QED
      BY <2>1, <2>3
  <1>17. ASSUME NoMoreHandlers
       PROVE  (PlainInv /\ CurrentInv)'
    BY <1>17 DEF NoMoreHandlers, Untried, Listeners, EndProcess, Unlock, LoopStep,
           StayInLoop
  <1>18. ASSUME EnterCallback
       PROVE  (PlainInv /\ CurrentInv)'
    BY <1>18 DEF EnterCallback, Enter, LoopStep, StayInHandler
  <1>19. ASSUME EnterErrInTry
       PROVE  (PlainInv /\ CurrentInv)'
    BY <1>19 DEF EnterErrInTry, Enter, LoopStep, StayInHandler
  <1>20. ASSUME EnterErrInCatch
       PROVE  (PlainInv /\ CurrentInv)'
    BY <1>20 DEF EnterErrInCatch, Enter, LoopStep, StayInHandler
  <1>21. ASSUME UnpackThrows
       PROVE  (PlainInv /\ CurrentInv)'
    BY <1>21 DEF UnpackThrows, ThrownGoesTo, LoopStep, StayInHandler
  <1>22. ASSUME LeaveCallback
       PROVE  (PlainInv /\ CurrentInv)'
    BY <1>22 DEF LeaveCallback, LoopStep, StayInHandler
  <1>23. ASSUME Escape
       PROVE  (PlainInv /\ CurrentInv)'
    BY <1>23 DEF Escape, LoopStep, StayInHandler
  <1>24. ASSUME HandlerReturns
       PROVE  (PlainInv /\ CurrentInv)'
    BY <1>24 DEF HandlerReturns, AfterHandler, EndProcess, Unlock, LoopStep,
           StayInLoop
  <1>25. ASSUME NEW m \in Messages, Emit(m)
       PROVE  (PlainInv /\ CurrentInv)'
    BY <1>25 DEF Emit, Listeners
  <1>26. ASSUME StopLoop
       PROVE  (PlainInv /\ CurrentInv)'
    BY <1>26 DEF StopLoop
  <1>27. ASSUME Destroy
       PROVE  (PlainInv /\ CurrentInv)'
    BY <1>27 DEF Destroy, ClearedObject
  <1>28. CASE UNCHANGED vars
    BY <1>28 DEF vars
  <1> QED
    BY <1>1, <1>2, <1>3, <1>4, <1>5, <1>6, <1>7, <1>8, <1>9, <1>10, <1>11,
       <1>12, <1>13, <1>14, <1>15, <1>16, <1>17, <1>18, <1>19, <1>20, <1>21,
       <1>22, <1>23, <1>24, <1>25, <1>26, <1>27, <1>28
       DEF Next, UserStep, Loop, Finished

\* Callbacks run on slot objects that exist, in every reachable state.
THEOREM CurrentCorrect ==
  ASSUME "plainDelete" \notin Habits
  PROVE  Spec => [](LockingInv /\ OwningInv /\ PlainInv /\ CurrentInv)
  BY InitLocking, LockingStep, InitOwning, OwningStep, InitCurrent, CurrentStep, PTL
     DEF Spec

\* If the application deletes released slots with the mutex only, the callbacks of a
\* listener run on a slot object that exists (slot.hpp, dbus_mock_signal_callback).
THEOREM CalledAreLive ==
  ASSUME "plainDelete" \notin Habits
  PROVE  Spec => []CalledIsLive
  <1>1. CurrentInv => CalledIsLive
    BY DEF CurrentInv, CalledIsLive
  <1> QED
    BY <1>1, CurrentCorrect, PTL

\* Then also whoever installs, deletes or dispatches is alone in sd-bus but for the
\* loop's thread in sd_bus_wait (the scoped locks on sdbus_lock_, and the one of the
\* loop, which it leaves to wait).
THEOREM OnlyWaitersAreUnlocked ==
  ASSUME "plainDelete" \notin Habits
  PROVE  Spec => []OnlyTheWaitIsUnlocked
  <1>1. ASSUME LockingInv, PlainInv, NEW t \in Threads, UsesBus(t), ~WaitsInBus(t)
        PROVE  owner = t
    BY <1>1, SlotsAssumption
       DEF LockingInv, TypeOK, LockInv, Levels, HoldsForWork, HoldsForLoop, PlainInv,
           UsesBus, HandlerSteps
  <1>2. LockingInv /\ PlainInv => OnlyTheWaitIsUnlocked
    BY <1>1 DEF OnlyTheWaitIsUnlocked
  <1> QED
    BY <1>2, CurrentCorrect, PTL

=============================================================================

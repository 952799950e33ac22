------------------------------ MODULE EventLoop ------------------------------
(***************************************************************************)
(* The event loop of a connection: busy_loop (bindings/busy_loop.cpp), its *)
(* thread, and the functions of dbus that install it and end it            *)
(* (bindings/bus.cpp).                                                     *)
(*                                                                         *)
(* One thread of the application controls the loops: it creates them,      *)
(* installs them in the dbus object, starts, stops and replaces them,      *)
(* takes the mutex of the bus for calls of its own to sd-bus, and destroys *)
(* the dbus object.  Each busy_loop has at most one thread at a time.      *)
(* The controlling thread may also run dbus::busy_loop, which blocks it,   *)
(* instead of a loop with a thread or beside one.  Another thread of the   *)
(* application makes calls, which hold the mutex.                          *)
(*                                                                         *)
(* Habits says what the application does that the interface permits but    *)
(* that a careful one avoids.                                              *)
(***************************************************************************)
EXTENDS Naturals

CONSTANTS
    Loops,      \* busy_loop objects (a bound on their number)
    NoLoop,
    Control,    \* the controlling thread
    Other,      \* another thread of the application
    NoThread,
    MaxPending, \* bound: messages that wait in the connection
    MaxErrors,  \* bound: failures of sd_bus_process and sd_bus_wait
    Refusing,   \* loops whose error callback may return false
    Habits      \* careless habits of the application

AllHabits == {"restart",      \* start(), or installing a loop that may have
                              \* ended itself, while the thread is not joined
              "replace",      \* installing over a loop that is not joined
              "destroy",      \* no stop() before ~dbus, although the error
                              \* callback may have ended the loop
              "setLate",      \* error_callback() while the thread runs
              "stopInCallback", \* stop() in the message callback
              "throwInCallback", \* the message or the error callback throws
              "stopWithMutex"}  \* stop(), start() or ~dbus holding mutex()

ASSUME LoopAssumption ==
    /\ NoLoop \notin Loops
    /\ Control \notin Loops
    /\ Other \notin Loops \cup {Control}
    /\ NoThread \notin Loops \cup {Control, Other}
    /\ MaxPending \in Nat
    /\ MaxErrors \in Nat
    /\ Refusing \subseteq Loops
    /\ Habits \subseteq AllHabits

VARIABLES
    created,    \* loops that exist
    installed,  \* dbus::event_loop_
    running, actuallyRunning, \* per loop: running_, actually_running_
    joinable,   \* per loop: loop_thread_.joinable()
    at,         \* per loop: the next statement of its thread
    errorCb,    \* per loop: error_cb_
    refused,    \* per loop: it has done so since the last start
    wanted,     \* per loop: the last command that ended was start()
    control,    \* the next statement of the controlling thread
    target,     \* the loop its command is about
    afterJoin,  \* where it continues when stop() has joined the thread
    keepRunning, \* the flag given to dbus::busy_loop
    mutex,      \* who holds sdbus_lock_
    pending,    \* messages to be processed
    errors,     \* failures so far
    bus,        \* the dbus object
    crash       \* why std::terminate was called

objectVars == <<created, installed, joinable>>
flagVars == <<running, actuallyRunning>>
threadVars == <<at, refused>>
controlVars == <<control, target, afterJoin, wanted>>
busVars == <<pending, errors>>
vars == <<objectVars, flagVars, threadVars, controlVars, busVars, keepRunning,
          errorCb, mutex, bus, crash>>

ThreadSteps == {"none", "head", "lock", "process", "message", "failed", "wait",
                "leaving", "ended"}
BlockingSteps == {"blockHead", "blockProcess", "blockWait", "blockThrow"}
ControlSteps == {"idle", "assign", "startRunning", "startActual", "startCheck",
                 "spawn", "join", "destroyCheck", "close", "destroyMembers",
                 "gone"} \cup BlockingSteps

TypeOK ==
    /\ created \subseteq Loops
    /\ installed \in Loops \cup {NoLoop}
    /\ running \in [Loops -> BOOLEAN]
    /\ actuallyRunning \in [Loops -> BOOLEAN]
    /\ joinable \in [Loops -> BOOLEAN]
    /\ at \in [Loops -> ThreadSteps]
    /\ errorCb \in [Loops -> {"unset", "changing", "set"}]
    /\ refused \in [Loops -> BOOLEAN]
    /\ wanted \in [Loops -> BOOLEAN]
    /\ control \in ControlSteps
    /\ target \in Loops \cup {NoLoop}
    /\ afterJoin \in {"idle", "spawn", "close"}
    /\ keepRunning \in BOOLEAN
    /\ mutex \in Loops \cup {Control, Other, NoThread}
    /\ pending \in 0 .. MaxPending
    /\ errors \in 0 .. MaxErrors
    /\ bus \in {"open", "closed"}
    /\ crash \in {"none", "noErrorCallback", "callbackRace", "joinedSelf",
                  "callbackThrew", "destroyedJoinable"}

Init ==
    /\ created = {}
    /\ installed = NoLoop
    /\ running = [l \in Loops |-> FALSE]
    /\ actuallyRunning = [l \in Loops |-> FALSE]
    /\ joinable = [l \in Loops |-> FALSE]
    /\ at = [l \in Loops |-> "none"]
    /\ errorCb = [l \in Loops |-> "unset"]
    /\ refused = [l \in Loops |-> FALSE]
    /\ wanted = [l \in Loops |-> FALSE]
    /\ control = "idle"
    /\ target = NoLoop
    /\ afterJoin = "idle"
    /\ keepRunning = FALSE
    /\ mutex = NoThread
    /\ pending = 0
    /\ errors = 0
    /\ bus = "open"
    /\ crash = "none"

Alive == crash = "none"
Idle == Alive /\ control = "idle"
Has(habit) == habit \in Habits
MayStop == mutex # Control \/ Has("stopWithMutex")

-----------------------------------------------------------------------------
(* The controlling thread. *)

\* busy_loop::busy_loop, which leaves running_ uninitialised.
Create(l) ==
    /\ Idle
    /\ l \notin created
    /\ created' = created \cup {l}
    /\ running' \in {[running EXCEPT ![l] = b] : b \in BOOLEAN}
    /\ actuallyRunning' = [actuallyRunning EXCEPT ![l] = FALSE]
    /\ errorCb' = [errorCb EXCEPT ![l] = "unset"]
    /\ at' = [at EXCEPT ![l] = "none"]
    /\ refused' = [refused EXCEPT ![l] = FALSE]
    /\ UNCHANGED <<installed, joinable, controlVars, busVars, keepRunning,
                   mutex, bus, crash>>

\* error_callback assigns a std::function, which takes time that matters when the
\* loop's thread may read it meanwhile.
SetErrorCallback(l) ==
    /\ Idle
    /\ l \in created
    /\ errorCb[l] = "unset"
    /\ IF joinable[l]
       THEN /\ Has("setLate")
            /\ errorCb' = [errorCb EXCEPT ![l] = "changing"]
            /\ control' = "assign"
       ELSE /\ errorCb' = [errorCb EXCEPT ![l] = "set"]
            /\ UNCHANGED control
    /\ target' = l
    /\ UNCHANGED <<objectVars, flagVars, threadVars, afterJoin, wanted, busVars,
                   keepRunning, mutex, bus, crash>>

ErrorCallbackSet ==
    /\ Alive
    /\ control = "assign"
    /\ control' = "idle"
    /\ errorCb' = [errorCb EXCEPT ![target] = "set"]
    /\ UNCHANGED <<objectVars, flagVars, threadVars, target, afterJoin, wanted,
                   busVars, keepRunning, mutex, bus, crash>>

\* The application uses mutex() for calls of its own to sd-bus.
TakeMutex ==
    /\ Idle
    /\ mutex = NoThread
    /\ mutex' = Control
    /\ UNCHANGED <<objectVars, flagVars, threadVars, controlVars, busVars,
                   keepRunning, errorCb, bus, crash>>

LeaveMutex ==
    /\ Idle
    /\ mutex = Control
    /\ mutex' = NoThread
    /\ UNCHANGED <<objectVars, flagVars, threadVars, controlVars, busVars,
                   keepRunning, errorCb, bus, crash>>

Command(l, next) ==
    /\ Idle
    /\ l \in created
    /\ MayStop
    /\ control' = next
    /\ target' = l

NotWanted(l) == wanted' = [wanted EXCEPT ![l] = FALSE]

\* Nothing else uses the same bus in two loops at once.
Start(l) ==
    /\ joinable[l] => Has("restart")
    /\ \A k \in Loops \ {l} : ~joinable[k]
    /\ Command(l, "startRunning")
    /\ NotWanted(l)
    /\ UNCHANGED <<objectVars, flagVars, threadVars, afterJoin, busVars,
                   keepRunning, errorCb, mutex, bus, crash>>

\* install_event_loop: the loop installed before is destroyed and its identity is
\* free for a new one, or that is fatal because its thread was not joined; the
\* new one is started if it is not running.
Install(l) ==
    /\ l # installed
    /\ joinable[l] /\ l \in Refusing => Has("restart")
    /\ \A k \in Loops \ {l} : joinable[k] => k = installed /\ Has("replace")
    /\ IF actuallyRunning[l]
       THEN Command(l, "idle") /\ UNCHANGED wanted
       ELSE Command(l, "startRunning") /\ NotWanted(l)
    /\ crash' = IF installed # NoLoop /\ joinable[installed]
                THEN "destroyedJoinable" ELSE crash
    /\ installed' = l
    /\ created' = created \ {installed}
    /\ UNCHANGED <<joinable, flagVars, threadVars, afterJoin,
                   busVars, keepRunning, errorCb, mutex, bus>>

StartRunning ==
    /\ Alive
    /\ control = "startRunning"
    /\ control' = "startActual"
    /\ running' = [running EXCEPT ![target] = TRUE]
    /\ UNCHANGED <<objectVars, actuallyRunning, threadVars, target, afterJoin,
                   wanted, busVars, keepRunning, errorCb, mutex, bus, crash>>

StartActual ==
    /\ Alive
    /\ control = "startActual"
    /\ control' = "startCheck"
    /\ actuallyRunning' = [actuallyRunning EXCEPT ![target] = TRUE]
    /\ UNCHANGED <<objectVars, running, threadVars, target, afterJoin, wanted,
                   busVars, keepRunning, errorCb, mutex, bus, crash>>

\* mutant: running_ is not cleared
StopFlag_Kept(l) == running

StopFlag(l) == [running EXCEPT ![l] = FALSE]

\* stop(): running_ is cleared, and the thread joined if there is one.
StopThen(l, next) ==
    /\ running' = StopFlag(l)
    /\ control' = IF joinable[l] THEN "join" ELSE next
    /\ afterJoin' = IF joinable[l] THEN next ELSE afterJoin

\* mutant: start() stops the loop whether there is a thread or not
StartCheck_AlwaysStops ==
    /\ Alive
    /\ control = "startCheck"
    /\ StopThen(target, "spawn")
    /\ UNCHANGED <<objectVars, actuallyRunning, threadVars, target, wanted,
                   busVars, keepRunning, errorCb, mutex, bus, crash>>

\* if (loop_thread_.joinable()) stop(); running_ was set before.
StartCheck ==
    /\ Alive
    /\ control = "startCheck"
    /\ IF joinable[target]
       THEN StopThen(target, "spawn")
       ELSE control' = "spawn" /\ UNCHANGED <<running, afterJoin>>
    /\ UNCHANGED <<objectVars, actuallyRunning, threadVars, target, wanted,
                   busVars, keepRunning, errorCb, mutex, bus, crash>>

Spawn ==
    /\ Alive
    /\ control = "spawn"
    /\ control' = "idle"
    /\ joinable' = [joinable EXCEPT ![target] = TRUE]
    /\ at' = [at EXCEPT ![target] = "head"]
    /\ refused' = [refused EXCEPT ![target] = FALSE]
    /\ wanted' = [wanted EXCEPT ![target] = TRUE]
    /\ UNCHANGED <<created, installed, flagVars, target, afterJoin,
                   busVars, keepRunning, errorCb, mutex, bus, crash>>

Stop(l) ==
    /\ Idle
    /\ l \in created
    /\ MayStop
    /\ StopThen(l, "idle")
    /\ target' = l
    /\ NotWanted(l)
    /\ UNCHANGED <<objectVars, actuallyRunning, threadVars, busVars,
                   keepRunning, errorCb, mutex, bus, crash>>

\* mutant: the thread is detached instead of joined
Join_NoWait ==
    /\ Alive
    /\ control = "join"
    /\ joinable' = [joinable EXCEPT ![target] = FALSE]
    /\ control' = afterJoin
    /\ UNCHANGED <<created, installed, flagVars, threadVars,
                   target, afterJoin, wanted, busVars, keepRunning, errorCb,
                   mutex, bus, crash>>

Join ==
    /\ Alive
    /\ control = "join"
    /\ at[target] = "ended"
    /\ joinable' = [joinable EXCEPT ![target] = FALSE]
    /\ control' = afterJoin
    /\ UNCHANGED <<created, installed, flagVars, threadVars,
                   target, afterJoin, wanted, busVars, keepRunning, errorCb,
                   mutex, bus, crash>>

\* ~dbus, when no other thread is in a call.  A careful application has called
\* stop() itself, unless it knows that its error callback never ends the loop.
Destroy ==
    /\ Idle
    /\ MayStop
    /\ mutex # Other
    /\ \A l \in Loops : joinable[l] =>
           l = installed /\ (l \in Refusing => Has("destroy"))
    /\ control' = "destroyCheck"
    /\ target' = installed
    /\ wanted' = [l \in Loops |-> FALSE]
    /\ UNCHANGED <<objectVars, flagVars, threadVars, afterJoin, busVars,
                   keepRunning, errorCb, mutex, bus, crash>>

\* mutant: the destructor does not look at the loop
DestructorStops_Never == FALSE

\* if (event_loop_ && event_loop_->is_running())
DestructorStops == target # NoLoop /\ actuallyRunning[target]

DestroyCheck ==
    /\ Alive
    /\ control = "destroyCheck"
    /\ IF DestructorStops
       THEN StopThen(target, "close")
       ELSE control' = "close" /\ UNCHANGED <<running, afterJoin>>
    /\ UNCHANGED <<objectVars, actuallyRunning, threadVars, target, wanted,
                   busVars, keepRunning, errorCb, mutex, bus, crash>>

\* sd_bus_flush, sd_bus_close, sd_bus_unref.
Close ==
    /\ Alive
    /\ control = "close"
    /\ control' = "destroyMembers"
    /\ bus' = "closed"
    /\ UNCHANGED <<objectVars, flagVars, threadVars, target, afterJoin,
                   wanted, busVars, keepRunning, errorCb, mutex, crash>>

\* event_loop_ is destroyed: ~thread on a joinable thread is fatal.
DestroyMembers ==
    /\ Alive
    /\ control = "destroyMembers"
    /\ control' = "gone"
    /\ crash' = IF target # NoLoop /\ joinable[target]
                THEN "destroyedJoinable" ELSE crash
    /\ UNCHANGED <<objectVars, flagVars, threadVars, target, afterJoin,
                   wanted, busVars, keepRunning, errorCb, mutex, bus>>

-----------------------------------------------------------------------------
(* Another thread of the application, which may call until ~dbus begins. *)

KeepLoops == UNCHANGED <<objectVars, flagVars, threadVars, target, afterJoin,
                         wanted, errorCb, bus, crash>>

Destroying ==
    \/ control \in {"destroyCheck", "close", "destroyMembers", "gone"}
    \/ control = "join" /\ afterJoin = "close"

\* call_method and the others take the mutex, and leave it when they return.
OtherCalls ==
    /\ Alive
    /\ ~Destroying
    /\ mutex = NoThread
    /\ mutex' = Other
    /\ UNCHANGED <<control, busVars, keepRunning>>
    /\ KeepLoops

OtherReturns ==
    /\ Alive
    /\ mutex = Other
    /\ mutex' = NoThread
    /\ UNCHANGED <<control, busVars, keepRunning>>
    /\ KeepLoops

-----------------------------------------------------------------------------
(* dbus::busy_loop: a loop in the controlling thread. *)

BlockingStep(from, to) ==
    /\ Alive
    /\ control = from
    /\ control' = to

\* The application sets the flag and calls busy_loop, without the mutex.
RunBlocking ==
    /\ BlockingStep("idle", "blockHead")
    /\ mutex # Control
    /\ keepRunning' = TRUE
    /\ UNCHANGED <<busVars, mutex>>
    /\ KeepLoops

\* A callback or another thread clears the flag.
ClearKeepRunning ==
    /\ Alive
    /\ control \in BlockingSteps
    /\ keepRunning' = FALSE
    /\ UNCHANGED <<control, busVars, mutex>>
    /\ KeepLoops

BlockingHead ==
    /\ keepRunning
    /\ mutex = NoThread
    /\ BlockingStep("blockHead", "blockProcess")
    /\ mutex' = Control
    /\ UNCHANGED <<keepRunning, busVars>>
    /\ KeepLoops

BlockingReturns ==
    /\ ~keepRunning
    /\ BlockingStep("blockHead", "idle")
    /\ UNCHANGED <<keepRunning, busVars, mutex>>
    /\ KeepLoops

BlockingProcesses ==
    /\ pending > 0
    /\ pending' = pending - 1
    /\ BlockingStep("blockProcess", "blockHead")
    /\ mutex' = NoThread
    /\ UNCHANGED <<keepRunning, errors>>
    /\ KeepLoops

BlockingProcessesNothing ==
    /\ pending = 0
    /\ BlockingStep("blockProcess", "blockWait")
    /\ mutex' = NoThread
    /\ UNCHANGED <<keepRunning, busVars>>
    /\ KeepLoops

\* mutant: a bad message ends the loop
AfterBadMessage_Idle == "idle"

AfterBadMessage == "blockHead"

\* The error -74 (a message that cannot be parsed) is passed over.
BlockingBadMessage ==
    /\ errors < MaxErrors
    /\ errors' = errors + 1
    /\ BlockingStep("blockProcess", AfterBadMessage)
    /\ mutex' = NoThread
    /\ UNCHANGED <<keepRunning, pending>>
    /\ KeepLoops

\* Any other error of sd_bus_process, or one of sd_bus_wait, is thrown.
BlockingThrows ==
    /\ errors < MaxErrors
    /\ errors' = errors + 1
    /\ \E from \in {"blockProcess", "blockWait"} : BlockingStep(from, "blockThrow")
    /\ mutex' = IF control = "blockProcess" THEN NoThread ELSE mutex
    /\ UNCHANGED <<keepRunning, pending>>
    /\ KeepLoops

\* The application catches the exception.
BlockingCaught ==
    /\ BlockingStep("blockThrow", "idle")
    /\ keepRunning' = FALSE
    /\ UNCHANGED <<busVars, mutex>>
    /\ KeepLoops

\* sd_bus_wait, for 500 ms at most.
BlockingWaitOver ==
    /\ BlockingStep("blockWait", "blockHead")
    /\ UNCHANGED <<keepRunning, busVars, mutex>>
    /\ KeepLoops

BlockingLoop ==
    \/ BlockingHead
    \/ BlockingReturns
    \/ BlockingProcesses
    \/ BlockingProcessesNothing
    \/ BlockingBadMessage
    \/ BlockingThrows
    \/ BlockingCaught
    \/ BlockingWaitOver

-----------------------------------------------------------------------------
(* The thread of a loop. *)

ThreadStep(l, from, to) ==
    /\ Alive
    /\ at[l] = from
    /\ at' = [at EXCEPT ![l] = to]

KeepControl ==
    UNCHANGED <<objectVars, running, controlVars, keepRunning, errorCb, bus>>

\* for (;running_.load();): what it reads may have changed when the mutex is free.
Head(l) ==
    /\ running[l]
    /\ ThreadStep(l, "head", "lock")
    /\ UNCHANGED <<actuallyRunning, refused, busVars, mutex, crash>>
    /\ KeepControl

LoopLock(l) ==
    /\ mutex = NoThread
    /\ ThreadStep(l, "lock", "process")
    /\ mutex' = l
    /\ UNCHANGED <<actuallyRunning, refused, busVars, crash>>
    /\ KeepControl

LeaveFor(l) ==
    /\ ~running[l]
    /\ ThreadStep(l, "head", "leaving")
    /\ UNCHANGED <<actuallyRunning, refused, busVars, mutex, crash>>
    /\ KeepControl

\* mutant: a message is handed out that did not come in
ProcessMessage_Unchecked(l) ==
    /\ pending' = pending - 1
    /\ \E next \in {"head", "message"} : ThreadStep(l, "process", next)
    /\ mutex' = NoThread
    /\ UNCHANGED <<actuallyRunning, refused, errors, crash>>
    /\ KeepControl

\* sd_bus_process handled a message, and may hand it out.
ProcessMessage(l) ==
    /\ pending > 0
    /\ pending' = pending - 1
    /\ \E next \in {"head", "message"} : ThreadStep(l, "process", next)
    /\ mutex' = NoThread
    /\ UNCHANGED <<actuallyRunning, refused, errors, crash>>
    /\ KeepControl

ProcessNothing(l) ==
    /\ pending = 0
    /\ ThreadStep(l, "process", "wait")
    /\ mutex' = NoThread
    /\ UNCHANGED <<actuallyRunning, refused, busVars, crash>>
    /\ KeepControl

ProcessFails(l) ==
    /\ errors < MaxErrors
    /\ errors' = errors + 1
    /\ ThreadStep(l, "process", "failed")
    /\ mutex' = NoThread
    /\ UNCHANGED <<actuallyRunning, refused, pending, crash>>
    /\ KeepControl

\* message_cb_ runs without the mutex.
MessageCallback(l) ==
    /\ ThreadStep(l, "message", "head")
    /\ UNCHANGED <<actuallyRunning, refused, busVars, mutex, crash>>
    /\ KeepControl

\* stop() in message_cb_ joins its own thread, which throws system_error; nothing
\* catches that, nor what message_cb_ or error_cb_ throws itself.
CallbackThrows(l) ==
    /\ \/ /\ Has("stopInCallback")
          /\ ThreadStep(l, "message", "ended")
          /\ crash' = "joinedSelf"
       \/ /\ Has("throwInCallback")
          /\ \/ ThreadStep(l, "message", "ended")
             \/ errorCb[l] # "unset" /\ ThreadStep(l, "failed", "ended")
          /\ crash' = "callbackThrew"
    /\ UNCHANGED <<actuallyRunning, refused, busVars, mutex>>
    /\ KeepControl

\* sd_bus_wait, without the mutex, for the idle delay at most.
WaitOver(l) ==
    /\ ThreadStep(l, "wait", "head")
    /\ UNCHANGED <<actuallyRunning, refused, busVars, mutex, crash>>
    /\ KeepControl

WaitFails(l) ==
    /\ errors < MaxErrors
    /\ errors' = errors + 1
    /\ ThreadStep(l, "wait", "failed")
    /\ UNCHANGED <<actuallyRunning, refused, pending, mutex, crash>>
    /\ KeepControl

\* No error callback: the exception leaves the thread.  One that is being
\* assigned is read as unset, as set, or half assigned.
NoErrorCallback(l) ==
    /\ errorCb[l] # "set"
    /\ ThreadStep(l, "failed", "ended")
    /\ crash' \in {"noErrorCallback"} \cup
                  (IF errorCb[l] = "changing" THEN {"callbackRace"} ELSE {})
    /\ UNCHANGED <<actuallyRunning, refused, busVars, mutex>>
    /\ KeepControl

\* mutant: the loop ends after an error whatever the callback says
AfterError_AlwaysLeaves == "leaving"

AfterError == "head"

ErrorCallbackContinues(l) ==
    /\ errorCb[l] # "unset"
    /\ ThreadStep(l, "failed", AfterError)
    /\ UNCHANGED <<actuallyRunning, refused, busVars, mutex, crash>>
    /\ KeepControl

ErrorCallbackRefuses(l) ==
    /\ errorCb[l] # "unset"
    /\ l \in Refusing
    /\ ThreadStep(l, "failed", "leaving")
    /\ refused' = [refused EXCEPT ![l] = TRUE]
    /\ UNCHANGED <<actuallyRunning, busVars, mutex, crash>>
    /\ KeepControl

\* mutant: actually_running_ stays set when the thread ends
EndFlag_Kept(l) == actuallyRunning

EndFlag(l) == [actuallyRunning EXCEPT ![l] = FALSE]

\* actually_running_ = false
End(l) ==
    /\ ThreadStep(l, "leaving", "ended")
    /\ actuallyRunning' = EndFlag(l)
    /\ UNCHANGED <<refused, busVars, mutex, crash>>
    /\ KeepControl

-----------------------------------------------------------------------------

\* A message comes in.
Arrive ==
    /\ Alive
    /\ bus = "open"
    /\ pending < MaxPending
    /\ pending' = pending + 1
    /\ UNCHANGED <<objectVars, flagVars, threadVars, controlVars, errors,
                   keepRunning, errorCb, mutex, bus, crash>>

Finished ==
    /\ control = "gone" \/ ~Alive
    /\ UNCHANGED vars

ControlStep ==
    \/ ErrorCallbackSet
    \/ StartRunning
    \/ StartActual
    \/ StartCheck
    \/ Spawn
    \/ Join
    \/ DestroyCheck
    \/ Close
    \/ DestroyMembers

Commands ==
    \/ \E l \in Loops : Create(l)
    \/ \E l \in Loops : SetErrorCallback(l)
    \/ TakeMutex
    \/ LeaveMutex
    \/ \E l \in Loops : Start(l)
    \/ \E l \in Loops : Install(l)
    \/ \E l \in Loops : Stop(l)
    \/ Destroy

LoopThread(l) ==
    \/ Head(l)
    \/ LoopLock(l)
    \/ LeaveFor(l)
    \/ ProcessMessage(l)
    \/ ProcessNothing(l)
    \/ ProcessFails(l)
    \/ MessageCallback(l)
    \/ CallbackThrows(l)
    \/ WaitOver(l)
    \/ WaitFails(l)
    \/ NoErrorCallback(l)
    \/ ErrorCallbackContinues(l)
    \/ ErrorCallbackRefuses(l)
    \/ End(l)

Next ==
    \/ Commands
    \/ ControlStep
    \/ OtherCalls
    \/ OtherReturns
    \/ RunBlocking
    \/ ClearKeepRunning
    \/ BlockingLoop
    \/ \E l \in Loops : LoopThread(l)
    \/ Arrive
    \/ Finished

Spec == Init /\ [][Next]_vars

\* Threads are scheduled; sd_bus_process, sd_bus_wait (bounded by the idle delay)
\* and the callbacks return; the threads of the application leave the mutex again,
\* and a loop that asks for it gets it when it becomes free again and again.
Fairness ==
    /\ WF_vars(ControlStep)
    /\ WF_vars(BlockingLoop)
    /\ SF_vars(BlockingHead)
    /\ WF_vars(LeaveMutex)
    /\ WF_vars(OtherReturns)
    /\ \A l \in Loops :
          /\ WF_vars(LoopThread(l))
          /\ SF_vars(LoopLock(l))

FairSpec == Spec /\ Fairness

-----------------------------------------------------------------------------
(* Properties. *)

\* A loop whose last command was start() is in its loop, and stays there until
\* stop() or until its error callback ends it.
StartedLoopRuns ==
    \A l \in Loops : wanted[l] /\ Alive =>
        /\ running[l]
        /\ at[l] \in {"leaving", "ended"} => refused[l]

\* Between two commands is_running() tells whether the thread is in the loop,
\* whoever ended it.
IsRunningIsAccurate ==
    Idle => \A l \in Loops :
                actuallyRunning[l] <=> at[l] \notin {"none", "ended"}

\* No thread uses the connection after it was closed.
ClosedBusIsUnused ==
    bus = "closed" => \A l \in Loops : at[l] \in {"none", "ended"}

\* The process is lost to nothing but what the application did.  An error came and
\* its loop had no error callback, which busy_loop.hpp documents, or one that was
\* being assigned while the thread was there; a callback threw, or stopped its own
\* loop; a loop was replaced whose thread was not joined; or ~dbus came after an error
\* callback had ended the loop.  A careful application only knows the first.
CrashesAreEarned ==
    /\ crash = "noErrorCallback" =>
          \E l \in Loops : joinable[l] /\ at[l] = "ended" /\ errorCb[l] # "set"
    /\ crash = "callbackRace" =>
          Has("setLate") /\ \E l \in Loops : joinable[l] /\ errorCb[l] = "changing"
    /\ crash = "joinedSelf" => Has("stopInCallback")
    /\ crash = "callbackThrew" => Has("throwInCallback")
    /\ crash = "destroyedJoinable" =>
          IF control = "gone"
          THEN Has("destroy") /\ refused[target] /\ at[target] = "ended"
          ELSE Has("replace") /\ \E l \in Loops \ created : joinable[l]

\* bus.hpp: the destructor cleans up gracefully.
GracefulDestruction == crash # "destroyedJoinable"

\* stop(), the stop() in start() and the one in the destructor end; so does
\* dbus::busy_loop when its flag is cleared.
StopEnds ==
    /\ control = "join" ~> control # "join" \/ ~Alive
    /\ ~keepRunning /\ control \in BlockingSteps
          ~> control \notin BlockingSteps \/ ~Alive

\* How far the thread of a loop whose running_ is false is from its end, at most.
StepsLeft(step) ==
    CASE step = "lock" -> 6
      [] step = "process" -> 5
      [] step = "wait" -> 4
      [] step \in {"message", "failed"} -> 3
      [] step = "head" -> 2
      [] step = "leaving" -> 1
      [] OTHER -> 0

\* What stop() needs to end: the thread it joins waits for a mutex only while another
\* thread is in a call, which ends without it, and never for one that the caller of
\* stop() or another loop holds; and whatever the connection and the callbacks do
\* meanwhile, every step it takes brings it nearer to its end.
StopIsNear ==
    /\ [](control = "join" /\ Alive /\ at[target] = "lock"
             => mutex \in {NoThread, Other})
    /\ [][control = "join" /\ at[target]' # at[target]
               => StepsLeft(at[target]') < StepsLeft(at[target])]_vars

\* A loop that was started drains the connection: a full queue does not stay
\* full.  dbus::busy_loop does the same, whatever bad messages come in, until its
\* flag is cleared or it throws.
MessagesAreProcessed ==
    /\ \A l \in Loops :
          pending = MaxPending /\ wanted[l] ~>
              pending < MaxPending \/ ~wanted[l] \/ refused[l] \/ ~Alive
    /\ pending = MaxPending /\ control \in BlockingSteps ~>
          pending < MaxPending \/ ~keepRunning \/ control = "blockThrow" \/ ~Alive
=============================================================================

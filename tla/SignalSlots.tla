----------------------------- MODULE SignalSlots -----------------------------
(***************************************************************************)
(* Signal listeners of one dbus connection.                                *)
(*                                                                         *)
(* install_signal_listener (bindings/bus.hpp) allocates a slot object,     *)
(* gives its address to sd-bus, and either keeps it in unnamed_slots_ or   *)
(* releases it to the application, which deletes it when it likes.  The    *)
(* thread of the event loop runs sd_bus_process, from which sd-bus calls   *)
(* dbus_mock_signal_callback (bindings/bus.cpp) with that address.         *)
(* Listeners are installed and deleted by threads of the application and   *)
(* by callbacks in the thread of the loop.                                 *)
(*                                                                         *)
(* How a callback behaves and whether a message can be read is chosen      *)
(* afresh each time; Habits says what the application does that the        *)
(* interface permits but that a careful one avoids.                        *)
(***************************************************************************)
EXTENDS Naturals, Sequences, FiniteSets

CONSTANTS
    Users,       \* threads of the application
    LoopThread,
    NoThread,
    Slots,       \* slot objects (a bound on the listeners that are installed)
    NoSlot,
    Signals,
    Messages,    \* signal messages (a bound on the number that is emitted)
    NoMessage,
    SignalOf,    \* the signal a message carries
    Habits       \* careless habits of the application

Threads == Users \cup {LoopThread}

AllHabits == {"plainDelete",      \* a released slot is deleted without mutex()
              "badErrorCallback"} \* an error callback is omitted or throws

ASSUME SlotsAssumption ==
    /\ LoopThread \notin Users
    /\ NoThread \notin Threads
    /\ NoSlot \notin Slots
    /\ NoMessage \notin Messages
    /\ SignalOf \in [Messages -> Signals]
    /\ Habits \subseteq AllHabits

VARIABLES
    owner, depth, \* sdbus_lock_, a recursive mutex
    pc,           \* per thread: its next statement
    work,         \* per thread: the slot object it installs or deletes
    object,       \* per slot object: the life of its memory
    signal,       \* per slot object: the signal it listens to
    matches,      \* sd-bus: slot objects whose address it holds
    kept,         \* unnamed_slots_
    released,     \* slot objects the application owns
    queue,        \* sd-bus: messages that came in
    status,       \* per message
    due,          \* per message: who listened when it was emitted
    callees,      \* per message: slot objects sd-bus called for it
    told,         \* per message: callbacks of the application that were entered
    loop,         \* the next statement of the loop's thread
    message,      \* the message that is processed
    current,      \* the slot object whose handler runs
    running,      \* busy_loop::running_
    phase,        \* the life of the dbus object
    crashed       \* std::terminate was called

lockVars == <<owner, depth>>
threadVars == <<pc, work>>
slotVars == <<object, signal, matches, kept, released>>
messageVars == <<queue, status, due, callees, told>>
loopVars == <<loop, message, current>>
lifeVars == <<running, phase, crashed>>
vars == <<lockVars, threadVars, slotVars, messageVars, loopVars, lifeVars>>

PcValues == {"idle", "match", "publish", "unref", "free", "plainUnref",
             "plainFree"}
HandlerSteps == {"unpack", "misread", "onFail", "callback", "errTry", "catch",
                 "errCatch", "release"}
LoopValues == {"head", "process", "dispatch", "wait", "exited"} \cup HandlerSteps

TypeOK ==
    /\ owner \in Threads \cup {NoThread}
    /\ depth \in Nat
    /\ pc \in [Threads -> PcValues]
    /\ work \in [Threads -> Slots \cup {NoSlot}]
    /\ object \in [Slots -> {"none", "live", "freed"}]
    /\ signal \in [Slots -> Signals]
    /\ matches \subseteq Slots
    /\ kept \subseteq Slots
    /\ released \subseteq Slots
    /\ queue \in Seq(Messages)
    /\ status \in [Messages -> {"new", "queued", "processed", "done"}]
    /\ due \in [Messages -> SUBSET Slots]
    /\ callees \in [Messages -> SUBSET Slots]
    /\ told \in [Messages -> Nat]
    /\ loop \in LoopValues
    /\ message \in Messages \cup {NoMessage}
    /\ current \in Slots \cup {NoSlot}
    /\ running \in BOOLEAN
    /\ phase \in {"alive", "stopping", "dead"}
    /\ crashed \in BOOLEAN

Init ==
    /\ owner = NoThread
    /\ depth = 0
    /\ pc = [t \in Threads |-> "idle"]
    /\ work = [t \in Threads |-> NoSlot]
    /\ object = [s \in Slots |-> "none"]
    /\ signal \in [Slots -> Signals]
    /\ matches = {}
    /\ kept = {}
    /\ released = {}
    /\ queue = <<>>
    /\ status = [m \in Messages |-> "new"]
    /\ due = [m \in Messages |-> {}]
    /\ callees = [m \in Messages |-> {}]
    /\ told = [m \in Messages |-> 0]
    /\ loop = "head"
    /\ message = NoMessage
    /\ current = NoSlot
    /\ running = TRUE
    /\ phase = "alive"
    /\ crashed = FALSE

Has(habit) == habit \in Habits

-----------------------------------------------------------------------------
(* The recursive mutex. *)

Lock(t) ==
    /\ owner \in {NoThread, t}
    /\ owner' = t
    /\ depth' = depth + 1

Unlock ==
    /\ depth' = depth - 1
    /\ owner' = IF depth = 1 THEN NoThread ELSE owner

-----------------------------------------------------------------------------
(* Installing a listener. *)

InUserCode == loop \in {"callback", "errTry", "errCatch"}

\* The loop's thread runs code of the application in a callback only; nobody may
\* use the connection once its destructor has begun.
MayUseBus(t) == IF t = LoopThread THEN InUserCode ELSE phase = "alive"

Step(t, from, to) ==
    /\ ~crashed
    /\ pc[t] = from
    /\ pc' = [pc EXCEPT ![t] = to]

\* The scoped_lock, and new slot <FunctionT>.
Install(t, s) ==
    /\ MayUseBus(t)
    /\ object[s] = "none"
    /\ Lock(t)
    /\ Step(t, "idle", "match")
    /\ work' = [work EXCEPT ![t] = s]
    /\ object' = [object EXCEPT ![s] = "live"]
    /\ UNCHANGED <<signal, matches, kept, released, messageVars, loopVars,
                   lifeVars>>

MatchSucceeds(t) ==
    /\ Step(t, "match", "publish")
    /\ matches' = matches \cup {work[t]}
    /\ UNCHANGED <<lockVars, work, object, signal, kept, released, messageVars,
                   loopVars, lifeVars>>

\* The exception destroys slo, whose ptr_ is still null.
MatchFails(t) ==
    /\ Step(t, "match", "idle")
    /\ work' = [work EXCEPT ![t] = NoSlot]
    /\ object' = [object EXCEPT ![work[t]] = "freed"]
    /\ Unlock
    /\ UNCHANGED <<signal, matches, kept, released, messageVars, loopVars,
                   lifeVars>>

\* mutant: the slot object is neither kept nor given away, and dies here
Keep_Forgotten(t) ==
    /\ object' = [object EXCEPT ![work[t]] = "freed"]
    /\ UNCHANGED <<kept, released>>

\* The slot object goes to unnamed_slots_ or to the caller.
Keep(t) ==
    /\ \/ kept' = kept \cup {work[t]} /\ UNCHANGED released
       \/ released' = released \cup {work[t]} /\ UNCHANGED kept
    /\ UNCHANGED object

\* slotObject.reset(s), and the object gets its owner.
Publish(t) ==
    /\ Step(t, "publish", "idle")
    /\ work' = [work EXCEPT ![t] = NoSlot]
    /\ Keep(t)
    /\ Unlock
    /\ UNCHANGED <<signal, matches, messageVars, loopVars, lifeVars>>

-----------------------------------------------------------------------------
(* Deleting a released slot object: ~slot calls sd_bus_slot_unref, then the *)
(* members are destroyed and the memory is freed.                           *)

TakeReleased(t, s) ==
    /\ s \in released
    /\ released' = released \ {s}
    /\ work' = [work EXCEPT ![t] = s]
    /\ UNCHANGED <<object, signal, matches, kept, messageVars, loopVars, lifeVars>>

\* A careful application takes mutex() and does not delete the listener whose
\* callback it is in.
DeleteWithMutex(t, s) ==
    /\ MayUseBus(t)
    /\ t = LoopThread => s # current
    /\ Lock(t)
    /\ Step(t, "idle", "unref")
    /\ TakeReleased(t, s)

\* Without the mutex: a habit, and the only way when the dbus object is gone.
DeletePlainly(t, s) ==
    /\ IF phase = "alive" THEN Has("plainDelete") ELSE phase = "dead"
    /\ t # LoopThread
    /\ Step(t, "idle", "plainUnref")
    /\ TakeReleased(t, s)
    /\ UNCHANGED lockVars

\* mutant: the pointer is forgotten before it is given back
Unmatch_Forgotten(s) == matches

Unmatch(s) == matches \ {s}

Unref(t, from, to) ==
    /\ Step(t, from, to)
    /\ matches' = Unmatch(work[t])
    /\ UNCHANGED <<lockVars, work, object, signal, kept, released, messageVars,
                   loopVars, lifeVars>>

UnrefWithMutex(t) == Unref(t, "unref", "free")
UnrefPlainly(t) == Unref(t, "plainUnref", "plainFree")

Free(t) ==
    /\ object' = [object EXCEPT ![work[t]] = "freed"]
    /\ work' = [work EXCEPT ![t] = NoSlot]
    /\ UNCHANGED <<signal, matches, kept, released, messageVars, loopVars,
                   lifeVars>>

FreeWithMutex(t) ==
    /\ Step(t, "free", "idle")
    /\ Free(t)
    /\ Unlock

FreePlainly(t) ==
    /\ Step(t, "plainFree", "idle")
    /\ Free(t)
    /\ UNCHANGED lockVars

-----------------------------------------------------------------------------
(* The other side of the connection. *)

Listeners(sig) == {s \in matches : signal[s] = sig}

\* The bus sends a signal to the connections that have a match for it.
Emit(m) ==
    /\ ~crashed
    /\ phase # "dead"
    /\ status[m] = "new"
    /\ Listeners(SignalOf[m]) # {}
    /\ status' = [status EXCEPT ![m] = "queued"]
    /\ due' = [due EXCEPT ![m] = Listeners(SignalOf[m])]
    /\ queue' = Append(queue, m)
    /\ UNCHANGED <<lockVars, threadVars, slotVars, callees, told, loopVars,
                   lifeVars>>

-----------------------------------------------------------------------------
(* The event loop's thread, on a connection that works. *)

LoopStep(from, to) ==
    /\ ~crashed
    /\ pc[LoopThread] = "idle"
    /\ loop = from
    /\ loop' = to

StayInLoop == UNCHANGED <<threadVars, slotVars, due, told, lifeVars>>

LoopExit ==
    /\ ~running
    /\ LoopStep("head", "exited")
    /\ UNCHANGED <<lockVars, queue, status, callees, message, current>>
    /\ StayInLoop

\* mutant: sd_bus_process is called without the mutex
LoopGuard_Missing == UNCHANGED lockVars

LoopGuard == Lock(LoopThread)

LoopLock ==
    /\ running
    /\ LoopStep("head", "process")
    /\ LoopGuard
    /\ UNCHANGED <<queue, status, callees, message, current>>
    /\ StayInLoop

ProcessNothing ==
    /\ queue = <<>>
    /\ LoopStep("process", "wait")
    /\ Unlock
    /\ UNCHANGED <<queue, status, callees, message, current>>
    /\ StayInLoop

\* mutant: the loop ends after the first wait
AfterWait_Exit == "exited"

AfterWait == "head"

WaitOver ==
    /\ LoopStep("wait", AfterWait)
    /\ UNCHANGED <<lockVars, queue, status, callees, message, current>>
    /\ StayInLoop

ProcessMessage ==
    /\ queue # <<>>
    /\ LoopStep("process", "dispatch")
    /\ message' = Head(queue)
    /\ queue' = Tail(queue)
    /\ status' = [status EXCEPT ![Head(queue)] = "processed"]
    /\ UNCHANGED <<lockVars, callees, current>>
    /\ StayInLoop

Untried == Listeners(SignalOf[message]) \ callees[message]

\* sd-bus calls the matches of a message in an order of its own.  The handler
\* finds parameters that can be read, or not, or an error.
CallHandler(s) ==
    /\ \E first \in {"unpack", "misread", "onFail"} : LoopStep("dispatch", first)
    /\ s \in Untried
    /\ current' = s
    /\ callees' = [callees EXCEPT ![message] = @ \cup {s}]
    /\ UNCHANGED <<lockVars, queue, status, message>>
    /\ StayInLoop

EndProcess ==
    /\ status' = [status EXCEPT ![message] = "done"]
    /\ message' = NoMessage
    /\ Unlock

NoMoreHandlers ==
    /\ LoopStep("dispatch", "head")
    /\ Untried = {}
    /\ EndProcess
    /\ UNCHANGED <<queue, callees, current>>
    /\ StayInLoop

-----------------------------------------------------------------------------
(* dbus_mock_signal_callback. *)

StayInHandler ==
    UNCHANGED <<lockVars, threadVars, slotVars, queue, status, due, callees,
                message, current, running, phase>>

\* A callback of the application is called; it is told of the message.
Enter(from, to) ==
    /\ LoopStep(from, to)
    /\ told' = [told EXCEPT ![message] = @ + 1]
    /\ UNCHANGED crashed
    /\ StayInHandler

EnterCallback == Enter("unpack", "callback")
EnterErrInTry == Enter("onFail", "errTry")
EnterErrInCatch == Enter("catch", "errCatch")

\* mutant: an exception is swallowed
ThrownGoesTo_Release == "release"

\* Both handlers of the try block call on_fail.
ThrownGoesTo == "catch"

\* message::read throws, or a callback without target does.
UnpackThrows ==
    /\ \/ LoopStep("misread", ThrownGoesTo)
       \/ LoopStep("unpack", ThrownGoesTo)
       \/ LoopStep("onFail", ThrownGoesTo) /\ Has("badErrorCallback")
    /\ UNCHANGED <<told, crashed>>
    /\ StayInHandler

LeaveCallback ==
    /\ \/ \E next \in {"release", "catch"} : LoopStep("callback", next)
       \/ LoopStep("errTry", "release")
       \/ LoopStep("errTry", "catch") /\ Has("badErrorCallback")
       \/ LoopStep("errCatch", "release")
    /\ UNCHANGED <<told, crashed>>
    /\ StayInHandler

\* The error callback that is called for an exception throws: nothing catches it.
Escape ==
    /\ Has("badErrorCallback")
    /\ \E from \in {"catch", "errCatch"} : LoopStep(from, "exited")
    /\ crashed' = TRUE
    /\ UNCHANGED told
    /\ StayInHandler

\* mutant: the handler returns 0
AfterHandler_Continues ==
    /\ LoopStep("release", "dispatch")
    /\ UNCHANGED <<status, message, lockVars>>

\* The handler returns 1, or -1 after an exception: sd-bus calls no other one.
AfterHandler ==
    /\ LoopStep("release", "head")
    /\ EndProcess

HandlerReturns ==
    /\ AfterHandler
    /\ current' = NoSlot
    /\ UNCHANGED <<queue, callees>>
    /\ StayInLoop

-----------------------------------------------------------------------------
(* ~dbus. *)

StopLoop ==
    /\ ~crashed
    /\ phase = "alive"
    /\ \A t \in Users : pc[t] = "idle"
    /\ phase' = "stopping"
    /\ running' = FALSE
    /\ UNCHANGED <<lockVars, threadVars, slotVars, messageVars, loopVars, crashed>>

\* mutant: the slot objects are dropped, not destroyed
ClearedObject_Leaks(s) == object[s]

\* unnamed_slots_.clear() destroys every slot object in it.
ClearedObject(s) == IF s \in kept THEN "freed" ELSE object[s]

\* The loop's thread is joined, unnamed_slots_ cleared, the connection closed.
Destroy ==
    /\ ~crashed
    /\ phase = "stopping"
    /\ loop = "exited"
    /\ phase' = "dead"
    /\ object' = [s \in Slots |-> ClearedObject(s)]
    /\ matches' = matches \ kept
    /\ kept' = {}
    /\ UNCHANGED <<lockVars, threadVars, signal, released, messageVars,
                   loopVars, running, crashed>>

\* The program has ended.
Finished ==
    /\ phase = "dead" \/ crashed
    /\ UNCHANGED vars

-----------------------------------------------------------------------------

UserStep(t) ==
    \/ \E s \in Slots : Install(t, s)
    \/ MatchSucceeds(t)
    \/ MatchFails(t)
    \/ Publish(t)
    \/ \E s \in Slots : DeleteWithMutex(t, s)
    \/ \E s \in Slots : DeletePlainly(t, s)
    \/ UnrefWithMutex(t)
    \/ UnrefPlainly(t)
    \/ FreeWithMutex(t)
    \/ FreePlainly(t)

Loop ==
    \/ LoopExit
    \/ LoopLock
    \/ ProcessNothing
    \/ WaitOver
    \/ ProcessMessage
    \/ \E s \in Slots : CallHandler(s)
    \/ NoMoreHandlers
    \/ EnterCallback
    \/ EnterErrInTry
    \/ EnterErrInCatch
    \/ UnpackThrows
    \/ LeaveCallback
    \/ Escape
    \/ HandlerReturns

Next ==
    \/ \E t \in Threads : UserStep(t)
    \/ Loop
    \/ \E m \in Messages : Emit(m)
    \/ StopLoop
    \/ Destroy
    \/ Finished

Spec == Init /\ [][Next]_vars

\* Threads are scheduled and callbacks return; the loop asks for the mutex again
\* and again and gets it, as the threads of the application leave it.
UnlockStep(t) ==
    \/ MatchSucceeds(t)
    \/ MatchFails(t)
    \/ Publish(t)
    \/ UnrefWithMutex(t)
    \/ FreeWithMutex(t)
    \/ UnrefPlainly(t)
    \/ FreePlainly(t)

Fairness ==
    /\ \A t \in Threads : WF_vars(UnlockStep(t))
    /\ WF_vars(Loop)
    /\ SF_vars(LoopLock)

FairSpec == Spec /\ Fairness

-----------------------------------------------------------------------------
(* Properties. *)

\* Thread t is in sd_bus_wait, for which the loop does not take the mutex.
WaitsInBus(t) == t = LoopThread /\ loop = "wait"

\* Thread t reads or changes what sd-bus knows of the connection.
UsesBus(t) ==
    \/ pc[t] \in {"match", "publish", "unref", "plainUnref"} /\ phase = "alive"
    \/ t = LoopThread /\ loop \in {"process", "dispatch"} \cup HandlerSteps
    \/ WaitsInBus(t)

\* sd-bus is not thread safe: whoever installs, deletes or dispatches, in a callback
\* or not, is alone in it but for the loop's thread in sd_bus_wait, which is no
\* better protected here than in AsyncCalls.
OnlyTheWaitIsUnlocked ==
    \A s, t \in Threads :
        UsesBus(s) /\ UsesBus(t) => s = t \/ WaitsInBus(s) \/ WaitsInBus(t)

\* sd-bus never holds the address of a slot object that was freed, whatever
\* became of the object: kept, released, deleted, or given up with the connection.
MatchedIsLive == \A s \in matches : object[s] = "live"

\* The callbacks of a listener run on a slot object that exists: it is not
\* deleted under them by another thread.
CalledIsLive == current # NoSlot => object[current] = "live"

\* Every slot object that is not being installed or deleted has one owner, which
\* will destroy it; nothing is left behind by a failed match or by ~dbus.
OneOwner ==
    \A s \in Slots :
        LET owners == Cardinality(({s} \cap kept)) + Cardinality({s} \cap released)
                      + Cardinality({t \in Threads : work[t] = s})
        IN  owners = IF object[s] = "live" THEN 1 ELSE 0

\* A signal reaches one of the listeners that wait for it, the first that sd-bus
\* calls, as the value the handler returns ends the dispatch; and that one is told, by
\* one of its callbacks, or by both: the error callback follows one that threw.
HeardByOneListener ==
    \A m \in Messages : status[m] = "done" =>
        /\ Cardinality(callees[m]) <= 1
        /\ due[m] \cap matches # {} => callees[m] # {}
        /\ callees[m] # {} => told[m] \in {1, 2}

Delivery == INSTANCE SignalDelivery WITH
    Hearers <- Slots,
    topic <- signal,
    listening <- matches,
    sent <- {m \in Messages : status[m] # "new"},
    line <- (IF message = NoMessage THEN <<>> ELSE <<message>>) \o queue,
    heard <- callees,
    alive <- phase # "dead" /\ ~crashed

\* However listeners come and go meanwhile, in whatever order exceptions leave the
\* callbacks, every behaviour of the connection is one SignalDelivery allows: signals
\* are delivered in their turn, each to one who listens at that moment and who is told
\* before the next one comes (the loop, sd-bus and dbus_mock_signal_callback).
DeliversInTurn == Delivery!Spec

\* A signal that came in is processed, unless the connection ends.
SignalsAreProcessed ==
    \A m \in Messages :
        status[m] = "queued" ~> status[m] = "done" \/ ~running \/ crashed

\* README: a released slot is the application's to delete.
ReleasedIsDeletable ==
    \A t \in Users : pc[t] = "plainFree" => work[t] # current
=============================================================================

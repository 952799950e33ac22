----------------------------- MODULE AsyncCalls -----------------------------
(***************************************************************************)
(* Method calls and property accesses on one dbus connection.              *)
(*                                                                         *)
(* Threads of the application call call_method, call_method_async,         *)
(* read_property, read_property_async, ... (bindings/bus.hpp); the thread  *)
(* of the event loop runs sd_bus_process, from which sd-bus calls          *)
(* dbus_mock_async_callback (bindings/bus.cpp) with the async_context of   *)
(* the call.  All of them share sd-bus, which is not thread safe, the      *)
(* slot_holder of contexts, and the recursive mutex sdbus_lock_ that       *)
(* guards both.  The callbacks of the application run in the loop's        *)
(* thread, with the mutex held, and may make calls themselves.             *)
(*                                                                         *)
(* Every call is one member of Calls and is made at most once.  What the   *)
(* call is and how the callbacks given to it behave is its plan.           *)
(***************************************************************************)
EXTENDS Naturals

CONSTANTS
    Callers,      \* threads of the application
    LoopThread,   \* the thread of the installed busy_loop
    NoThread,     \* the owner of the mutex when nobody holds it
    Calls,        \* the calls that are made (a bound on their number)
    NoCall,
    Plans         \* what the calls may be and how their callbacks may behave

Threads == Callers \cup {LoopThread}

Kinds == {"async", "propertyAsync", "sync", "propertySync"}
AsyncKinds == {"async", "propertyAsync"}
PropertyKinds == {"propertyAsync", "propertySync"}

\* "empty" is a std::function without target: then or error was omitted.
\* "throws" throws a std::exception, "throwsOther" anything else.
CallbackKinds == {"returns", "throws", "throwsOther", "empty"}

ASSUME ThreadsAssumption ==
    /\ LoopThread \notin Callers
    /\ NoThread \notin Threads
    /\ NoCall \notin Calls

ASSUME PlansAssumption ==
    Plans \subseteq
        [Calls -> [kind : Kinds, then : CallbackKinds, err : CallbackKinds]]

VARIABLES
    plan,         \* what each call is and how its callbacks behave
    owner, depth, \* sdbus_lock_, a recursive mutex
    pc,           \* per thread: the next statement of the call it is making
    call,         \* per thread: that call
    status,       \* per call: what its caller knows of it
    contexts,     \* async_slots_: the calls whose context is in the store
    slot,         \* per call: async_context::slot_
    registered,   \* sd-bus: calls whose reply callback is registered
    answer,       \* sd-bus: what has arrived for the call
    expired,      \* sd-bus: calls whose timeout has elapsed
    loop,         \* the next statement of the loop's thread
    current,      \* the call whose callback the loop's thread is running
    thenRuns, errRuns, \* per call: how often its callbacks were entered
    running,      \* busy_loop::running_
    phase,        \* the life of the dbus object
    wildUnref,    \* a context was destroyed whose slot_ was never set
    crashed       \* std::terminate was called

lockVars == <<owner, depth>>
callVars == <<pc, call, status>>
storeVars == <<contexts, slot>>
sdbusVars == <<registered, answer, expired>>
loopVars == <<loop, current>>
historyVars == <<thenRuns, errRuns>>
lifeVars == <<running, phase, wildUnref, crashed>>
vars == <<plan, lockVars, callVars, storeVars, sdbusVars, loopVars,
          historyVars, lifeVars>>

PcValues == {"idle", "outerLock", "create", "compose", "lock", "insert",
             "send", "setSlot", "syncCall", "reply", "return", "throw"}
CallbackSteps == {"unpack", "misread", "then", "onFail", "errTry", "catch",
                  "errCatch", "scopeExit"}
LoopValues == {"head", "process", "wait", "exited"} \cup CallbackSteps
AnswerKinds == {"result", "misfit", "error"}

TypeOK ==
    /\ plan \in Plans
    /\ owner \in Threads \cup {NoThread}
    /\ depth \in Nat
    /\ pc \in [Threads -> PcValues]
    /\ call \in [Threads -> Calls \cup {NoCall}]
    /\ status \in [Calls -> {"new", "calling", "returned", "thrown"}]
    /\ contexts \subseteq Calls
    /\ slot \in [Calls -> {"unset", "valid", "garbage", "released"}]
    /\ registered \subseteq Calls
    /\ answer \in [Calls -> {"none", "awaited", "consumed"} \cup AnswerKinds]
    /\ expired \subseteq Calls
    /\ loop \in LoopValues
    /\ current \in Calls \cup {NoCall}
    /\ thenRuns \in [Calls -> Nat]
    /\ errRuns \in [Calls -> Nat]
    /\ running \in BOOLEAN
    /\ phase \in {"alive", "stopping", "dead"}
    /\ wildUnref \in BOOLEAN
    /\ crashed \in BOOLEAN

Init ==
    /\ plan \in Plans
    /\ owner = NoThread
    /\ depth = 0
    /\ pc = [t \in Threads |-> "idle"]
    /\ call = [t \in Threads |-> NoCall]
    /\ status = [c \in Calls |-> "new"]
    /\ contexts = {}
    /\ slot = [c \in Calls |-> "unset"]
    /\ registered = {}
    /\ answer = [c \in Calls |-> "none"]
    /\ expired = {}
    /\ loop = "head"
    /\ current = NoCall
    /\ thenRuns = [c \in Calls |-> 0]
    /\ errRuns = [c \in Calls |-> 0]
    /\ running = TRUE
    /\ phase = "alive"
    /\ wildUnref = FALSE
    /\ crashed = FALSE

-----------------------------------------------------------------------------
(* The recursive mutex. *)

CanLock(t) == owner \in {NoThread, t}

\* mutant: the mutex is taken whoever holds it
Lock_Unchecked(t) ==
    /\ owner' = t
    /\ depth' = depth + 1

Lock(t) ==
    /\ CanLock(t)
    /\ owner' = t
    /\ depth' = depth + 1

\* mutant: a mutex that does not count how often it was taken
Unlock_NotRecursive ==
    /\ depth' = depth - 1
    /\ owner' = NoThread

Unlock ==
    /\ depth' = depth - 1
    /\ owner' = IF depth = 1 THEN NoThread ELSE owner

-----------------------------------------------------------------------------
(* A thread makes a call. *)

Step(t, from, to) ==
    /\ ~crashed
    /\ pc[t] = from
    /\ pc' = [pc EXCEPT ![t] = to]

IsProperty(c) == plan[c].kind \in PropertyKinds

\* What call_method and call_method_async do first.
FirstStep(c) == IF plan[c].kind \in AsyncKinds THEN "create" ELSE "syncCall"

\* The loop's thread runs code of the application inside a callback only; the
\* other threads must not use a dbus object whose destructor has begun.
InUserCode == loop \in {"then", "errTry", "errCatch"}

MayCall(t) == IF t = LoopThread THEN InUserCode ELSE phase = "alive"

Begin(t, c) ==
    /\ MayCall(t)
    /\ status[c] = "new"
    /\ Step(t, "idle", IF IsProperty(c) THEN "outerLock" ELSE FirstStep(c))
    /\ call' = [call EXCEPT ![t] = c]
    /\ status' = [status EXCEPT ![c] = "calling"]
    /\ UNCHANGED <<plan, lockVars, storeVars, sdbusVars, loopVars, historyVars,
                   lifeVars>>

\* read_property, read_properties and the async forms hold the mutex around the
\* call they make; so does write_property, whose call is in the same function.
TakeOuterLock(t) ==
    /\ Lock(t)
    /\ Step(t, "outerLock", FirstStep(call[t]))
    /\ UNCHANGED <<plan, call, status, storeVars, sdbusVars, loopVars,
                   historyVars, lifeVars>>

\* The first locked block of call_method_async: it only makes the message.
Create(t) ==
    /\ CanLock(t)
    /\ \E next \in {"compose", "throw"} : Step(t, "create", next)
    /\ UNCHANGED <<plan, lockVars, call, status, storeVars, sdbusVars,
                   loopVars, historyVars, lifeVars>>

\* Appending the parameters and set_expect_reply, without the mutex.
Compose(t) ==
    /\ \E next \in {"lock", "throw"} : Step(t, "compose", next)
    /\ UNCHANGED <<plan, lockVars, call, status, storeVars, sdbusVars,
                   loopVars, historyVars, lifeVars>>

TakeLock(t) ==
    /\ Lock(t)
    /\ Step(t, "lock", "insert")
    /\ UNCHANGED <<plan, call, status, storeVars, sdbusVars, loopVars,
                   historyVars, lifeVars>>

InsertContext(t) ==
    /\ Step(t, "insert", "send")
    /\ contexts' = contexts \cup {call[t]}
    /\ UNCHANGED <<plan, lockVars, call, status, slot, sdbusVars, loopVars,
                   historyVars, lifeVars>>

\* sd_bus_call_async registers the callback and queues the message, or fails
\* and leaves the local variable slot as it was: uninitialised.
Send(t) ==
    /\ Step(t, "send", "setSlot")
    /\ \/ /\ registered' = registered \cup {call[t]}
          /\ answer' = [answer EXCEPT ![call[t]] = "awaited"]
       \/ UNCHANGED <<registered, answer>>
    /\ UNCHANGED <<plan, lockVars, call, status, storeVars, expired, loopVars,
                   historyVars, lifeVars>>

WasSent(c) == answer[c] # "none"

\* mutant: the call throws although it was sent
SendResult_AlwaysThrows(c) == "throw"

SendResult(c) == IF WasSent(c) THEN "return" ELSE "throw"

\* mutant: the local variable slot is not passed to sd_bus_call_async
SentSlot_Unset(c) == "garbage"

SentSlot(c) == IF WasSent(c) THEN "valid" ELSE "garbage"

\* ac->slot(slot), then the block is left and a negative result is thrown.
SetSlot(t) ==
    /\ Step(t, "setSlot", SendResult(call[t]))
    /\ slot' = [slot EXCEPT ![call[t]] = SentSlot(call[t])]
    /\ Unlock
    /\ UNCHANGED <<plan, call, status, contexts, sdbusVars, loopVars,
                   historyVars, lifeVars>>

\* call_method holds the mutex while sd_bus_call sends and waits.
SyncCall(t) ==
    /\ Lock(t)
    /\ Step(t, "syncCall", "reply")
    /\ UNCHANGED <<plan, call, status, storeVars, sdbusVars, loopVars,
                   historyVars, lifeVars>>

\* mutant: the mutex is not left
SyncReply_KeepsLock(t) ==
    /\ \E next \in {"return", "throw"} : Step(t, "reply", next)
    /\ UNCHANGED <<plan, lockVars, call, status, storeVars, sdbusVars,
                   loopVars, historyVars, lifeVars>>

\* It ends with a reply, with an error or with sd-bus's own timeout.
SyncReply(t) ==
    /\ \E next \in {"return", "throw"} : Step(t, "reply", next)
    /\ Unlock
    /\ UNCHANGED <<plan, call, status, storeVars, sdbusVars, loopVars,
                   historyVars, lifeVars>>

\* mutant: the mutex is left once too often
LeaveOuterLock_Always(c) == Unlock

LeaveOuterLock(c) == IF IsProperty(c) THEN Unlock ELSE UNCHANGED lockVars

Leave(t, from, result) ==
    /\ Step(t, from, "idle")
    /\ call' = [call EXCEPT ![t] = NoCall]
    /\ status' = [status EXCEPT ![call[t]] = result]
    /\ LeaveOuterLock(call[t])
    /\ UNCHANGED <<plan, storeVars, sdbusVars, loopVars, historyVars,
                   lifeVars>>

Return(t) == Leave(t, "return", "returned")
Throw(t) == Leave(t, "throw", "thrown")

-----------------------------------------------------------------------------
(* The other side of the connection, and sd-bus's timeouts. *)

\* An answer arrives, at any time after the message was sent.  A "misfit" is
\* one whose content message::read cannot read into the callback's parameters.
Answer(c) ==
    /\ ~crashed
    /\ phase # "dead"
    /\ answer[c] = "awaited"
    /\ \E a \in AnswerKinds : answer' = [answer EXCEPT ![c] = a]
    /\ UNCHANGED <<plan, lockVars, callVars, storeVars, registered, expired,
                   loopVars, historyVars, lifeVars>>

Expire(c) ==
    /\ ~crashed
    /\ phase # "dead"
    /\ c \in registered \ expired
    /\ expired' = expired \cup {c}
    /\ UNCHANGED <<plan, lockVars, callVars, storeVars, registered, answer,
                   loopVars, historyVars, lifeVars>>

-----------------------------------------------------------------------------
(* The event loop's thread, on a connection that works (EventLoop.tla has   *)
(* the failures of sd_bus_process and sd_bus_wait).                         *)

LoopStep(from, to) ==
    /\ ~crashed
    /\ pc[LoopThread] = "idle"
    /\ loop = from
    /\ loop' = to

StayInLoop ==
    UNCHANGED <<plan, callVars, historyVars, lifeVars>>

\* for (;running_.load();)
LoopExit ==
    /\ ~running
    /\ LoopStep("head", "exited")
    /\ UNCHANGED <<lockVars, storeVars, sdbusVars, current>>
    /\ StayInLoop

\* The scoped_lock of the loop; sd_bus_process begins.
LoopLock ==
    /\ running
    /\ LoopStep("head", "process")
    /\ Lock(LoopThread)
    /\ UNCHANGED <<storeVars, sdbusVars, current>>
    /\ StayInLoop

DueTimeouts == registered \cap expired
Arrived == {c \in Calls : answer[c] \in AnswerKinds}

\* Where dbus_mock_async_callback goes with an answer: unpack_message, whose reading
\* of the parameters succeeds or throws, or on_fail if sd-bus says by the error argument
\* that it is an error.  sd-bus may leave that argument alone: then an error is read
\* like any answer, and its content fits the parameters of the callback or does not.
FirstCallbackSteps(a) ==
    IF a = "error" THEN {"onFail", "unpack", "misread"}
    ELSE IF a = "misfit" THEN {"misread"} ELSE {"unpack"}

\* sd_bus_process looks at the timeouts first, then at the incoming messages;
\* it removes the reply callback before it calls it.  A timeout is an error that
\* sd-bus makes itself.
ProcessTimeout(c) ==
    /\ c \in DueTimeouts
    /\ \E next \in FirstCallbackSteps("error") : LoopStep("process", next)
    /\ current' = c
    /\ registered' = registered \ {c}
    /\ UNCHANGED <<lockVars, storeVars, answer, expired>>
    /\ StayInLoop

ProcessAnswer(c) ==
    /\ DueTimeouts = {}
    /\ c \in Arrived \cap registered
    /\ \E next \in FirstCallbackSteps(answer[c]) : LoopStep("process", next)
    /\ current' = c
    /\ registered' = registered \ {c}
    /\ answer' = [answer EXCEPT ![c] = "consumed"]
    /\ UNCHANGED <<lockVars, storeVars, expired>>
    /\ StayInLoop

\* An answer that comes after the timeout of its call finds no callback.
ProcessLateAnswer(c) ==
    /\ DueTimeouts = {}
    /\ c \in Arrived \ registered
    /\ LoopStep("process", "head")
    /\ answer' = [answer EXCEPT ![c] = "consumed"]
    /\ Unlock
    /\ UNCHANGED <<storeVars, registered, expired, current>>
    /\ StayInLoop

ProcessNothing ==
    /\ DueTimeouts = {}
    /\ Arrived = {}
    /\ LoopStep("process", "wait")
    /\ Unlock
    /\ UNCHANGED <<storeVars, sdbusVars, current>>
    /\ StayInLoop

\* mutant: the loop ends after the first wait
AfterWait_Exit == "exited"

AfterWait == "head"

\* sd_bus_wait returns on activity and after the idle delay at the latest.
WaitOver ==
    /\ LoopStep("wait", AfterWait)
    /\ UNCHANGED <<lockVars, storeVars, sdbusVars, current>>
    /\ StayInLoop

-----------------------------------------------------------------------------
(* dbus_mock_async_callback. *)

StayInCallback ==
    UNCHANGED <<plan, lockVars, callVars, storeVars, sdbusVars, current,
                running, phase, wildUnref>>

\* async_context::unpack_message calls the success callback.
EnterThen ==
    /\ LoopStep("unpack", "then")
    /\ plan[current].then # "empty"
    /\ thenRuns' = [thenRuns EXCEPT ![current] = @ + 1]
    /\ UNCHANGED <<errRuns, crashed>>
    /\ StayInCallback

\* mutant: an answer that cannot be read is dropped
UnreadableGoesTo_Exit == "scopeExit"

UnreadableGoesTo == "catch"

\* message::read throws, or the empty std::function throws bad_function_call.
UnpackThrows ==
    /\ \/ LoopStep("misread", UnreadableGoesTo)
       \/ LoopStep("unpack", UnreadableGoesTo) /\ plan[current].then = "empty"
    /\ UNCHANGED <<historyVars, crashed>>
    /\ StayInCallback

\* mutant: on_fail is called after the callback whatever it did
AfterUserCode_AlwaysFails(behaviour) == "catch"

\* A std::exception goes to the first handler, anything else to catch (...),
\* which reports nothing.
AfterUserCode(behaviour) ==
    IF behaviour = "throws" THEN "catch" ELSE "scopeExit"

LeaveThen ==
    /\ LoopStep("then", AfterUserCode(plan[current].then))
    /\ UNCHANGED <<historyVars, crashed>>
    /\ StayInCallback

\* async_context::on_fail, called in the try block and in its first handler.
EnterErr(from, to) ==
    /\ LoopStep(from, to)
    /\ plan[current].err # "empty"
    /\ errRuns' = [errRuns EXCEPT ![current] = @ + 1]
    /\ UNCHANGED <<thenRuns, crashed>>
    /\ StayInCallback

EnterErrInTry == EnterErr("onFail", "errTry")
EnterErrInCatch == EnterErr("catch", "errCatch")

OmittedErrInTry ==
    /\ LoopStep("onFail", "catch")
    /\ plan[current].err = "empty"
    /\ UNCHANGED <<historyVars, crashed>>
    /\ StayInCallback

LeaveErrInTry ==
    /\ LoopStep("errTry", AfterUserCode(plan[current].err))
    /\ UNCHANGED <<historyVars, crashed>>
    /\ StayInCallback

LeaveErrInCatch ==
    /\ LoopStep("errCatch", "scopeExit")
    /\ plan[current].err = "returns"
    /\ UNCHANGED <<historyVars, crashed>>
    /\ StayInCallback

\* mutant: there is no catch (...)
MayEscape_NoCatchAll ==
    \/ loop = "catch" /\ plan[current].err = "empty"
    \/ loop = "errCatch" /\ plan[current].err # "returns"
    \/ loop = "then" /\ plan[current].then = "throwsOther"

MayEscape ==
    \/ loop = "catch" /\ plan[current].err = "empty"
    \/ loop = "errCatch" /\ plan[current].err # "returns"

\* An exception leaves the handler: nothing above it in the loop's thread
\* catches it.
Escape ==
    /\ MayEscape
    /\ LoopStep(loop, "exited")
    /\ crashed' = TRUE
    /\ UNCHANGED historyVars
    /\ StayInCallback

\* slot_holder::erase looks the context up and leaves the store as it is.
Erase(store, c) == store

\* on_scope_exit, after which sd_bus_process returns and the mutex is left.
ScopeExit ==
    /\ LoopStep("scopeExit", "head")
    /\ contexts' = Erase(contexts, current)
    /\ current' = NoCall
    /\ Unlock
    /\ UNCHANGED <<slot, sdbusVars>>
    /\ StayInLoop

-----------------------------------------------------------------------------
(* ~dbus. *)

\* mutant: running_ stays set
Stopped_NotCleared == running

Stopped == FALSE

StopLoop ==
    /\ ~crashed
    /\ phase = "alive"
    /\ \A t \in Callers : pc[t] = "idle"
    /\ phase' = "stopping"
    /\ running' = Stopped
    /\ UNCHANGED <<plan, lockVars, callVars, storeVars, sdbusVars, loopVars,
                   historyVars, wildUnref, crashed>>

\* The loop's thread is joined, the connection is closed, and the members are
\* destroyed: every context left gives its slot back.  Giving back a slot_
\* that was never set is undefined: it may happen to be null.
Destroy ==
    /\ ~crashed
    /\ phase = "stopping"
    /\ loop = "exited"
    /\ phase' = "dead"
    /\ registered' = {}
    /\ contexts' = {}
    /\ slot' = [c \in Calls |-> IF c \in contexts THEN "released" ELSE slot[c]]
    /\ wildUnref' \in IF \E c \in contexts : slot[c] = "garbage"
                      THEN BOOLEAN ELSE {FALSE}
    /\ UNCHANGED <<plan, lockVars, callVars, answer, expired, loopVars,
                   historyVars, running, crashed>>

\* The program has ended.
Finished ==
    /\ phase = "dead" \/ crashed
    /\ UNCHANGED vars

-----------------------------------------------------------------------------

CallStep(t) ==
    \/ \E c \in Calls : Begin(t, c)
    \/ TakeOuterLock(t)
    \/ Create(t)
    \/ Compose(t)
    \/ TakeLock(t)
    \/ InsertContext(t)
    \/ Send(t)
    \/ SetSlot(t)
    \/ SyncCall(t)
    \/ SyncReply(t)
    \/ Return(t)
    \/ Throw(t)

Process ==
    \/ \E c \in Calls : ProcessTimeout(c)
    \/ \E c \in Calls : ProcessAnswer(c)
    \/ \E c \in Calls : ProcessLateAnswer(c)
    \/ ProcessNothing

Callback ==
    \/ EnterThen
    \/ UnpackThrows
    \/ LeaveThen
    \/ EnterErrInTry
    \/ EnterErrInCatch
    \/ OmittedErrInTry
    \/ LeaveErrInTry
    \/ LeaveErrInCatch
    \/ Escape
    \/ ScopeExit

Loop ==
    \/ LoopExit
    \/ LoopLock
    \/ Process
    \/ WaitOver
    \/ Callback

Bus == \E c \in Calls : Answer(c) \/ Expire(c)

Next ==
    \/ \E t \in Threads : CallStep(t)
    \/ Loop
    \/ Bus
    \/ StopLoop
    \/ Destroy
    \/ Finished

Spec == Init /\ [][Next]_vars

-----------------------------------------------------------------------------
(* Fairness.  Threads are scheduled, and callbacks of the application return; *)
(* every call has a finite timeout.  A thread that asks for the mutex gets it *)
(* when it becomes free again and again: the loop sleeps without the mutex    *)
(* whenever there is nothing to process.                                      *)

LockStep(t) == TakeOuterLock(t) \/ Create(t) \/ TakeLock(t) \/ SyncCall(t)

OtherStep(t) ==
    \/ Compose(t)
    \/ InsertContext(t)
    \/ Send(t)
    \/ SetSlot(t)
    \/ SyncReply(t)
    \/ Return(t)
    \/ Throw(t)

Fairness ==
    /\ \A t \in Threads : WF_vars(OtherStep(t)) /\ SF_vars(LockStep(t))
    /\ WF_vars(Loop)
    /\ \A c \in Calls : WF_vars(Expire(c))
    /\ WF_vars(Destroy)

FairSpec == Spec /\ Fairness

-----------------------------------------------------------------------------
(* Properties. *)

\* Thread t is in sd_bus_wait, for which the loop does not take the mutex.
WaitsInBus(t) == t = LoopThread /\ loop = "wait"

\* Thread t is inside sd-bus, or between the two halves of making a call known
\* to sd-bus and to its context.
UsesBus(t) ==
    \/ pc[t] \in {"insert", "send", "setSlot", "reply"}
    \/ t = LoopThread /\ loop \in {"process"} \cup CallbackSteps
    \/ WaitsInBus(t)

\* sd-bus is not thread safe, and the mutex does not keep every thread out of it
\* but one: beside the loop's thread in sd_bus_wait there may be another.  It does
\* keep out everyone else, whatever its recursion through the property functions and
\* through calls made from callbacks: of two threads in sd-bus, one is that waiter.
OnlyTheWaitIsUnlocked ==
    \A s, t \in Threads :
        UsesBus(s) /\ UsesBus(t) => s = t \/ WaitsInBus(s) \/ WaitsInBus(t)

\* sd-bus never keeps the address of a context that is not in the store, and a callback
\* runs on one that has its slot: however early the answer comes, it is not dispatched
\* before the thread that made the call has stored the slot (call_method_async).
CallbackSeesItsContext ==
    /\ registered \subseteq contexts
    /\ current # NoCall => current \in contexts /\ slot[current] = "valid"

\* sd-bus has called the callback of c and it has returned.
IsDispatched(c) ==
    WasSent(c) /\ c \notin registered /\ c # current /\ phase # "dead"

\* Answered, timed out, or both in either order: the success callback is entered at
\* most once, and the error callback too unless it throws itself; and no outcome is
\* lost: once the callback of a call has returned to sd-bus, one of them was entered.
\* The error callback is told what the success callback threw if it is a
\* std::exception, and only then: anything else is reported to nobody.
ReportsOnce ==
    \A c \in Calls :
        /\ thenRuns[c] <= 1
        /\ errRuns[c] <= 1 \/ plan[c].err = "throws"
        /\ IsDispatched(c) /\ ~crashed => thenRuns[c] + errRuns[c] > 0
        /\ IsDispatched(c) /\ ~crashed /\ thenRuns[c] > 0
                => (errRuns[c] > 0 <=> plan[c].then = "throws")

\* The process is only lost through an error callback that was omitted or that
\* throws.
CrashOnlyByErrorCallback ==
    crashed => plan[current].err # "returns"

\* The destructor gives back a slot that was never set only when the call of
\* that context was refused by sd-bus, which its caller saw as an exception.
WildUnrefOnlyAfterThrow ==
    wildUnref => \E c \in Calls : status[c] = "thrown" /\ ~WasSent(c)

\* The outcome of a call, as CallOutcome promises it.
OutcomeOf(c) ==
    IF status[c] = "thrown" THEN "refused"
    ELSE IF errRuns[c] > 0 THEN "failed"
    ELSE IF thenRuns[c] > 0 THEN "delivered"
    ELSE IF WasSent(c) THEN IF phase = "dead" THEN "abandoned" ELSE "pending"
    ELSE IF status[c] = "returned" THEN "delivered" ELSE "none"

Promise == INSTANCE CallOutcome WITH
    outcome <- [c \in Calls |-> OutcomeOf(c)],
    alive <- phase # "dead"

\* Every behaviour of the connection is one CallOutcome allows: a call that threw
\* at its caller never reports, a call that was accepted reports once, and nothing
\* is reported after the destructor.
KeepsPromise == Promise!Spec

\* README: the error callback can be omitted.
OmittedErrorIsHarmless == ~crashed

\* Every call that was accepted reports an outcome, unless the bus or the process
\* dies first.
AcceptedCompletes ==
    \A c \in Calls :
        status[c] = "returned" /\ plan[c].kind \in AsyncKinds
            ~> thenRuns[c] + errRuns[c] > 0 \/ phase = "dead" \/ crashed

\* No thread that makes a call waits forever for the mutex, for a reply or for the
\* loop.
CallsEnd ==
    \A c \in Calls :
        status[c] = "calling" ~> status[c] \in {"returned", "thrown"} \/ crashed

\* The destructor ends, whatever the loop's thread was doing.
DestructionEnds == phase = "stopping" ~> phase = "dead" \/ crashed
=============================================================================

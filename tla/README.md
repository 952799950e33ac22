# Specifications of dbus-glue

dbus-glue is a C++ layer above sd-bus: calls and properties of remote objects, signals, an event
loop in a thread, interfaces adapted from and exposed to the bus, a reader and writer of messages,
and a generator of interfaces from introspection data. This directory holds TLA+ models of its
parts, the TLC runs that check them on small instances, and proofs about them.

Paths below are relative to `src/`; `B/` is `include/dbus-glue/bindings/` and `S/` is
`source/dbus-glue/bindings/`.

## Inventory

| component | code | state it keeps | operations | who it interacts with |
|---|---|---|---|---|
| Calls and context store | `B/bus.hpp` 70-400, `B/async_context.hpp`, `S/detail/slot_holder.cpp`, `S/bus.cpp` 49-81 | `sdbus_lock_`, `async_slots_`, each context's `slot_`, message and callbacks | `call_method`, `call_method_async`, the property functions, `free_async_context`, `dbus_mock_async_callback` | threads of the application call it; sd-bus calls the handler from the loop's thread; the handler calls the application |
| Event loop | `S/busy_loop.cpp`, `S/bus.cpp` 132-162, 192-203 | `running_`, `actually_running_`, the thread, two callbacks, `event_loop_` | `start`, `stop`, `is_running`, `error_callback`, `message_callback`, `install_event_loop`, `~dbus` | takes `sdbus_lock_` around `sd_bus_process`; runs every callback of the application |
| Signal listeners | `B/bus.hpp` 402-456, `B/slot.hpp`, `include/dbus-glue/signals.hpp`, `S/bus.cpp` 15-47 | slot objects, `unnamed_slots_`, sd-bus's matches | `install_signal_listener`, `listen`, deletion of a released slot, `dbus_mock_signal_callback` | as the calls |
| Blocking loop | `S/bus.cpp` 162-190 | a flag of the caller | `dbus::busy_loop` | as the event loop, in the caller's thread |
| Message ownership | `S/message.cpp`, `B/message.hpp` | the handle, `view` | construct, move, `clone`, `release`, destroy | handlers, calls, contexts |
| Message reading, writing, variants | `B/message.hpp`, `B/types.hpp`, `S/types.cpp` | sd-bus's position in the message and its open containers | `read`, `append`, `unpack_variant`, `rewind` | every callback with parameters |
| Type signatures and generator | `source/dbus-glue/generator/` | the interfaces and structures found | `parse`, `convert_type`, `create_cpp` | none at run time |
| Exposed interfaces | `B/exposable_interface.hpp`, `B/emitable.hpp`, `B/exposables/`, `S/exposables/` | `table_`, `vtable_`, `bus_`, the entries | `expose`, handlers of methods and properties, `emit` | sd-bus calls the handlers with addresses into `table_`, from the loop's thread |
| Interface builder | `include/dbus-glue/interface_builder.hpp` | the interface that is being built | `add_*` and the fluent setters | makes what is exposed |
| Interface adaptation | `include/dbus-glue/dbus_interface_base.hpp`, `properties.hpp` | a weak reference to the interface, the parameters of a call to be | `then`, `error`, `timeout`, the destructor that makes the call | makes calls |

What is hard to get right, and hard to test:

* Threads. sd-bus is not thread safe. Every thread of the application, the loop's thread, and the
  callbacks that run in it share one connection through one recursive mutex, which some functions
  take twice and one takes in two pieces (`call_method_async`). The loop sleeps without it.
* Order. An answer may be dispatched between any two unlocked statements of the call it answers; a
  timeout and an answer may race.
* Failure. Callbacks throw, are omitted, or do not fit the message; the handlers are C callbacks,
  above which nothing catches. Sending fails after the context is stored. `sd_bus_process` fails.
* Life. Contexts, slot objects, the loop's thread and the connection end in an order `~dbus`
  chooses, or one the application does, from states the loop's thread changes by itself.

* Data. Types nest, and each reader of a type decides by a result of sd-bus whether its container is
  at its end. A variant keeps the place up to which it was read. A generated handler declares the types
  `convert_type` finds in a string. Parameters are read as arguments of one call, in an order C++
  leaves open.
* Addresses. sd-bus keeps those of contexts, slot objects and of the table of an exposed interface.

What makes each part correct: an asynchronous call is refused or reports one outcome; a callback
finds its context or slot object alive and complete; beside a loop that sleeps in `sd_bus_wait`, which
both loops call without the mutex, one thread uses sd-bus at a time; a loop that
was started runs until it is stopped or gives up; `stop()` and `~dbus` end; a handler is called with
what came in, the message read to its end; a variant can be read, copied and appended again; a
request runs the handler of the member it was made for, once, and is answered; a proxy that was made
calls once for each object it was moved through, or not at all without its interface.

## Modules

`CallOutcome` is the abstract promise about a call: refused, or accepted and then delivered, failed
or, when the connection ends first, abandoned. A delivered call may still become failed (the success
callback threw); a failed one stays failed.

`AsyncCalls` implements it. A thread's `pc` is its next statement in the call it makes: `create`,
`compose`, `lock`, `insert`, `send`, `setSlot` follow `call_method_async`; `syncCall`, `reply` follow
`call_method`, `write_property`; `outerLock` is the lock of the property functions. `plan` says of
every call what it is and how its callbacks behave, and is chosen in `Init`. The loop's thread runs
the handler by steps (`unpack`, `then`, `onFail`, `catch`, ...), and while it is in code of the
application it may make calls itself, with the mutex already held. sd-bus is modelled by what the
code uses of it: registered callbacks, timeouts that may elapse at any time, and answers that come at
any time after the message was sent, as an error, as a message the callback can read, or as one it
cannot (`misfit`). An error, the one a timeout makes included, may be handled like a result: the handler
knows it by `ret_error` (`S/bus.cpp` 63), which sd-bus need not set for an answer, so that the
content of the error may be unpacked for the success callback. Failures of `sd_bus_process` belong to `EventLoop`; here the connection works.
Composing the message is one step, which may throw. An uninitialised local (`slot`, when
`sd_bus_call_async` fails) becomes the slot value `garbage`, and giving it back may be harmless or
not (`wildUnref`).

`EventLoop` has one controlling thread, another thread that makes calls, the threads of the loops, and
failures. The statements of
`start()`, `stop()` and `~dbus` are separate steps, because the loop's thread changes
`actually_running_` between them; so is the time in which `error_callback` assigns the function the
loop's thread may be reading. The loop's thread reads `running_` (`Head`) and then waits for the
mutex (`LoopLock`): it may have to wait while `stop()` joins it and another thread is in a call, and
when it gets the mutex what it read may be stale. `AsyncCalls` and `SignalSlots` take the two for one
step: whoever stops a loop there holds no mutex and, from then on, only waits for the thread, so that the
thread processing once more changes nothing but the number of messages it takes from the connection.
The controlling thread may run `dbus::busy_loop` (`RunBlocking`, `Blocking...`), with a loop's thread
running beside it or not; what it does after the error -74 differs from the
class `busy_loop`, and it leaves by an exception on any other. `Refusing` are the loops whose error
callback may end them. What the interface permits but a
careful application avoids is named in `Habits`, so that a run can say which of it there is:
`restart` (a loop that was not joined is started again), `replace` (a loop is installed over one that
was not joined), `destroy` (no `stop()` before `~dbus`, although the error callback may have ended the
loop), `setLate` (`error_callback` of a loop that runs, as `README.md` 393-397 has it),
`stopInCallback`, `throwInCallback` (callbacks that stop their own loop, or throw), `stopWithMutex`.

`SignalSlots` has the slot objects of listeners: the statements of `install_signal_listener`, of
`~slot`, of `dbus_mock_signal_callback` and of `~dbus`. sd-bus is a queue of messages, the matches,
and the rule that a handler whose value is not 0 ends the dispatch of a message. Whether a message
fits and whether a callback throws is chosen afresh each time. `SignalDelivery` is the abstract promise it
implements: the signals a connection is sent are delivered one at a time in the order they came in, each
to one of those who listen for it at that moment, who is told once or twice (the error callback follows
a callback that threw) before the next has its turn; a signal is dropped only when nobody listens for it,
and a connection that has ended delivers nothing. A message is in the `line` while it waits or its
handler runs; who listens are sd-bus's matches. Habits: `plainDelete` (a released
slot is deleted without `mutex()`), `badErrorCallback`.

`Types`, `TypeParser`, `MessageReader` and `Messages` are about data. `Types` has the types of C++ the
library reads, the D-Bus types they stand for, and values. `TypeParser` is `convert_type`: parsers that
return what they found and where they stand, with the characters they skip unseen. `MessageReader` is
`message::read`, one call of sd-bus per step. `msg` is what sd-bus keeps of a message: the open
containers, the innermost one last, each with its values and how many of them were read. `scopes` are
the functions that were called and have not returned, the innermost one last: the `read_proxy` of a
type, `unpack_variant`, one row or entry of an array. Each has the values it received, the result it
adds up, and whether it goes on. The functions that enter a container look at the result as the code
does, so that a structure may be "entered" at the end of an array. `reader` says that an exception is on
its way to the caller (`threw`), or that a string was made of a pointer sd-bus did not set (`crashed`).
`Messages` composes the reader with what uses it: the parameters of a handler, declared by an author or
generated, are read in either order, with the first exception ending it; the variants among them become
messages of their own, which the handler loads, stores, copies, appends, rewinds and clears in any
order. `truth` remembers what was put into a variant. What the generator declares is the constant
`Generated`, which `Messages_MC` defines by `TypeParser`, so that `Messages` has no recursive operator
and can be reasoned about; whether it is the type that was introspected is asked by `ConvertedTypesFit`.
A read at the end of an array of strings (`EndsStrings`) may crash or not, as the compiler has it.

`ExposedObjects` is a program with interfaces on several connections. `StartExpose`, `BuildTables` and
`Register` are the statements of `expose` between which a loop may run; `table_` grows with each
exposure and may move (`block`), while sd-bus keeps the address it was given (`registered`). A loop
processes a request by `Process`, a look at sd-bus's registration, the entry found through the vtable,
and the member, which may emit; the answer of a member is a result, an error because its value cannot be
sent, or, for a method without a value (kind `procedure`), whatever sd-bus adds to it after the handler
returned 0 (`AnswersTo`). With nothing to process the loop is in `sd_bus_wait`, inside sd-bus without the
mutex. The mutex of a connection is taken for an emit or an expose, or not
(`careless`). Where the code reads memory that is gone or being written, the program may end (`dead`).
`RemoteObjects` composes this with an application on the other side, whose proxies hold an interface
weakly, are moved, and make their call when they are destroyed; `interface_async_base` declares a
destructor (`dbus_interface_base.hpp` 142), so that moving a proxy copies what it calls, and both make
the call. A call becomes a request of `ExposedObjects` on the connection where its destination lives
(`ServiceOf`), and `AsyncCalls` says what becomes of it on the calling side.
`RequestService` is the abstract promise of the exposing program: each connection serves its requests
one at a time in the order they came in, runs the handler of the member that was asked for, once, or
none, and answers: only a request whose handler ran gets a result, and an error may come instead of it or
after it; what was sent is final, and a program that
has ended does nothing. `RemoteObjects` implements it: a connection's line is the request that is
processed (`current`) and the `queue`, so that taking up a request is a stutter.

`AsyncCalls`, `EventLoop`, `SignalSlots` and `ExposedObjects` share the mutex and the loop's thread and
each abstracts the others: `EventLoop` has callbacks without calls, the others have the loop of a
working connection.

`*_MC` modules declare the values and symmetry of the runs; `*_proofs` modules hold the proofs.

## Runs

| run | instance | what it shows |
|---|---|---|
| `calls` | 2 threads, 2 calls, 7 pairs of kinds with callbacks that return and an asynchronous call with 13 pairs of callbacks that throw or are omitted, fair; 88 000 states | types; one thread in sd-bus beside a loop that waits; a callback sees its stored context and slot; an unset slot is given back only after a call that threw; no outcome lost or told twice; only an error callback takes the process down; accepted calls complete; no thread waits forever; `~dbus` ends; `CallOutcome` |
| `calls_omitted` | 1 call without an error callback | **violation**: README 188 says it can be left out |
| `loop_careful` | 2 loops, one of which may refuse to go on, the blocking loop, another thread, 1 failure, 1 message at a time, fair, every habit but `restart` and `stopWithMutex` | a started loop runs and drains the connection; `is_running` is accurate; `stop()` is near its end in every state (`StopIsNear`), and ends; a closed connection is not used; the process ends only for what the application did |
| `loop_restart` | habit `restart` | **violation**: the restarted thread ends at once |
| `loop_destroy` | habit `destroy` | **violation**: `~dbus` after the error callback ended the loop is fatal |
| `signals_careful` | 2 threads, 2 listeners on one of 2 signals each, 2 messages of one of them, fair, error callbacks may throw | no handler on a freed object; one owner each; one thread in sd-bus beside a loop that waits; one listener hears a message and is told; `SignalDelivery`; signals are processed |
| `signals_release` | habit `plainDelete` | **violation**: a released slot is freed under its callback |
| `messages` | every type one or two levels deep and the deeper ones where readers change, alone and in pairs, arrays of 0 to 2 elements, bare and wrapped in variants; author and generator; both orders; 2 variants, 1 append; 79 000 states | which types arrive whole, and that at the end of an array of strings only may reading them crash; a handler is called at the end of its message; variants can be reread, copied and appended, and what moves them |
| `arrays` | arrays of structures | **violation**: the last element is not read |
| `strings` | arrays of strings and object paths | **violation**: the last read makes a string of a pointer that was not set |
| `generator` | what the generator declares for types that are introspected | **violation**: the values of a dictionary get the type of its keys |
| `objects` | 2 connections, 1 thread, 1 interface with two methods (one without a value), a property and a signal, exposed up to twice; 2 requests by proxies, each way of asking on a connection of its own, fair; 181 000 states | `RequestService`; a request runs the handler of its member, once, and is answered; beside a loop that waits, one thread in sd-bus while the mutex is taken; each program ends for the named reasons only |

Bounds. Two calls are the least where one is made from a callback of another, where two threads
compete and where a store holds more than one context; callbacks of different calls never overlap, and
the safety of any number of calls is proved. Two threads and the loop's are every role there is. The pairs of kinds that are left out differ from one of the seven only in a
second asynchronous call; callbacks that throw are paired with a synchronous call any thread may make,
also the callback itself. In `EventLoop`, two loops allow one to replace another, one with an error callback that may refuse
(`Refusing`) and one whose application knows it never does. One failure meets every place where one may
happen and every error callback (unset, being assigned, set; it continues, refuses or throws); after it a loop goes on as before, has ended, or the process has.
`MaxErrors` and `MaxPending` only bound counters, and the theorems are for any. Two listeners on one
signal is the least where the end of a dispatch matters, and a second signal lets one of them listen to
what is never sent; two messages let one wait while another is
dispatched. Types are three levels deep where a reader of one level hands over to another and the
results of both are looked at; arrays of 0, 1 and 2 elements are the empty one, the one that is first
and last, and the one that has both. Two variants are a source and a copy; `MaxAppends` keeps the
message that is written finite. In `objects`, two exposures are the least where a table moves, two
connections the least where both point into it, two requests let a proxy be moved or one wait for
another. Proxies ask for a method without a value, whose answers are the most, on one connection and for a
property on the other (`Asked`, `Services`); four members include an offset other than the first and a kind that has no handler.
No state constraint is used. Symmetry is used where it is sound: only where no liveness is checked.

Fairness. Threads are scheduled (weak fairness of their steps). Callbacks and members of the
application return, each call has a finite timeout and `sd_bus_wait` a finite delay, so the loop's
steps are fair too. Taking the mutex is strongly fair: a thread that finds the mutex free again and
again gets it. For threads that call, this rests on the loop, which sleeps without the mutex whenever
nothing is left to do; for the loop, on an application that leaves the mutex again: the functions of `dbus` leave it
when they return (`OtherReturns`). In `RemoteObjects`
the return of a member is strongly fair, since a member that emits again and again is neither always
in its own code nor ever done. Whether calls are made, messages arrive, members throw or the
connection is destroyed is never assumed, only that a destructor that has begun goes on.

Deadlock is checked in every run of `AsyncCalls`, `EventLoop` and `SignalSlots`, where `Finished` is
the end of the program. `Messages` and `RemoteObjects` stop by themselves, when nothing is left to read
or to ask, or when a program has ended, so their configurations say `CHECK_DEADLOCK FALSE`; that nothing
gets stuck in `RemoteObjects` is `RequestsAreAnswered`.

## Proofs

Every safety property that a passing run checks is also proved, for finite
or infinite sets of whatever the constants name, and so are the three refinements (`KeepsPromise`,
`DeliversInTurn`, `ServesInTurn`). The proofs rest on the named assumptions about
constants in each module: that special values are no threads, calls, slots and so on, that sets of
behaviours are among those that exist, that a loop's thread belongs to one connection, and, about data,
that types and values are made of types and values (see below).

`AsyncCalls_proofs`:

* `TypeCorrect`, `OnlyWaitersAreUnlocked`: the types, and one thread in sd-bus beside one that is in
  `sd_bus_wait` (`WaitsInBus`). This is not inductive, because a recursive mutex is free only when its count is 0. `LockInv` says that for every
  thread the number of locks it holds by its position (`Levels`: around a property function, in the
  call, around `sd_bus_process`) is `depth` if it is the owner and 0 otherwise. With `CallInv` (a
  thread in a call knows it; the loop's thread makes calls from callbacks only) and `TypeOK` this is
  preserved by every action.
* `CallbacksSeeTheirContext`: `ContextInv` adds that a call is made by one
  thread, that a slot is unset until `SetSlot`, and that a call known to sd-bus is stored and has its
  slot, or its caller is about to set it. The lemma `ProcessedIsSet` is the heart: while the loop's
  thread is in `sd_bus_process` nobody is about to set a slot, since both own the mutex.
* `MutexIsGivenBack`: `LockInv` also says that the mutex is free exactly when its count is 0, so its
  owner holds it by a position in a call or in `sd_bus_process`, and nothing is left of it afterwards.
* `CallsReportOnce`: `ReportInv` says at every step of the handler what
  the callbacks of the current call have been told, and that unsent and registered calls have been
  told nothing.
* `CrashesByErrorCallback`: after `crashed` nothing moves (`CrashIsFinal`), and only `Escape` sets it
  (`OnlyEscapeCrashes`), whose guard then speaks of the error callback of the current call.
* `WildUnrefsAfterThrow`: `GarbageInv` says that an uninitialised `slot_` belongs to a call sd-bus
  refused and whose caller has the exception or is in its throw; `Destroy` waits for the callers, so
  that then every one of them has it.
* `PromiseKept`: `Spec => KeepsPromise`. Steps that change nothing a caller sees stutter
  (`InvisibleStep`), the seven that do change the outcome of one call (`VisibleStep`), `Destroy` is
  `Die`.

`SignalSlots_proofs`, in four layers, each preserved given the ones before it:

* `LockingInv` (types, what a thread has in hand, the count of the recursive mutex by position).
* `OwningInv`: a slot object that lives is kept, released or in the hands of one thread; sd-bus's
  matches are live and not those a thread has yet to match. `MatchedAreLive` and `EveryoneHasOneOwner`
  follow, the latter with the cardinalities of singletons.
* `DispatchInv`: a message is in the queue once; while a handler runs, the one callee is `current` and
  has been told as often as its step says; a message that is done with had one callee, or nobody
  listens any more who did when it was emitted. `OneListenerHears` follows, and so does the step
  from `SignalSlots` to `SignalDelivery`.
* `CurrentInv`, for an application without `plainDelete`: `PlainInv` leaves deletion without the mutex
  to the time after the connection, so that nobody but the loop's thread has work while it is in sd-bus
  (`LoopAlone`), and the object whose handler runs is live. `CalledAreLive` and `OnlyWaitersAreUnlocked`
  follow. With `plainDelete` both are false, which is what `signals_release` shows.

`SignalsDeliveredInTurn`, `Spec => DeliversInTurn`, holds for every habit and needs `LockingInv` and
`DispatchInv` only: a match that succeeds is `Listen`, a slot object that gives its slot back is `Forget`,
an emission is `Send`, the call of a handler is `Hear`, each callback it enters is `Tell`, the end of a
dispatch is `Finish`, `~dbus` and an exception that escapes are `End`; taking a message out of the queue
(`ProcessIsUnseen`) and every other statement stutters. While the loop is in a handler, its message is at
the head of the line (`ItsTurn`); one that is being dispatched was heard by nobody yet, and a handler that
returns has told.

`EventLoop_proofs`: each theorem excludes only the habit that makes it false: with it in
`Habits`, the configuration of `loop_careful` refutes the property.

* Whatever the habits: `TypeCorrect`, and `OneLoopRuns` with `ThreadInv`: one loop at most has a thread,
  `start()` makes a thread only when there is none, and `stop()` joins one that exists.
* Without `restart`: `StartedLoopsRun`, `IsRunningIsTrusted` and `ClosedBusIsLeftAlone`, from `LoopInv`: a
  thread leaves its loop only because `stop()` waits for it or because its error callback refused
  (`LeaveInv`), `start()` sets both flags before there is a thread and at all other times
  `actually_running_` tells where the thread is (`StartInv`), and `~dbus` gets past its look at the loop
  only when no thread is in it (`DestroyInv`).
* Without `restart`: `CrashesEarned`, from `CrashInv`: which loops may have a thread when their object is
  destroyed, and when a callback may be assigned while there is one to read it. What ends the process is
  always a cause that is named and that its place in the code shows: it is the loop whose thread met the
  error that had no callback, the loop that was replaced or whose error callback had refused.
* Without `stopWithMutex`: `StopComesNearer`, from `MutexInv`: the mutex is with a thread in
  `sd_bus_process`, with another thread in a call, or with the controlling thread between two commands or
  in the blocking loop. It is the
  safety half of `StopEnds`: the thread that is joined may wait for the mutex, but only for another thread's
  call, which ends without it, and has fewer steps left
  (`StepsLeft`) after each it takes, so that fair scheduling is all that is missing. With the habit
  `stop()` joins a thread that waits for its caller's mutex.

`loop_restart` shows what becomes of the theorems that exclude its habit, `loop_destroy` what the
destructor's promise is worth with its own.

`RemoteObjects_proofs`: `RemoteInv` has a part per subject, and each has a lemma that it is preserved,
so that a step is looked at only for the parts it touches.

* `RequestsReachMembers`: `TableInv` (the place in a vtable is that of the member in the table, which
  grows only at its end, so it holds however often an interface is exposed), `PlaceInv` (a request is in
  one queue once or is the current one of one connection), `ReachedInv` (how far it has come says which
  handlers it ran and what was sent for it).
* `BusIsUsedAlone`: `MutexInv`, whoever is in sd-bus or on the way there owns the mutex, but for a loop
  that waits, until somebody does without it.
* `EndsEarned`: `ExposeInv`, one thread exposes an interface at a time, and of one that was exposed once
  sd-bus has the address of its table, with the vtable filled, or nothing.
* `RequestsServedInTurn`: `Spec => ServesInTurn`. Calls by proxies are `Ask`, `CallEntry` into a member
  is `Run`, the three ways a request is finished are `Answer`, what ends the program is `End`, and every
  other step stutters. By `AnswerInv`, a part of `RemoteInv`, what waits or is processed is not answered
  yet, so that what was sent is final.

The proofs about messages are for any set of types and values that is closed under taking parts
(`TypesAssumption`, `ValuesAssumption`: sd-bus sees to it that a value holds what its type says), any
messages, handlers and variants. No induction over types is needed: a step of the reader touches the two
innermost scopes only, so what is said of every scope is preserved however many there are.

`MessageReader_proofs`: every action of the reader is one of seven kinds of step (`StepKinds`), which
enter a container, pretend to, give a value, close a loop, leave a container, throw or crash; what is proved
of scopes is proved per kind.

* `ReaderInv`: the message and the scopes are well formed, and each scope may be called by the one below.
* `Placed(start)`: as long as every scope has a container, the outermost one is at the value that
  follows the first `start`, or right behind it. A scope that only pretended to enter one (a structure
  at the end of an array) and those above it have fewer containers than scopes; that there are never
  more (`PlacedKept`) is why a read that ends has left all it entered.
* `Suited(kinds)`: what a scope has received is of its type. A scope of `unpack_variant` has its value
  before it, since a variant holds one (`UnpackReady`), so it never returns the nothing that reading at
  the end of an array gives.

`Messages_proofs`: `Inv` is `Incoming`, `Arguments`, `Reader`, `Reading` (between two parameters as many
values are read as parameters; within one, `Placed` and `Suited`), `Handling` and `Variants` (a variant
whose value is known holds it). From it follow `MessagesTypeCorrect`, `CallsAreAtTheEnd` for types of
every kind, readable or not, and about variants `CopiedWhole`, `AppendedBare` and
`MovedByThrowsAndAppends`.

`Readables_proofs`: that what is readable arrives (`ReadablesArrive`, `FreshVariantsReread`). For that
it must be said of every open container whose it is. `Nested(k, w)`: the scope `k` was opened for the
value that the container below has just passed, its own container holds exactly the parts of that value,
it has received as many of them as the place in the container says, and what it will give is that
value. `Whole(start, w)`: the read began with `w`, or a variant of it, after `start` others, and every
scope is nested. It is preserved by every kind of step (`WholeKept`), excludes the reasons for which
a reader throws (`NoThrows`) and that a container is pretended to be entered (`NoPretence`), and ends in
`w` (`WholeEnds`). `Whereabouts` states it of parameters (`Arriving`) and loads (`Rereading`). Two
assumptions name what it is true of. `ReadablesAssumption`: arrays are of basic types, or of arrays of
them, at any depth of tuples and maps. `PlainsAssumption`: no variant holds a variant, since each of them
loses a wrapper, and no dictionary has a key twice, since `emplace` keeps the first.

A fourth thing is not assumed but said: reading an array of strings ends in a read at the end of the
array, with a pointer that was not set, and whether that crashes is the compiler's choice. `CrashesOnly`
shows that a read of readable types crashes there only, so that `ReadablesArrive` leaves no other way for
a parameter not to arrive.

Only model-checked: the liveness properties (of `StopEnds`, the part that is safety is proved), since
liveness under fairness is out of the prover's reach.

## What the code does that its documentation does not say

The seven violation runs above; their findings in `PROJECT.json` quote both sides. Besides, stated by
properties as it is:

* `bus.hpp` 459-461 offers the mutex "to synchronize bus operation with other sd_bus calls". Whoever holds
  it is not alone: the loops call `sd_bus_wait` without it (`busy_loop.cpp` 61,
  `bus.cpp` 185), beside any thread that calls (`OnlyTheWaitIsUnlocked`, `SharedOnlyUnlocked`).
* `make_busy_loop` starts its thread, so the README's example (`README.md` 393-397) assigns the error
  callback while that thread may read it: the first error may find none, or half of one
  (`CrashesAreEarned`, habit `setLate`).
* A message or error callback of the loop that throws, or that stops its own loop, ends the process: nothing
  in the thread catches it (`CrashesAreEarned`).
* An error answer or a timeout whose content fits may reach the success callback, since the handler
  looks at `ret_error` only (`FirstCallbackSteps`).
* The context of a call stays in the store when it has completed: `slot_holder::erase` looks it up and
  erases nothing (`Erase`), so memory grows until `~dbus`.
* A handler of a signal always returns a value other than 0, so of two listeners on one signal only one
  hears a message (`HeardByOneListener`).
* Arrays of basic types, and arrays of those, are read, but for what becomes of the last read of an array
  of strings. Arrays of structures lose their last element;
  arrays of variants, of dictionaries and arrays three deep fail or lose elements (`Readable`).
* The generator also forgets arrays that are no dictionaries, and refuses
  structures and dictionaries of anything longer than a character (`TypeParser`).
* A variant that came in is appended without its wrapper, and appending leaves it at its end
  (`AppendsAreBare`, `OnlyThrowsAndAppendsMoveVariants`). A copy of a variant that was read in part
  holds the rest.
* `expose` and `emit` take no lock. The README's example emits with the loop installed; only with
  `dbus::mutex()` held is the connection used by one thread at a time beside the wait
  (`SharedOnlyUnlocked`, `EndsAreEarned`).
  Exposing an interface twice may leave sd-bus with the address of memory that is gone.
* A member that ran may be answered by an error, when its value cannot be sent; a method without a value
  always returns 0 to sd-bus, which takes its request for unhandled and answers it again
  (`RequestReachesMember`, `AnswersTo`).
* A proxy that was moved from still has what it needs to call, and calls too (`MoveProxy`). The proxy of a
  method that is destroyed without its interface calls through a null pointer (`EndsAreEarned`).

## Not modelled

* Opening connections: one call of sd-bus and a check of its result.
* Message ownership: straight-line code, in which no order of calls matters. The constructor of a new
  message takes a second reference (`S/message.cpp` 23), and the move constructor leaves `view` unset.
* The interface builder: assignments by one thread before an interface is exposed. Its test for
  the index of a signal's parameter is the wrong way round: without an index the name is stored at -1
  (`interface_builder.hpp` 269).
* Appending containers, `resolvable_variant`, `release` of variants and `custom_value`.
* Reading introspection XML and the text the generator writes; declaration macros and templates of
  interfaces (compile time); the HTML documentation with its scripts, which doxygen generated.
* Two threads in `expose` for the same interface: `ExposedObjects` has one thread at a time for each.
* Two uses C++ gives no meaning to: a listener that deletes itself, and `~dbus` while another thread is
  in a function of the same object.

What could be added next: the append proxies of containers, read back by `MessageReader`; the references
of messages through handlers and contexts, if the two lines above are changed; and a composition of
`AsyncCalls` with `RemoteObjects`, which now meet at a request.

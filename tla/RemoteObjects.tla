---------------------------- MODULE RemoteObjects ----------------------------
(***************************************************************************)
(* A program that uses interfaces of another one: the asynchronous proxies *)
(* of dbus_interface_base.hpp and properties.hpp, composed with the        *)
(* interfaces the other program exposes (ExposedObjects).                  *)
(*                                                                         *)
(* Calling a method or accessing a property asynchronously gives a proxy,  *)
(* which holds the interface weakly.  Its destructor makes the call.  A    *)
(* proxy can be moved, but what it was moved from goes on holding the      *)
(* interface and makes the call too: the virtual destructor of its base    *)
(* leaves that without a move of its own, so it is copied.  What becomes   *)
(* of a call that was made is the matter of AsyncCalls; here it is a       *)
(* request to the other program.                                           *)
(***************************************************************************)
EXTENDS ExposedObjects

CONSTANTS
    Wishes,   \* what the application's proxies are for; an author may be wrong about it
    ServiceOf \* the connection that the interface of a wish is found on

ASSUME WishesAssumption ==
    /\ Wishes \subseteq [object : Objects, member : Members, use : Uses]
    /\ ServiceOf \in [Wishes -> Buses]

VARIABLES
    life,      \* per proxy, which has the number of its request: "none", "live",
               \* "ended"
    wish,      \* per proxy: what it is to ask for
    interface, \* the interfaces the application has not dropped
    ending     \* "no", or what ended the application

application == <<life, wish, interface, ending>>
program == <<locks, threads, memory, careless, registered, dead>>
remoteVars == <<vars, application>>

RemoteTypeOK ==
    /\ TypeOK
    /\ life \in [Requests -> {"none", "live", "ended"}]
    /\ wish \in [Requests -> Wishes \cup {NoUse}]
    /\ interface \in SUBSET Objects
    /\ ending \in {"no", "gone", "refused"}
    /\ \A r \in Requests : target[r] # NoUse => life[r] = "ended" /\ wish[r] = target[r]

RemoteInit ==
    /\ Init
    /\ life = [r \in Requests |-> "none"]
    /\ wish = [r \in Requests |-> NoUse]
    /\ interface = Objects
    /\ ending = "no"

Works == ending = "no"

\* A method is called on the interface, and a property throws when that is gone.
CreateProxy(r, use) ==
    /\ Works /\ life[r] = "none" /\ use.object \in interface
    /\ life' = [life EXCEPT ![r] = "live"]
    /\ wish' = [wish EXCEPT ![r] = use]
    /\ UNCHANGED <<interface, ending, requests, program>>

\* base_ and base_params_ are copied, and only the parameters of the call are moved.
MoveProxy(r, s) ==
    /\ Works /\ life[r] = "live" /\ life[s] = "none"
    /\ life' = [life EXCEPT ![s] = "live"]
    /\ wish' = [wish EXCEPT ![s] = wish[r]]
    /\ UNCHANGED <<interface, ending, requests, program>>

DropInterface(o) ==
    /\ Works /\ o \in interface
    /\ interface' = interface \ {o}
    /\ UNCHANGED <<life, wish, ending, requests, program>>

Locks(r) == wish[r].object \in interface

EndProxy(r) ==
    /\ Works /\ life[r] = "live"
    /\ life' = [life EXCEPT ![r] = "ended"]
    /\ UNCHANGED <<wish, interface, program>>

\* The destructor makes the call.
CallByProxy(r) ==
    /\ EndProxy(r) /\ Locks(r)
    /\ Arrive(r, ServiceOf[wish[r]], wish[r])
    /\ UNCHANGED ending

\* A call that throws leaves a destructor, which is noexcept.
RefusedCall(r) ==
    /\ EndProxy(r) /\ Locks(r)
    /\ ending' = "refused"
    /\ UNCHANGED requests

\* Without the interface, the proxy of a property does nothing, and that of a method
\* goes on with a null pointer.
EndWithoutInterface(r) ==
    /\ EndProxy(r) /\ ~Locks(r)
    /\ ending' = IF wish[r].use = "call" THEN "gone" ELSE ending
    /\ UNCHANGED requests

ApplicationNext ==
    \/ \E r \in Requests :
          \/ \E use \in Wishes : CreateProxy(r, use)
          \/ \E s \in Requests : MoveProxy(r, s)
          \/ CallByProxy(r)
          \/ RefusedCall(r)
          \/ EndWithoutInterface(r)
    \/ \E o \in Objects : DropInterface(o)

Next == (ProgramNext /\ UNCHANGED application) \/ ApplicationNext

Spec == RemoteInit /\ [][Next]_remoteVars

\* The loops run, members return, threads that use sd-bus get on with it, and a loop
\* gets the mutex in the end.
Fairness ==
    /\ \A b \in Buses :
          /\ WF_remoteVars(LoopStep(b) /\ UNCHANGED application)
          /\ SF_remoteVars(Process(b) /\ UNCHANGED application)
          /\ SF_remoteVars(ReturnFromMember(b) /\ UNCHANGED application)
    /\ \A u \in Users : WF_remoteVars(UserStep(u) /\ UNCHANGED application)

FairSpec == Spec /\ Fairness

-----------------------------------------------------------------------------
(* Properties. *)

\* The handler that runs for what a proxy asks is that of the member it asked for, once,
\* in the way it asked; only a request whose handler ran gets a result, and only a
\* method without a value has an error sent after it (~interface_async_proxy,
\* calculate_offset in expose, and the handlers in bindings/exposables).
RequestReachesMember ==
    \A r \in Requests :
        /\ reached[r] \in {<<>>, <<target[r]>>}
        /\ answer[r] \notin {<<>>, <<"error">>} => reached[r] # <<>>
        /\ answer[r] = <<"result", "error">> => KindOf[target[r].member] = "procedure"

\* The thread of a loop that is in sd_bus_wait beside another one in sd-bus.
WaitsBeside(b) == pc[LoopOf[b]] = "wait" /\ inside[b] # {LoopOf[b]}

\* The program ends by itself only for a member that throws while its request is
\* unanswered; for an interface that was exposed more than once, which leaves sd-bus
\* with the address of a table that was moved; for an emit or expose without the mutex;
\* or because its loop waits without the mutex (expose, emit, busy_loop).  An
\* application ends only for a call that its connection refuses, or for a proxy of a
\* method that outlived its interface; that asks for nothing (~interface_async_proxy).
EndsAreEarned ==
    /\ dead = "exception" => \E r \in Requests : reached[r] # <<>> /\ answer[r] = <<>>
    /\ dead = "dangling" => \E o \in Objects : exposures[o] > 1
    /\ dead = "race" =>
          \/ careless
          \/ \E o \in Objects : exposures[o] > 1
          \/ \E b \in Buses : WaitsBeside(b)
    /\ ending # "no" => \E r \in Requests :
          /\ life[r] = "ended" /\ target[r] = NoUse
          /\ IF ending = "gone"
             THEN wish[r].use = "call" /\ wish[r].object \notin interface
             ELSE wish[r].object \in interface

\* Beside a loop that waits, two threads are in sd-bus for one connection only after the
\* mutex was not taken for an emit or an expose: a loop that processes, and all who take
\* the mutex, exclude each other (busy_loop).
SharedOnlyUnlocked ==
    \A b \in Buses :
        Cardinality({t \in inside[b] : pc[t] # "wait"}) > 1 => careless

\* What is not answered on a connection: the request that is processed, and the queue.
Line(b) == (IF current[b] = NoRequest THEN <<>> ELSE <<current[b]>>) \o queue[b]

Service == INSTANCE RequestService WITH
    Asks <- Wishes,
    Nothing <- NoUse,
    asked <- target,
    line <- [b \in Buses |-> Line(b)],
    ran <- reached,
    alive <- dead = "no"

\* However often an interface is exposed and whoever emits meanwhile, every behaviour
\* of the two programs is one RequestService allows: what a proxy asks for is served
\* in its turn, by the handler of that member, and answered (expose, the handlers
\* in bindings/exposables, and the loop).
ServesInTurn == Service!Spec

\* What a proxy asks for is answered, unless the other program ends: the loop comes to
\* it, sd-bus or the handler answers, and nothing keeps the mutex for good.  Since
\* requests are finitely many and answers are final, every request is answered when
\* again and again none is open.
RequestsAreAnswered ==
    []<>(dead # "no" \/ \A r \in Requests : target[r] # NoUse => answer[r] # <<>>)

=============================================================================

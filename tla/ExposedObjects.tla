--------------------------- MODULE ExposedObjects ---------------------------
(***************************************************************************)
(* Interfaces that a program exposes on its connections.                   *)
(*                                                                         *)
(* exposable_interface::expose (bindings/exposable_interface.hpp) fills a  *)
(* table with the members of the interface and a vtable with their places  *)
(* in it, and gives the addresses of both to sd-bus, which keeps them.     *)
(* The thread of a connection's loop runs sd_bus_process with the mutex,   *)
(* and sd_bus_wait without it when there was nothing to process; sd-bus    *)
(* adds the place it finds in the vtable to the address of the table and   *)
(* calls the handler of the member (bindings/exposables).  Threads of the  *)
(* application expose interfaces and emit signals; so do members that are  *)
(* called.                                                                 *)
(*                                                                         *)
(* Neither emit nor expose_interface takes the mutex of the connection;    *)
(* the application may take it.  Whether it does, and whether a member     *)
(* throws, is chosen afresh each time.  Where the code reads memory that   *)
(* is gone or that another thread writes, the program ends.                *)
(***************************************************************************)
EXTENDS Naturals, Sequences, FiniteSets

CONSTANTS
    Buses,       \* connections of the program, each with a loop
    NoBus,
    Users,       \* threads of the application
    LoopOf,      \* the thread of each connection's loop
    NoThread,
    Objects,     \* interfaces that are exposed
    NoObject,
    Layout,      \* the members of an interface: methods, properties, signals
    KindOf,      \* per member, see Kinds
    Requests,    \* requests of peers (a bound on their number)
    NoRequest,
    MaxExposures \* a bound on how often an interface is exposed

Loops == {LoopOf[b] : b \in Buses}
Threads == Users \cup Loops
Members == {Layout[i] : i \in DOMAIN Layout}
Uses == {"call", "get", "set"}
Kinds == {"method", "procedure", "property", "signal"} \* a procedure returns void

ASSUME ObjectsAssumption ==
    /\ \A a, b \in Buses : LoopOf[a] = LoopOf[b] => a = b
    /\ Users \cap Loops = {}
    /\ NoThread \notin Threads
    /\ NoBus \notin Buses
    /\ NoObject \notin Objects
    /\ NoRequest \notin Requests
    /\ Layout \in Seq(Members)
    /\ \A i, j \in DOMAIN Layout : Layout[i] = Layout[j] => i = j
    /\ KindOf \in [Members -> Kinds]
    /\ MaxExposures \in Nat

VARIABLES
    owner,      \* per connection: the thread that has its mutex
    inside,     \* per connection: the threads in sd-bus
    pc,         \* per thread: its next statement
    job,        \* per thread: the interface and the connection it exposes or emits on
    bus,        \* per interface: bus_
    table,      \* per interface: the members in table_
    block,      \* per interface: the memory table_ is in
    vtable,     \* per interface: the place of each member, 0 while vtable_ is filled
    exposures,  \* per interface: how often it was exposed
    careless,   \* the mutex was not taken for an emit or an expose
    registered, \* sd-bus: per connection and interface, the memory of the table it was
                \* given, 0 for none
    queue,      \* per connection: the requests that came in
    target,     \* per request: what its sender asks for
    reached,    \* per request: the members whose handlers ran, and how
    answer,     \* per request: what was sent for it, in order
    current,    \* per connection: the request that is processed
    dead        \* "no", or what ended the program

locks == <<owner, inside>>
threads == <<pc, job>>
memory == <<bus, table, block, vtable, exposures>>
requests == <<queue, target, reached, answer, current>>
vars == <<locks, threads, memory, careless, registered, requests, dead>>

Use(o, m, use) == [object |-> o, member |-> m, use |-> use]
NoUse == Use(NoObject, NoObject, "none")
Job(o, b) == [object |-> o, bus |-> b]
NoJob == Job(NoObject, NoBus)

UserSteps == {"idle", "build", "register", "emit"}
LoopSteps == {"idle", "wait", "lookup", "body", "emit"}
WithoutRequest == {"idle", "wait"}
AnswersSent == {<<>>, <<"result">>, <<"error">>, <<"result", "error">>}

\* Only members of the interface are ever in a table, and a loop has a request
\* exactly while it is in sd-bus with the mutex.
TypeOK ==
    /\ owner \in [Buses -> Threads \cup {NoThread}]
    /\ inside \in [Buses -> SUBSET Threads]
    /\ pc \in [Threads -> UserSteps \cup LoopSteps]
    /\ job \in [Threads -> [object : Objects \cup {NoObject}, bus : Buses \cup {NoBus}]]
    /\ bus \in [Objects -> Buses \cup {NoBus}]
    /\ table \in [Objects -> Seq(Members)]
    /\ block \in [Objects -> Nat]
    /\ vtable \in [Objects -> [Members -> Nat]]
    /\ exposures \in [Objects -> 0 .. MaxExposures]
    /\ careless \in BOOLEAN
    /\ registered \in [Buses -> [Objects -> Nat]]
    /\ queue \in [Buses -> Seq(Requests)]
    /\ target \in [Requests -> [object : Objects, member : Members, use : Uses]
                               \cup {NoUse}]
    /\ reached \in [Requests -> Seq([object : Objects, member : Members, use : Uses])]
    /\ answer \in [Requests -> AnswersSent]
    /\ current \in [Buses -> Requests \cup {NoRequest}]
    /\ dead \in {"no", "dangling", "exception", "race"}
    /\ \A b \in Buses :
          /\ current[b] = NoRequest <=> pc[LoopOf[b]] \in WithoutRequest
          /\ pc[LoopOf[b]] \notin WithoutRequest => owner[b] = LoopOf[b]
          /\ pc[LoopOf[b]] # "idle" => LoopOf[b] \in inside[b]

Init ==
    /\ owner = [b \in Buses |-> NoThread]
    /\ inside = [b \in Buses |-> {}]
    /\ pc = [t \in Threads |-> "idle"]
    /\ job = [t \in Threads |-> NoJob]
    /\ bus = [o \in Objects |-> NoBus]
    /\ table = [o \in Objects |-> <<>>]
    /\ block = [o \in Objects |-> 1]
    /\ vtable = [o \in Objects |-> [m \in Members |-> 0]]
    /\ exposures = [o \in Objects |-> 0]
    /\ careless = FALSE
    /\ registered = [b \in Buses |-> [o \in Objects |-> 0]]
    /\ queue = [b \in Buses |-> <<>>]
    /\ target = [r \in Requests |-> NoUse]
    /\ reached = [r \in Requests |-> <<>>]
    /\ answer = [r \in Requests |-> <<>>]
    /\ current = [b \in Buses |-> NoRequest]
    /\ dead = "no"

Runs == dead = "no"

Goto(t, step) == pc' = [pc EXCEPT ![t] = step]

-----------------------------------------------------------------------------
(* The mutex and sd-bus. *)

\* The application takes the mutex of b, or does without it.
MayLock(t, b) ==
    \/ /\ owner[b] = NoThread
       /\ owner' = [owner EXCEPT ![b] = t]
       /\ UNCHANGED careless
    \/ /\ owner[b] = t
       /\ UNCHANGED <<owner, careless>>
    \/ /\ owner[b] # t
       /\ careless' = TRUE
       /\ UNCHANGED owner

\* mutant: a mutex is given back only by a loop
Unlocked_Loop(t, b) == IF owner[b] = t /\ t \in Loops THEN NoThread ELSE owner[b]

Unlocked(t, b) == IF owner[b] = t THEN NoThread ELSE owner[b]

\* t is done with sd-bus, and gives back the mutex unless it holds it for its loop.
Leave(t, b) ==
    IF current[b] # NoRequest /\ t = LoopOf[b]
    THEN UNCHANGED locks
    ELSE /\ inside' = [inside EXCEPT ![b] = @ \ {t}]
         /\ owner' = [owner EXCEPT ![b] = Unlocked(t, b)]

-----------------------------------------------------------------------------
(* exposable_interface::expose *)

\* bus_ is set and vtable_ emptied.
StartExpose(u, o, b) ==
    /\ Runs /\ pc[u] = "idle"
    /\ exposures[o] < MaxExposures
    /\ \A t \in Threads : job[t].object # o
    /\ MayLock(u, b)
    /\ Goto(u, "build")
    /\ job' = [job EXCEPT ![u] = Job(o, b)]
    /\ bus' = [bus EXCEPT ![o] = b]
    /\ vtable' = [vtable EXCEPT ![o] = [m \in Members |-> 0]]
    /\ exposures' = [exposures EXCEPT ![o] = @ + 1]
    /\ UNCHANGED <<inside, table, block, registered, requests, dead>>

\* mutant: the place is taken before the member is added
PlaceIn_Before(t, m) == Len(t) + (CHOOSE i \in DOMAIN Layout : Layout[i] = m) - 1

\* The place of a member that is added to a table: calculate_offset, counted from 1.
PlaceIn(t, m) == Len(t) + (CHOOSE i \in DOMAIN Layout : Layout[i] = m)

\* The members are added to what table_ holds already, which may move it.
BuildTables(u) ==
    LET o == job[u].object
    IN  /\ Runs /\ pc[u] = "build"
        /\ vtable' = [vtable EXCEPT ![o] = [m \in Members |-> PlaceIn(table[o], m)]]
        /\ table' = [table EXCEPT ![o] = @ \o Layout]
        /\ \/ block' = [block EXCEPT ![o] = @ + 1]
           \/ table[o] # <<>> /\ UNCHANGED block
        /\ inside' = [inside EXCEPT ![job[u].bus] = @ \cup {u}]
        /\ Goto(u, "register")
        /\ UNCHANGED <<owner, job, bus, exposures, careless, registered, requests, dead>>

\* mutant: the address is taken before the members are added
TableAddress_Before(o) == block[o] - 1

\* &table_.front()
TableAddress(o) == block[o]

\* sd_bus_add_object_vtable refuses an interface it has.
Register(u) ==
    LET o == job[u].object
        b == job[u].bus
    IN  /\ Runs /\ pc[u] = "register"
        /\ registered' = IF registered[b][o] = 0
                         THEN [registered EXCEPT ![b][o] = TableAddress(o)]
                         ELSE registered
        /\ Leave(u, b)
        /\ Goto(u, "idle")
        /\ job' = [job EXCEPT ![u] = NoJob]
        /\ UNCHANGED <<memory, careless, requests, dead>>

-----------------------------------------------------------------------------
(* emitable::emit, which throws for an interface that was not exposed. *)

StartEmit(t, o) ==
    /\ Runs
    /\ \/ t \in Users /\ pc[t] = "idle"
       \/ \E b \in Buses : t = LoopOf[b] /\ pc[t] = "body"
    /\ bus[o] # NoBus
    /\ MayLock(t, bus[o])
    /\ inside' = [inside EXCEPT ![bus[o]] = @ \cup {t}]
    /\ job' = [job EXCEPT ![t] = Job(NoObject, bus[o])]
    /\ Goto(t, "emit")
    /\ UNCHANGED <<memory, registered, requests, dead>>

FinishEmit(t) ==
    /\ Runs /\ pc[t] = "emit"
    /\ Leave(t, job[t].bus)
    /\ job' = [job EXCEPT ![t] = NoJob]
    /\ Goto(t, IF t \in Users THEN "idle" ELSE "body")
    /\ UNCHANGED <<memory, careless, registered, requests, dead>>

-----------------------------------------------------------------------------
(* The loop. *)

\* A peer sends a request.
Arrive(r, b, use) ==
    /\ target[r] = NoUse
    /\ target' = [target EXCEPT ![r] = use]
    /\ queue' = [queue EXCEPT ![b] = Append(@, r)]
    /\ UNCHANGED <<reached, answer, current>>

\* mutant: the loop does not take the mutex
MutexFree_Ignored(b) == TRUE

MutexFree(b) == owner[b] = NoThread

\* sd_bus_process takes the first message that came in.
Process(b) ==
    /\ Runs /\ pc[LoopOf[b]] = "idle"
    /\ MutexFree(b)
    /\ queue[b] # <<>>
    /\ owner' = [owner EXCEPT ![b] = LoopOf[b]]
    /\ inside' = [inside EXCEPT ![b] = @ \cup {LoopOf[b]}]
    /\ current' = [current EXCEPT ![b] = Head(queue[b])]
    /\ queue' = [queue EXCEPT ![b] = Tail(@)]
    /\ Goto(LoopOf[b], "lookup")
    /\ UNCHANGED <<job, memory, careless, registered, target, reached, answer, dead>>

\* sd_bus_process had nothing to do, and the loop is in sd_bus_wait.
ProcessNothing(b) ==
    /\ Runs /\ pc[LoopOf[b]] = "idle"
    /\ MutexFree(b)
    /\ queue[b] = <<>>
    /\ inside' = [inside EXCEPT ![b] = @ \cup {LoopOf[b]}]
    /\ Goto(LoopOf[b], "wait")
    /\ UNCHANGED <<owner, job, memory, careless, registered, requests, dead>>

WaitOver(b) ==
    /\ Runs /\ pc[LoopOf[b]] = "wait"
    /\ inside' = [inside EXCEPT ![b] = @ \ {LoopOf[b]}]
    /\ Goto(LoopOf[b], "idle")
    /\ UNCHANGED <<owner, job, memory, careless, registered, requests, dead>>

\* What sd-bus calls a handler for.
Offers(m, use) ==
    \/ KindOf[m] \in {"method", "procedure"} /\ use = "call"
    \/ KindOf[m] = "property" /\ use \in {"get", "set"}

\* mutant: the request stays the current one
AfterRequest_Stays(b) == current[b]

AfterRequest(b) == NoRequest

\* The request is answered, and the loop leaves sd-bus and its mutex.
Finish(b, sent) ==
    /\ answer' = [answer EXCEPT ![current[b]] = sent]
    /\ current' = [current EXCEPT ![b] = AfterRequest(b)]
    /\ inside' = [inside EXCEPT ![b] = @ \ {LoopOf[b]}]
    /\ owner' = [owner EXCEPT ![b] = NoThread]
    /\ Goto(LoopOf[b], "idle")
    /\ UNCHANGED <<job, memory, careless, registered, queue, target, dead>>

\* sd-bus answers itself when it has no such member.
RefuseRequest(b) ==
    LET use == target[current[b]]
    IN  /\ Runs /\ pc[LoopOf[b]] = "lookup"
        /\ registered[b][use.object] = 0 \/ ~Offers(use.member, use.use)
        /\ Finish(b, <<"error">>)
        /\ UNCHANGED reached

\* The table was moved after sd-bus was given its address, or the vtable is filled by
\* a thread that exposes the interface again.
EntryGone(b, o) == registered[b][o] # block[o]
EntryTorn(o, m) == vtable[o][m] = 0

\* The handler visits the entry, which has the kind it wants or is an error; that of a
\* property that is written ignores the error.
CallEntry(b) ==
    LET r == current[b]
        use == target[r]
        entry == table[use.object][vtable[use.object][use.member]]
    IN  /\ Runs /\ pc[LoopOf[b]] = "lookup"
        /\ registered[b][use.object] # 0 /\ Offers(use.member, use.use)
        /\ ~EntryGone(b, use.object) /\ ~EntryTorn(use.object, use.member)
        /\ IF Offers(entry, use.use)
           THEN /\ reached' = [reached EXCEPT ![r] =
                                  Append(@, Use(use.object, entry, use.use))]
                /\ Goto(LoopOf[b], "body")
                /\ UNCHANGED <<locks, job, memory, careless, registered, queue, target,
                               answer, current, dead>>
           ELSE /\ Finish(b, IF use.use = "set" THEN <<"result">> ELSE <<"error">>)
                /\ UNCHANGED reached

\* What may be sent when a handler ran.  The value of a method or of a property may not
\* fit into the answer, which is an error then.  A method without a value answers, and
\* nobody looks whether that succeeded; its handler returns 0, by which sd-bus takes the
\* request for one that nobody handled.
AnswersTo(use) ==
    IF use.use = "set"
    THEN {<<"result">>}
    ELSE IF KindOf[use.member] = "procedure"
    THEN {<<"result", "error">>, <<"error">>}
    ELSE {<<"result">>, <<"error">>}

ReturnFromMember(b) ==
    /\ Runs /\ pc[LoopOf[b]] = "body"
    /\ \E sent \in AnswersTo(reached[current[b]][1]) : Finish(b, sent)
    /\ UNCHANGED reached

-----------------------------------------------------------------------------
(* The end of the program. *)

Dies(why) ==
    /\ dead' = why
    /\ UNCHANGED <<locks, threads, memory, careless, registered, requests>>

ReadGoneTable(b) ==
    LET use == target[current[b]]
    IN  /\ Runs /\ pc[LoopOf[b]] = "lookup"
        /\ registered[b][use.object] # 0 /\ Offers(use.member, use.use)
        /\ \/ EntryGone(b, use.object) /\ Dies("dangling")
           \/ EntryTorn(use.object, use.member) /\ Dies("race")

\* Nothing between the handler and the loop's thread catches an exception, and
\* reading or writing a value may throw one, or the member.
ThrowFromMember(b) ==
    /\ Runs /\ pc[LoopOf[b]] = "body"
    /\ Dies("exception")

\* A thread in sd-bus writes what another one there reads or writes; so may one that has
\* the mutex, beside the loop that waits.
CorruptBus(b) ==
    /\ Runs /\ Cardinality(inside[b]) > 1
    /\ Dies("race")

-----------------------------------------------------------------------------

LoopStep(b) ==
    \/ Process(b)
    \/ ProcessNothing(b)
    \/ WaitOver(b)
    \/ RefuseRequest(b)
    \/ CallEntry(b)
    \/ ReturnFromMember(b)
    \/ ReadGoneTable(b)
    \/ FinishEmit(LoopOf[b])

UserStep(u) == BuildTables(u) \/ Register(u) \/ FinishEmit(u)

ProgramNext ==
    \/ \E b \in Buses : LoopStep(b) \/ ThrowFromMember(b) \/ CorruptBus(b)
    \/ \E u \in Users :
          UserStep(u) \/ \E o \in Objects, b \in Buses : StartExpose(u, o, b)
    \/ \E t \in Threads, o \in Objects : StartEmit(t, o)

=============================================================================

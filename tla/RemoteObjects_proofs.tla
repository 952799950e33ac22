------------------------- MODULE RemoteObjects_proofs -------------------------
(***************************************************************************)
(* Proofs about RemoteObjects, for any number of connections, threads,     *)
(* exposed interfaces, members, requests and proxies, and however often an *)
(* interface is exposed.  The types are stated in parts, by what they are  *)
(* about, so that a step is looked at only for the parts it touches.       *)
(***************************************************************************)
EXTENDS RemoteObjects, FiniteSetTheorems, SequenceTheorems, TLAPS

LockTypes ==
    /\ owner \in [Buses -> Threads \cup {NoThread}]
    /\ inside \in [Buses -> SUBSET Threads]
    /\ careless \in BOOLEAN

\* Users and loops keep to their own steps, and have a job while they expose or emit.
ThreadInv ==
    /\ pc \in [Threads -> UserSteps \cup LoopSteps]
    /\ job \in [Threads -> [object : Objects \cup {NoObject}, bus : Buses \cup {NoBus}]]
    /\ \A u \in Users : pc[u] \in UserSteps
    /\ \A b \in Buses : pc[LoopOf[b]] \in LoopSteps
    /\ \A t \in Threads :
          /\ pc[t] \in {"build", "register", "emit"} => job[t].bus \in Buses
          /\ pc[t] \in {"build", "register"} <=> job[t].object # NoObject

MemoryTypes ==
    /\ bus \in [Objects -> Buses \cup {NoBus}]
    /\ table \in [Objects -> Seq(Members)]
    /\ block \in [Objects -> Nat]
    /\ vtable \in [Objects -> [Members -> Nat]]
    /\ exposures \in [Objects -> 0 .. MaxExposures]
    /\ registered \in [Buses -> [Objects -> Nat]]

Asked == [object : Objects, member : Members, use : Uses]

RequestTypes ==
    /\ queue \in [Buses -> Seq(Requests)]
    /\ target \in [Requests -> Asked \cup {NoUse}]
    /\ answer \in [Requests -> AnswersSent]
    /\ current \in [Buses -> Requests \cup {NoRequest}]

\* A loop has a request exactly while it is in sd-bus with the mutex; when it waits
\* there, it need not have that.
LoopInv ==
    \A b \in Buses :
        /\ current[b] = NoRequest <=> pc[LoopOf[b]] \in WithoutRequest
        /\ pc[LoopOf[b]] \notin WithoutRequest => owner[b] = LoopOf[b]
        /\ pc[LoopOf[b]] # "idle" => LoopOf[b] \in inside[b]

\* Every request that came in asks for something.
AskedInv ==
    /\ \A b \in Buses : \A i \in 1 .. Len(queue[b]) : target[queue[b][i]] # NoUse
    /\ \A b \in Buses : current[b] # NoRequest => target[current[b]] # NoUse

ApplicationTypes ==
    /\ life \in [Requests -> {"none", "live", "ended"}]
    /\ wish \in [Requests -> Wishes \cup {NoUse}]
    /\ interface \in SUBSET Objects
    /\ ending \in {"no", "gone", "refused"}
    /\ \A r \in Requests : target[r] # NoUse => life[r] = "ended" /\ wish[r] = target[r]

\* As long as everybody takes the mutex, who is in sd-bus or on the way there has it,
\* but for the loop that waits.
MutexInv ==
    ~careless =>
        /\ \A b \in Buses : \A t \in inside[b] :
              owner[b] = t \/ (t = LoopOf[b] /\ pc[t] = "wait")
        /\ \A t \in Threads :
              pc[t] \in {"build", "register", "emit"} => owner[job[t].bus] = t

\* One thread at a time exposes an interface.  Of an interface that was exposed once,
\* sd-bus has the address of the table or nothing, and nothing while that is filled.
ExposeInv ==
    /\ \A t, u \in Threads :
          job[t].object = job[u].object /\ t # u => job[t].object = NoObject
    /\ \A t \in Threads :
          pc[t] = "register" => \A x \in Members : vtable[job[t].object][x] # 0
    /\ \A o \in Objects : exposures[o] <= 1 => \A b \in Buses : registered[b][o] # 0 =>
          /\ registered[b][o] = block[o]
          /\ \A x \in Members : vtable[o][x] # 0
          /\ exposures[o] = 1
          /\ \A t \in Threads : job[t].object = o => pc[t] # "build"
    /\ \A o \in Objects : exposures[o] = 0 => \A t \in Threads : job[t].object # o

\* The places in the vtables are those of the members in the tables.
TableInv ==
    \A o \in Objects : \A x \in Members : vtable[o][x] # 0 =>
        vtable[o][x] \in 1 .. Len(table[o]) /\ table[o][vtable[o][x]] = x

\* A request is in one place.
PlaceInv ==
    /\ \A b, c \in Buses : \A i \in 1 .. Len(queue[b]), j \in 1 .. Len(queue[c]) :
          queue[b][i] = queue[c][j] => b = c /\ i = j
    /\ \A b, c \in Buses : \A i \in 1 .. Len(queue[b]) : current[c] # queue[b][i]
    /\ \A b, c \in Buses : current[b] # NoRequest /\ current[b] = current[c] => b = c

\* How far a request has come tells which member it reached.
ReachedInv ==
    /\ \A b \in Buses : \A i \in 1 .. Len(queue[b]) : reached[queue[b][i]] = <<>>
    /\ \A b \in Buses : current[b] # NoRequest =>
          reached[current[b]] = IF pc[LoopOf[b]] = "lookup" THEN <<>>
                                ELSE <<target[current[b]]>>
    /\ reached \in [Requests -> Seq(Asked)]
    /\ \A r \in Requests :
          /\ target[r] = NoUse => reached[r] = <<>>
          /\ reached[r] \in {<<>>, <<target[r]>>}
          /\ answer[r] \notin {<<>>, <<"error">>} => reached[r] # <<>>
          /\ answer[r] = <<"result", "error">> => KindOf[target[r].member] = "procedure"

\* What is not asked or not served yet is not answered.
AnswerInv ==
    /\ \A r \in Requests : target[r] = NoUse => answer[r] = <<>>
    /\ \A b \in Buses : \A i \in 1 .. Len(queue[b]) : answer[queue[b][i]] = <<>>
    /\ \A b \in Buses : current[b] # NoRequest => answer[current[b]] = <<>>

\* Both programs end for a named reason, or not at all.
EndInv == EndsAreEarned /\ dead \in {"no", "dangling", "exception", "race"}

ProgramInv ==
    LockTypes /\ ThreadInv /\ MemoryTypes /\ RequestTypes /\ LoopInv /\ AskedInv
RemoteInv ==
    ProgramInv /\ ApplicationTypes /\ MutexInv /\ ExposeInv /\ TableInv /\ PlaceInv
    /\ ReachedInv /\ AnswerInv /\ EndInv

-----------------------------------------------------------------------------
(* What steps there are, and what they touch. *)

\* Only these steps move a thread of the program or touch what it works with.
LEMMA ThreadsMove ==
  ASSUME [Next]_remoteVars
  PROVE  \/ \E b \in Buses :
               Process(b) \/ RefuseRequest(b) \/ CallEntry(b) \/ ReturnFromMember(b)
         \/ \E b \in Buses : ProcessNothing(b) \/ WaitOver(b)
         \/ \E t \in Threads : FinishEmit(t) \/ \E o \in Objects : StartEmit(t, o)
         \/ \E u \in Users : \/ BuildTables(u) \/ Register(u)
                             \/ \E o \in Objects, b \in Buses : StartExpose(u, o, b)
         \/ UNCHANGED <<locks, threads, memory, careless, registered, current>>
  <1>1. CASE ApplicationNext
    BY <1>1 DEF ApplicationNext, CreateProxy, MoveProxy, CallByProxy, RefusedCall, Arrive,
       EndWithoutInterface, DropInterface, EndProxy, requests, program, locks, threads,
       memory
  <1>2. CASE ProgramNext
    <2>1. \A b \in Buses : LoopOf[b] \in Threads
      BY DEF Threads, Loops
    <2>2. Users \subseteq Threads
      BY DEF Threads
    <2> QED
      BY <1>2, <2>1, <2>2
         DEF ProgramNext, LoopStep, UserStep, ReadGoneTable, ThrowFromMember, CorruptBus,
             Dies, requests
  <1> QED
    BY <1>1, <1>2 DEF Next, remoteVars, vars, requests

\* Only these steps touch a request.
LEMMA RequestsMove ==
  ASSUME [Next]_remoteVars
  PROVE  \/ \E b \in Buses :
               Process(b) \/ RefuseRequest(b) \/ CallEntry(b) \/ ReturnFromMember(b)
         \/ \E r \in Requests : CallByProxy(r)
         \/ UNCHANGED requests
  <1>1. CASE ApplicationNext
    BY <1>1 DEF ApplicationNext, CreateProxy, MoveProxy, RefusedCall, EndWithoutInterface,
       DropInterface
  <1>2. CASE ProgramNext
    BY <1>2 DEF ProgramNext, LoopStep, UserStep, ReadGoneTable, ThrowFromMember,
       CorruptBus, Dies, ProcessNothing, WaitOver, FinishEmit, BuildTables, Register,
       StartExpose, StartEmit
  <1> QED
    BY <1>1, <1>2 DEF Next, remoteVars, vars

\* Where a thread is: a loop belongs to one connection and is nobody's thread.
LEMMA LoopsApart ==
  /\ \A b \in Buses : LoopOf[b] \in Threads \ Users
  /\ \A a, b \in Buses : LoopOf[a] = LoopOf[b] => a = b
  /\ Users \subseteq Threads
  BY ObjectsAssumption DEF Threads, Loops

\* A request for something is not the one for nothing.
LEMMA AskedIsSomething == NoUse \notin Asked
  BY ObjectsAssumption DEF NoUse, Use, Asked

\* What may be sent for a request can be told apart.
LEMMA AnswersDiffer ==
  /\ <<"result">> # <<>> /\ <<"error">> # <<>> /\ <<"result", "error">> # <<>>
  /\ <<"result">> # <<"error">>
  /\ <<"result", "error">> # <<"result">> /\ <<"result", "error">> # <<"error">>
  <1>1. /\ Len(<<"result">>) = 1 /\ Len(<<"error">>) = 1
        /\ Len(<<"result", "error">>) = 2
        /\ <<"result">>[1] = "result" /\ <<"error">>[1] = "error"
    OBVIOUS
  <1> QED
    BY <1>1

-----------------------------------------------------------------------------
(* Every step keeps the types, where the threads are, and what they hold. *)

\* Finish ends a request and nothing else.
LEMMA FinishMoves ==
  ASSUME NEW b \in Buses, NEW sent, Finish(b, sent)
  PROVE  /\ answer' = [answer EXCEPT ![current[b]] = sent]
         /\ current' = [current EXCEPT ![b] = NoRequest]
         /\ inside' = [inside EXCEPT ![b] = inside[b] \ {LoopOf[b]}]
         /\ owner' = [owner EXCEPT ![b] = NoThread]
         /\ pc' = [pc EXCEPT ![LoopOf[b]] = "idle"]
         /\ UNCHANGED <<job, memory, careless, registered, queue, target, dead>>
  BY DEF Finish, AfterRequest, Goto

\* A loop's step at its own connection: it takes up a request, reaches a member for
\* it, or ends it.
LEMMA LoopMoves ==
  ASSUME NEW b \in Buses,
         Process(b) \/ RefuseRequest(b) \/ CallEntry(b) \/ ReturnFromMember(b)
  PROVE  /\ UNCHANGED <<job, memory, careless, registered, target, dead>>
         /\ \/ /\ pc[LoopOf[b]] = "idle" /\ pc' = [pc EXCEPT ![LoopOf[b]] = "lookup"]
               /\ owner[b] = NoThread /\ owner' = [owner EXCEPT ![b] = LoopOf[b]]
               /\ inside' = [inside EXCEPT ![b] = inside[b] \cup {LoopOf[b]}]
               /\ queue[b] # <<>> /\ queue' = [queue EXCEPT ![b] = Tail(queue[b])]
               /\ current' = [current EXCEPT ![b] = Head(queue[b])]
               /\ UNCHANGED <<reached, answer>>
            \/ /\ pc[LoopOf[b]] = "lookup" /\ pc' = [pc EXCEPT ![LoopOf[b]] = "body"]
               /\ UNCHANGED <<locks, queue, current, answer>>
               /\ CallEntry(b)
            \/ /\ pc[LoopOf[b]] \in {"lookup", "body"}
               /\ pc' = [pc EXCEPT ![LoopOf[b]] = "idle"]
               /\ inside' = [inside EXCEPT ![b] = inside[b] \ {LoopOf[b]}]
               /\ owner' = [owner EXCEPT ![b] = NoThread]
               /\ current' = [current EXCEPT ![b] = NoRequest]
               /\ \E sent \in Service!Answers :
                     /\ \/ sent = <<"error">> \/ CallEntry(b)
                        \/ /\ pc[LoopOf[b]] = "body"
                           /\ sent \in AnswersTo(reached[current[b]][1])
                     /\ answer' = [answer EXCEPT ![current[b]] = sent]
               /\ UNCHANGED <<queue, reached>>
  <1>1. CASE Process(b)
    BY <1>1 DEF Process, MutexFree, Goto
  <1>2. CASE RefuseRequest(b)
    <2>1. Finish(b, <<"error">>) /\ pc[LoopOf[b]] = "lookup" /\ UNCHANGED reached
      BY <1>2 DEF RefuseRequest
    <2>2. <<"error">> \in Service!Answers
      BY DEF Service!Answers
    <2> QED
      BY <2>1, <2>2, FinishMoves
  <1>3. CASE CallEntry(b)
    <2>1. /\ pc[LoopOf[b]] = "lookup"
          /\ \/ /\ Goto(LoopOf[b], "body")
                /\ UNCHANGED <<locks, job, memory, careless, registered, queue, target,
                               answer, current, dead>>
             \/ \E sent \in Service!Answers : Finish(b, sent) /\ UNCHANGED reached
      BY <1>3 DEF CallEntry, Service!Answers
    <2>2. ASSUME NEW sent \in Service!Answers, Finish(b, sent), UNCHANGED reached
          PROVE  /\ UNCHANGED <<job, memory, careless, registered, target, dead>>
                 /\ pc' = [pc EXCEPT ![LoopOf[b]] = "idle"]
                 /\ inside' = [inside EXCEPT ![b] = inside[b] \ {LoopOf[b]}]
                 /\ owner' = [owner EXCEPT ![b] = NoThread]
                 /\ current' = [current EXCEPT ![b] = NoRequest]
                 /\ answer' = [answer EXCEPT ![current[b]] = sent]
                 /\ UNCHANGED <<queue, reached>>
      BY <2>2, FinishMoves
    <2>3. CASE Goto(LoopOf[b], "body") /\ UNCHANGED <<locks, job, memory, careless,
                        registered, queue, target, answer, current, dead>>
      BY <1>3, <2>1, <2>3 DEF Goto
    <2> QED
      BY <1>3, <2>1, <2>2, <2>3
  <1>4. CASE ReturnFromMember(b)
    <2>1. pc[LoopOf[b]] = "body" /\ UNCHANGED reached
      BY <1>4 DEF ReturnFromMember
    <2>2. PICK sent \in AnswersTo(reached[current[b]][1]) : Finish(b, sent)
      BY <1>4 DEF ReturnFromMember
    <2>3. sent \in Service!Answers
      BY DEF AnswersTo, Service!Answers
    <2> QED
      BY <2>1, <2>2, <2>3, FinishMoves
  <1> QED
    BY <1>1, <1>2, <1>3, <1>4

\* A loop begins to wait in sd-bus, or is done with that; the mutex is not its concern.
LEMMA WaitMoves ==
  ASSUME NEW b \in Buses, ProcessNothing(b) \/ WaitOver(b)
  PROVE  /\ UNCHANGED <<owner, job, memory, careless, registered, requests, dead>>
         /\ \/ /\ pc[LoopOf[b]] = "idle" /\ pc' = [pc EXCEPT ![LoopOf[b]] = "wait"]
               /\ inside' = [inside EXCEPT ![b] = inside[b] \cup {LoopOf[b]}]
            \/ /\ pc[LoopOf[b]] = "wait" /\ pc' = [pc EXCEPT ![LoopOf[b]] = "idle"]
               /\ inside' = [inside EXCEPT ![b] = inside[b] \ {LoopOf[b]}]
  BY DEF ProcessNothing, WaitOver, Goto

\* A loop that is in a request has one, and the mutex.
LEMMA BusyHasRequest ==
  ASSUME LoopInv, NEW b \in Buses, pc[LoopOf[b]] \in {"lookup", "body", "emit"}
  PROVE  /\ current[b] # NoRequest /\ owner[b] = LoopOf[b]
         /\ RequestTypes => current[b] \in Requests
  BY DEF LoopInv, WithoutRequest, RequestTypes

\* Every step keeps the types of the mutexes.
LEMMA LockTypesStep == LockTypes /\ ThreadInv /\ [Next]_remoteVars => LockTypes'
  <1> SUFFICES ASSUME LockTypes, ThreadInv, [Next]_remoteVars
               PROVE  LockTypes'
    OBVIOUS
  <1> USE LoopsApart DEF LockTypes
  <1>1. ASSUME NEW b \in Buses,
               Process(b) \/ RefuseRequest(b) \/ CallEntry(b) \/ ReturnFromMember(b)
        PROVE  LockTypes'
    BY <1>1, LoopMoves DEF locks
  <1>2. ASSUME NEW t \in Threads, FinishEmit(t)
        PROVE  LockTypes'
    BY <1>2 DEF FinishEmit, Leave, Unlocked, locks
  <1>3. ASSUME NEW t \in Threads, NEW o \in Objects, StartEmit(t, o)
        PROVE  LockTypes'
    BY <1>3 DEF StartEmit, MayLock
  <1>4. ASSUME NEW u \in Users, BuildTables(u)
        PROVE  LockTypes'
    BY <1>4 DEF BuildTables
  <1>5. ASSUME NEW u \in Users, Register(u)
        PROVE  LockTypes'
    BY <1>5 DEF Register, Leave, Unlocked, locks
  <1>6. ASSUME NEW u \in Users, NEW o \in Objects, NEW b \in Buses, StartExpose(u, o, b)
        PROVE  LockTypes'
    BY <1>6 DEF StartExpose, MayLock
  <1>7. CASE UNCHANGED <<locks, threads, memory, careless, registered, current>>
    BY <1>7 DEF locks
  <1>8. ASSUME NEW b \in Buses, ProcessNothing(b) \/ WaitOver(b)
        PROVE  LockTypes'
    BY <1>8, WaitMoves
  <1> QED
    BY <1>1, <1>2, <1>3, <1>4, <1>5, <1>6, <1>7, <1>8, ThreadsMove

\* Every step keeps what a thread has in hand by its position.
LEMMA ThreadStep == ThreadInv /\ MemoryTypes /\ [Next]_remoteVars => ThreadInv'
  <1> SUFFICES ASSUME ThreadInv, MemoryTypes, [Next]_remoteVars
               PROVE  ThreadInv'
    OBVIOUS
  <1> USE ObjectsAssumption, LoopsApart DEF ThreadInv, UserSteps, LoopSteps, Goto, Job, NoJob
  <1>1. ASSUME NEW b \in Buses,
               Process(b) \/ RefuseRequest(b) \/ CallEntry(b) \/ ReturnFromMember(b)
        PROVE  ThreadInv'
    <2>1. PICK step \in {"idle", "lookup", "body"} : pc' = [pc EXCEPT ![LoopOf[b]] = step]
      BY <1>1, LoopMoves
    <2>2. pc[LoopOf[b]] \in {"idle", "lookup", "body"} /\ UNCHANGED job
      BY <1>1, LoopMoves
    <2> QED
      BY <2>1, <2>2
  <1>2. ASSUME NEW t \in Threads, FinishEmit(t)
        PROVE  ThreadInv'
    BY <1>2 DEF FinishEmit, Threads, Loops
  <1>3. ASSUME NEW t \in Threads, NEW o \in Objects, StartEmit(t, o)
        PROVE  ThreadInv'
    BY <1>3 DEF StartEmit, MemoryTypes
  <1>4. ASSUME NEW u \in Users, BuildTables(u)
        PROVE  ThreadInv'
    BY <1>4 DEF BuildTables
  <1>5. ASSUME NEW u \in Users, Register(u)
        PROVE  ThreadInv'
    BY <1>5 DEF Register
  <1>6. ASSUME NEW u \in Users, NEW o \in Objects, NEW b \in Buses, StartExpose(u, o, b)
        PROVE  ThreadInv'
    BY <1>6 DEF StartExpose
  <1>7. CASE UNCHANGED <<locks, threads, memory, careless, registered, current>>
    BY <1>7 DEF threads
  <1>8. ASSUME NEW b \in Buses, ProcessNothing(b) \/ WaitOver(b)
        PROVE  ThreadInv'
    BY <1>8, WaitMoves
  <1> QED
    BY <1>1, <1>2, <1>3, <1>4, <1>5, <1>6, <1>7, <1>8, ThreadsMove

\* The members of an interface get places of their own behind what the table holds.
LEMMA PlaceOfMember ==
  ASSUME NEW old \in Seq(Members), NEW x \in Members
  PROVE  /\ PlaceIn(old, x) \in 1 .. Len(old \o Layout)
         /\ (old \o Layout)[PlaceIn(old, x)] = x
         /\ old \o Layout \in Seq(Members)
  <1> DEFINE i == CHOOSE k \in DOMAIN Layout : Layout[k] = x
  <1>1. i \in DOMAIN Layout /\ Layout[i] = x
    BY DEF Members
  <1>2. Layout \in Seq(Members)
    BY ObjectsAssumption
  <1>3. i \in 1 .. Len(Layout)
    BY <1>1, <1>2
  <1>4. PlaceIn(old, x) = Len(old) + i
    BY DEF PlaceIn
  <1> HIDE DEF i
  <1> QED
    BY <1>1, <1>2, <1>3, <1>4

\* Every step keeps the types of tables, vtables and what sd-bus has registered.
LEMMA MemoryTypesStep == MemoryTypes /\ ThreadInv /\ [Next]_remoteVars => MemoryTypes'
  <1> SUFFICES ASSUME MemoryTypes, ThreadInv, [Next]_remoteVars
               PROVE  MemoryTypes'
    OBVIOUS
  <1> USE DEF MemoryTypes
  <1>1. ASSUME NEW b \in Buses,
               Process(b) \/ RefuseRequest(b) \/ CallEntry(b) \/ ReturnFromMember(b)
        PROVE  MemoryTypes'
    BY <1>1, LoopMoves DEF memory
  <1>2. ASSUME NEW t \in Threads, FinishEmit(t)
        PROVE  MemoryTypes'
    BY <1>2 DEF FinishEmit, memory
  <1>3. ASSUME NEW t \in Threads, NEW o \in Objects, StartEmit(t, o)
        PROVE  MemoryTypes'
    BY <1>3 DEF StartEmit, memory
  <1>4. ASSUME NEW u \in Users, BuildTables(u)
        PROVE  MemoryTypes'
    <2> DEFINE o == job[u].object
    <2>1. o \in Objects
      BY <1>4, LoopsApart DEF BuildTables, ThreadInv
    <2>2. table' = [table EXCEPT ![o] = table[o] \o Layout]
      BY <1>4 DEF BuildTables
    <2>3. vtable' = [vtable EXCEPT ![o] = [m \in Members |-> PlaceIn(table[o], m)]]
      BY <1>4 DEF BuildTables
    <2>4. /\ block' = [block EXCEPT ![o] = block[o] + 1] \/ UNCHANGED block
          /\ UNCHANGED <<bus, exposures, registered>>
      BY <1>4 DEF BuildTables
    <2> HIDE DEF o
    <2>5. table[o] \in Seq(Members)
      BY <2>1
    <2>6. table[o] \o Layout \in Seq(Members)
      BY <2>5, ObjectsAssumption
    <2>7. \A m \in Members : PlaceIn(table[o], m) \in Nat
      BY <2>5, <2>6, PlaceOfMember
    <2>8. [m \in Members |-> PlaceIn(table[o], m)] \in [Members -> Nat]
      BY <2>7
    <2>9. table' \in [Objects -> Seq(Members)] /\ vtable' \in [Objects -> [Members -> Nat]]
      BY <2>2, <2>3, <2>6, <2>8
    <2>10. block' \in [Objects -> Nat]
      <3>1. CASE block' = [block EXCEPT ![o] = block[o] + 1]
        BY <2>1, <3>1
      <3>2. CASE UNCHANGED block
        BY <3>2
      <3> QED
        BY <2>4, <3>1, <3>2
    <2> QED
      BY <2>4, <2>9, <2>10
  <1>5. ASSUME NEW u \in Users, Register(u)
        PROVE  MemoryTypes'
    <2>1. job[u].object \in Objects /\ job[u].bus \in Buses
      BY <1>5, LoopsApart DEF Register, ThreadInv
    <2> QED
      BY <1>5, <2>1 DEF Register, TableAddress, memory
  <1>6. ASSUME NEW u \in Users, NEW o \in Objects, NEW b \in Buses, StartExpose(u, o, b)
        PROVE  MemoryTypes'
    <2>1. [m \in Members |-> 0] \in [Members -> Nat]
      OBVIOUS
    <2>2. exposures' \in [Objects -> 0 .. MaxExposures]
      BY <1>6, ObjectsAssumption DEF StartExpose
    <2> QED
      BY <1>6, <2>1, <2>2 DEF StartExpose
  <1>7. CASE UNCHANGED <<locks, threads, memory, careless, registered, current>>
    BY <1>7 DEF memory
  <1>8. ASSUME NEW b \in Buses, ProcessNothing(b) \/ WaitOver(b)
        PROVE  MemoryTypes'
    BY <1>8, WaitMoves DEF memory
  <1> QED
    BY <1>1, <1>2, <1>3, <1>4, <1>5, <1>6, <1>7, <1>8, ThreadsMove

\* Every step keeps what a loop has in hand by its position.
LEMMA LoopStepInv == LoopInv /\ ThreadInv /\ LockTypes /\ RequestTypes /\ [Next]_remoteVars
                        => LoopInv'
  <1> SUFFICES ASSUME LoopInv, ThreadInv, LockTypes, RequestTypes, [Next]_remoteVars
               PROVE  LoopInv'
    OBVIOUS
  <1> USE ObjectsAssumption, LoopsApart DEF LoopInv, WithoutRequest
  <1>1. ASSUME NEW b \in Buses,
               Process(b) \/ RefuseRequest(b) \/ CallEntry(b) \/ ReturnFromMember(b)
        PROVE  LoopInv'
    <2> USE DEF RequestTypes, ThreadInv, LockTypes
    <2>1. CASE /\ pc' = [pc EXCEPT ![LoopOf[b]] = "lookup"]
               /\ owner[b] = NoThread /\ owner' = [owner EXCEPT ![b] = LoopOf[b]]
               /\ inside' = [inside EXCEPT ![b] = inside[b] \cup {LoopOf[b]}]
               /\ queue[b] # <<>> /\ current' = [current EXCEPT ![b] = Head(queue[b])]
      <3>1. Head(queue[b]) \in Requests
        BY <2>1
      <3> QED
        BY <2>1, <3>1
    <2>2. CASE /\ pc[LoopOf[b]] = "lookup" /\ pc' = [pc EXCEPT ![LoopOf[b]] = "body"]
               /\ UNCHANGED <<owner, inside, current>>
      BY <2>2
    <2>3. CASE /\ pc' = [pc EXCEPT ![LoopOf[b]] = "idle"]
               /\ inside' = [inside EXCEPT ![b] = inside[b] \ {LoopOf[b]}]
               /\ owner' = [owner EXCEPT ![b] = NoThread]
               /\ current' = [current EXCEPT ![b] = NoRequest]
      BY <2>3
    <2> QED
      BY <1>1, <2>1, <2>2, <2>3, LoopMoves DEF locks
  <1>2. ASSUME NEW t \in Threads, FinishEmit(t)
        PROVE  LoopInv'
    BY <1>2 DEF FinishEmit, Leave, Unlocked, locks, requests, Goto, ThreadInv, LockTypes
  <1>3. ASSUME NEW t \in Threads, NEW o \in Objects, StartEmit(t, o)
        PROVE  LoopInv'
    BY <1>3 DEF StartEmit, MayLock, requests, Goto, ThreadInv, LockTypes
  <1>4. ASSUME NEW u \in Users, BuildTables(u)
        PROVE  LoopInv'
    BY <1>4 DEF BuildTables, requests, Goto, ThreadInv, LockTypes
  <1>5. ASSUME NEW u \in Users, Register(u)
        PROVE  LoopInv'
    BY <1>5 DEF Register, Leave, Unlocked, locks, requests, Goto, ThreadInv, LockTypes
  <1>6. ASSUME NEW u \in Users, NEW o \in Objects, NEW b \in Buses, StartExpose(u, o, b)
        PROVE  LoopInv'
    BY <1>6 DEF StartExpose, MayLock, requests, Goto, ThreadInv, LockTypes
  <1>7. CASE UNCHANGED <<locks, threads, memory, careless, registered, current>>
    BY <1>7 DEF locks, threads
  <1>8. ASSUME NEW b \in Buses, ProcessNothing(b) \/ WaitOver(b)
        PROVE  LoopInv'
    BY <1>8, WaitMoves DEF requests, ThreadInv, LockTypes
  <1> QED
    BY <1>1, <1>2, <1>3, <1>4, <1>5, <1>6, <1>7, <1>8, ThreadsMove

-----------------------------------------------------------------------------
(* Every step keeps the requests in their places. *)

\* A proxy that asks makes a new request.
LEMMA CallMoves ==
  ASSUME ApplicationTypes, RequestTypes, NEW r \in Requests, CallByProxy(r)
  PROVE  \E b \in Buses :
         /\ target[r] = NoUse /\ wish[r] \in Wishes /\ wish[r] \in Asked /\ wish[r] # NoUse
         /\ target' = [target EXCEPT ![r] = wish[r]]
         /\ queue' = [queue EXCEPT ![b] = Append(queue[b], r)]
         /\ life[r] = "live" /\ life' = [life EXCEPT ![r] = "ended"]
         /\ UNCHANGED <<reached, answer, current, wish, interface, ending>>
         /\ UNCHANGED program
  <1>1. wish[r] # NoUse
    BY ObjectsAssumption
       DEF CallByProxy, Locks, ApplicationTypes, NoUse, Use
  <1>2. wish[r] \in Wishes /\ wish[r] \in Asked
    BY <1>1, WishesAssumption DEF ApplicationTypes, Asked
  <1>3. ServiceOf[wish[r]] \in Buses
    BY <1>2, WishesAssumption
  <1> QED
    BY <1>1, <1>2, <1>3 DEF CallByProxy, EndProxy, Locks, Arrive

\* Every step keeps the types of the requests.
LEMMA RequestTypesStep ==
  RequestTypes /\ ApplicationTypes /\ [Next]_remoteVars => RequestTypes'
  <1> SUFFICES ASSUME RequestTypes, ApplicationTypes, [Next]_remoteVars
               PROVE  RequestTypes'
    OBVIOUS
  <1> USE DEF RequestTypes
  <1>1. ASSUME NEW b \in Buses,
               Process(b) \/ RefuseRequest(b) \/ CallEntry(b) \/ ReturnFromMember(b)
        PROVE  RequestTypes'
    <2>1. CASE /\ queue[b] # <<>> /\ queue' = [queue EXCEPT ![b] = Tail(queue[b])]
               /\ current' = [current EXCEPT ![b] = Head(queue[b])]
               /\ UNCHANGED <<target, answer>>
      <3>1. Head(queue[b]) \in Requests /\ Tail(queue[b]) \in Seq(Requests)
        BY <2>1
      <3> QED
        BY <2>1, <3>1
    <2>2. CASE UNCHANGED <<queue, current, answer, target>>
      BY <2>2
    <2>3. CASE /\ current' = [current EXCEPT ![b] = NoRequest]
               /\ \E sent \in Service!Answers :
                     answer' = [answer EXCEPT ![current[b]] = sent]
               /\ UNCHANGED <<queue, target>>
      <3>1. Service!Answers \subseteq AnswersSent
        BY DEF Service!Answers, AnswersSent
      <3> QED
        BY <2>3, <3>1
    <2> QED
      BY <1>1, <2>1, <2>2, <2>3, LoopMoves
  <1>2. ASSUME NEW r \in Requests, CallByProxy(r)
        PROVE  RequestTypes'
    <2>1. PICK b \in Buses :
             /\ target' = [target EXCEPT ![r] = wish[r]] /\ wish[r] \in Asked
             /\ queue' = [queue EXCEPT ![b] = Append(queue[b], r)]
             /\ UNCHANGED <<answer, current>>
      BY <1>2, CallMoves
    <2>2. Append(queue[b], r) \in Seq(Requests)
      OBVIOUS
    <2> QED
      BY <2>1, <2>2
  <1>3. CASE UNCHANGED requests
    BY <1>3 DEF requests
  <1> QED
    BY <1>1, <1>2, <1>3, RequestsMove

\* Where the requests are is told by the queues and the current ones.
LEMMA PlaceStep ==
  PlaceInv /\ AskedInv /\ RequestTypes /\ LoopInv /\ ApplicationTypes /\ [Next]_remoteVars
      => PlaceInv' /\ AskedInv'
  <1> SUFFICES ASSUME PlaceInv, AskedInv, RequestTypes, LoopInv, ApplicationTypes,
                      [Next]_remoteVars
               PROVE  PlaceInv' /\ AskedInv'
    OBVIOUS
  <1> USE ObjectsAssumption DEF PlaceInv, AskedInv, RequestTypes
  <1>1. ASSUME NEW b \in Buses,
               Process(b) \/ RefuseRequest(b) \/ CallEntry(b) \/ ReturnFromMember(b)
        PROVE  PlaceInv' /\ AskedInv'
    <2>1. CASE /\ queue[b] # <<>> /\ queue' = [queue EXCEPT ![b] = Tail(queue[b])]
               /\ current' = [current EXCEPT ![b] = Head(queue[b])]
               /\ UNCHANGED target
      <3>1. /\ current'[b] = queue[b][1] /\ 1 \in 1 .. Len(queue[b])
            /\ \A c \in Buses \ {b} : current'[c] = current[c]
            /\ UNCHANGED target
        BY <2>1
      <3>2. \A c \in Buses : \A i \in 1 .. Len(queue'[c]) : \E k \in 1 .. Len(queue[c]) :
               queue'[c][i] = queue[c][k] /\ (c = b => k = i + 1) /\ (c # b => k = i)
        <4>1. ASSUME NEW c \in Buses, c = b, NEW i \in 1 .. Len(queue'[c])
              PROVE  i + 1 \in 1 .. Len(queue[c]) /\ queue'[c][i] = queue[c][i + 1]
          BY <2>1, <4>1
        <4>2. ASSUME NEW c \in Buses, c # b
              PROVE  queue'[c] = queue[c]
          BY <2>1, <4>2
        <4> HIDE DEF PlaceInv, AskedInv, RequestTypes
        <4> QED
          BY <4>1, <4>2
      <3>3. /\ \A c, d \in Buses : \A i \in 1 .. Len(queue[c]), j \in 1 .. Len(queue[d]) :
                  queue[c][i] = queue[d][j] => c = d /\ i = j
            /\ \A c, d \in Buses : \A i \in 1 .. Len(queue[c]) : current[d] # queue[c][i]
            /\ \A c, d \in Buses : current[c] # NoRequest /\ current[c] = current[d] => c = d
            /\ \A c \in Buses : \A i \in 1 .. Len(queue[c]) : target[queue[c][i]] # NoUse
            /\ \A c \in Buses : current[c] # NoRequest => target[current[c]] # NoUse
        OBVIOUS
      <3> HIDE DEF PlaceInv, AskedInv, RequestTypes
      <3>4. ASSUME NEW c \in Buses, NEW d \in Buses, NEW i \in 1 .. Len(queue'[c]),
                   NEW j \in 1 .. Len(queue'[d]), queue'[c][i] = queue'[d][j]
            PROVE  c = d /\ i = j
        <4>1. PICK k \in 1 .. Len(queue[c]) :
                 queue'[c][i] = queue[c][k] /\ (c = b => k = i + 1) /\ (c # b => k = i)
          BY <3>2
        <4>2. PICK n \in 1 .. Len(queue[d]) :
                 queue'[d][j] = queue[d][n] /\ (d = b => n = j + 1) /\ (d # b => n = j)
          BY <3>2
        <4>3. queue[c][k] = queue[d][n]
          BY <3>4, <4>1, <4>2
        <4>4. c = d /\ k = n
          BY <3>3, <4>3
        <4> QED
          BY <4>1, <4>2, <4>4
      <3>5. ASSUME NEW c \in Buses, NEW d \in Buses, NEW i \in 1 .. Len(queue'[c])
            PROVE  current'[d] # queue'[c][i]
        <4>1. PICK k \in 1 .. Len(queue[c]) :
                 queue'[c][i] = queue[c][k] /\ (c = b => k = i + 1) /\ (c # b => k = i)
          BY <3>2
        <4>2. CASE d = b
          <5>1. ~(c = b /\ k = 1)
            BY <4>1
          <5> QED
            BY <3>1, <3>3, <4>1, <4>2, <5>1
        <4>3. CASE d # b
          BY <3>1, <3>3, <4>1, <4>3
        <4> QED
          BY <4>2, <4>3
      <3>6. ASSUME NEW c \in Buses, NEW d \in Buses, current'[c] # NoRequest,
                   current'[c] = current'[d]
            PROVE  c = d
        BY <3>1, <3>3, <3>6
      <3>7. \A c \in Buses : \A i \in 1 .. Len(queue'[c]) : target'[queue'[c][i]] # NoUse
        BY <3>1, <3>2, <3>3
      <3>8. \A c \in Buses : current'[c] # NoRequest => target'[current'[c]] # NoUse
        BY <3>1, <3>3
      <3> QED
        BY <3>4, <3>5, <3>6, <3>7, <3>8 DEF PlaceInv, AskedInv
    <2>2. CASE UNCHANGED <<queue, current, target>>
      BY <2>2
    <2>3. CASE /\ current' = [current EXCEPT ![b] = NoRequest]
               /\ UNCHANGED <<queue, target>>
      BY <2>3
    <2> QED
      BY <1>1, <2>1, <2>2, <2>3, LoopMoves
  <1>2. ASSUME NEW r \in Requests, CallByProxy(r)
        PROVE  PlaceInv' /\ AskedInv'
    <2>1. PICK b \in Buses :
             /\ target[r] = NoUse /\ wish[r] # NoUse
             /\ target' = [target EXCEPT ![r] = wish[r]]
             /\ queue' = [queue EXCEPT ![b] = Append(queue[b], r)]
             /\ UNCHANGED current
      BY <1>2, CallMoves
    <2>2. \A c \in Buses : \A i \in 1 .. Len(queue'[c]) :
             \/ i \in 1 .. Len(queue[c]) /\ queue'[c][i] = queue[c][i]
             \/ c = b /\ i = Len(queue[b]) + 1 /\ queue'[c][i] = r
      BY <2>1
    <2>3. \A c \in Buses : current[c] # r /\ \A i \in 1 .. Len(queue[c]) : queue[c][i] # r
      BY <2>1
    <2>4. \A s \in Requests : target[s] # NoUse => target'[s] # NoUse
      BY <2>1
    <2>5. AskedInv'
      <3>1. target'[r] # NoUse
        BY <2>1
      <3>2. \A c \in Buses : \A i \in 1 .. Len(queue[c]) : queue[c][i] \in Requests
        OBVIOUS
      <3> QED
        BY <2>1, <2>2, <2>4, <3>1, <3>2
    <2>6. PlaceInv'
      <3>1. ASSUME NEW c \in Buses, NEW d \in Buses, NEW i \in 1 .. Len(queue'[c]),
                   NEW j \in 1 .. Len(queue'[d]), queue'[c][i] = queue'[d][j]
            PROVE  c = d /\ i = j
        <4>1. \A k \in 1 .. Len(queue[c]), n \in 1 .. Len(queue[d]) :
                 queue[c][k] = queue[d][n] => c = d /\ k = n
          OBVIOUS
        <4> HIDE DEF PlaceInv, AskedInv, RequestTypes
        <4>2. CASE queue'[c][i] = r
          <5>1. c = b /\ i = Len(queue[b]) + 1
            BY <2>2, <2>3, <4>2
          <5>2. queue'[d][j] = r
            BY <3>1, <4>2
          <5>3. d = b /\ j = Len(queue[b]) + 1
            BY <2>2, <2>3, <5>2
          <5> QED
            BY <5>1, <5>3
        <4>3. CASE queue'[c][i] # r
          BY <2>2, <2>3, <3>1, <4>1, <4>3
        <4> QED
          BY <4>2, <4>3
      <3>2. ASSUME NEW c \in Buses, NEW d \in Buses, NEW i \in 1 .. Len(queue'[c])
            PROVE  current'[d] # queue'[c][i]
        BY <2>1, <2>2, <2>3
      <3> QED
        BY <2>1, <3>1, <3>2
    <2> QED
      BY <2>5, <2>6
  <1>3. CASE UNCHANGED requests
    BY <1>3 DEF requests
  <1> QED
    BY <1>1, <1>2, <1>3, RequestsMove

-----------------------------------------------------------------------------
(* Every step keeps the proxies. *)

\* The other program does not touch the application, nor what was asked for.
LEMMA ProgramMoves ==
  ASSUME ProgramNext
  PROVE  UNCHANGED target
  <1>1. ASSUME NEW b \in Buses,
               Process(b) \/ RefuseRequest(b) \/ CallEntry(b) \/ ReturnFromMember(b)
        PROVE  UNCHANGED target
    BY <1>1, LoopMoves
  <1> QED
    BY <1>1
       DEF ProgramNext, LoopStep, UserStep, ReadGoneTable, ThrowFromMember, CorruptBus,
           Dies, ProcessNothing, WaitOver, FinishEmit, BuildTables, Register, StartExpose,
           StartEmit, requests

\* Only these steps touch a proxy.
LEMMA ProxiesMove ==
  ASSUME [Next]_remoteVars
  PROVE  \/ \E r \in Requests :
               \/ \E use \in Wishes : CreateProxy(r, use)
               \/ \E s \in Requests : MoveProxy(r, s)
               \/ CallByProxy(r)
               \/ RefusedCall(r)
               \/ EndWithoutInterface(r)
         \/ \E o \in Objects : DropInterface(o)
         \/ UNCHANGED <<target, application>>
  <1>1. CASE ProgramNext /\ UNCHANGED application
    BY <1>1, ProgramMoves
  <1> QED
    BY <1>1 DEF Next, ApplicationNext, remoteVars, vars, requests

\* Every step keeps the types of the application and its proxies.
LEMMA ApplicationTypesStep ==
  ApplicationTypes /\ RequestTypes /\ [Next]_remoteVars => ApplicationTypes'
  <1> SUFFICES ASSUME ApplicationTypes, RequestTypes, [Next]_remoteVars
               PROVE  ApplicationTypes'
    OBVIOUS
  <1> USE DEF ApplicationTypes
  <1>1. ASSUME NEW r \in Requests, NEW use \in Wishes, CreateProxy(r, use)
        PROVE  ApplicationTypes'
    BY <1>1 DEF CreateProxy, requests
  <1>2. ASSUME NEW r \in Requests, NEW s \in Requests, MoveProxy(r, s)
        PROVE  ApplicationTypes'
    BY <1>2 DEF MoveProxy, requests
  <1>3. ASSUME NEW r \in Requests, CallByProxy(r)
        PROVE  ApplicationTypes'
    <2>1. /\ target[r] = NoUse /\ target' = [target EXCEPT ![r] = wish[r]]
          /\ life[r] = "live" /\ life' = [life EXCEPT ![r] = "ended"]
          /\ UNCHANGED <<wish, interface, ending>>
      BY <1>3, CallMoves
    <2> QED
      BY <2>1 DEF RequestTypes
  <1>4. ASSUME NEW r \in Requests, RefusedCall(r) \/ EndWithoutInterface(r)
        PROVE  ApplicationTypes'
    BY <1>4 DEF RefusedCall, EndWithoutInterface, EndProxy, requests
  <1>5. ASSUME NEW o \in Objects, DropInterface(o)
        PROVE  ApplicationTypes'
    BY <1>5 DEF DropInterface, requests
  <1>6. CASE UNCHANGED <<target, application>>
    BY <1>6 DEF application
  <1> QED
    BY <1>1, <1>2, <1>3, <1>4, <1>5, <1>6, ProxiesMove

-----------------------------------------------------------------------------
(* Every step keeps the mutex, the tables and what requests reached. *)

\* Who takes the mutex, or does without it, owns it or is careless.
LEMMA MayLockMoves ==
  ASSUME LockTypes, NEW t \in Threads, NEW b \in Buses, MayLock(t, b)
  PROVE  ~careless' => /\ ~careless /\ owner'[b] = t
                       /\ owner[b] \in {NoThread, t}
                       /\ \A c \in Buses \ {b} : owner'[c] = owner[c]
  BY DEF LockTypes, MayLock

\* Whoever gets on the way to sd-bus takes the mutex, or does without it.
LEMMA MutexStep ==
  MutexInv /\ LockTypes /\ ThreadInv /\ LoopInv /\ MemoryTypes /\ [Next]_remoteVars => MutexInv'
  <1> SUFFICES ASSUME MutexInv, LockTypes, ThreadInv, LoopInv, MemoryTypes,
                      [Next]_remoteVars, ~careless'
               PROVE  MutexInv'
    BY DEF MutexInv
  <1> USE ObjectsAssumption, LoopsApart DEF MutexInv
  <1>1. ASSUME NEW b \in Buses,
               Process(b) \/ RefuseRequest(b) \/ CallEntry(b) \/ ReturnFromMember(b)
        PROVE  MutexInv'
    <2> USE DEF ThreadInv, LockTypes
    <2>1. ~careless /\ UNCHANGED <<careless, job>>
      BY <1>1, LoopMoves
    <2>2. CASE /\ pc[LoopOf[b]] = "idle" /\ pc' = [pc EXCEPT ![LoopOf[b]] = "lookup"]
               /\ owner[b] = NoThread /\ owner' = [owner EXCEPT ![b] = LoopOf[b]]
               /\ inside' = [inside EXCEPT ![b] = inside[b] \cup {LoopOf[b]}]
      BY <2>1, <2>2
    <2>3. CASE /\ pc[LoopOf[b]] = "lookup" /\ pc' = [pc EXCEPT ![LoopOf[b]] = "body"]
               /\ UNCHANGED locks
      BY <2>1, <2>3 DEF locks
    <2>4. CASE /\ pc[LoopOf[b]] \in {"lookup", "body"}
               /\ pc' = [pc EXCEPT ![LoopOf[b]] = "idle"]
               /\ inside' = [inside EXCEPT ![b] = inside[b] \ {LoopOf[b]}]
               /\ owner' = [owner EXCEPT ![b] = NoThread]
      <3>1. owner[b] = LoopOf[b]
        BY <2>4, BusyHasRequest
      <3>2. inside'[b] = {}
        BY <2>1, <2>4, <3>1 DEF LoopInv
      <3>3. \A t \in Threads : pc'[t] \in {"build", "register", "emit"} =>
               job[t].bus # b /\ pc[t] = pc'[t]
        BY <2>1, <2>4, <3>1
      <3> QED
        BY <2>1, <2>4, <3>2, <3>3
    <2> QED
      BY <1>1, <2>2, <2>3, <2>4, LoopMoves
  <1>2. ASSUME NEW t \in Threads, FinishEmit(t) \/ (t \in Users /\ Register(t))
        PROVE  MutexInv'
    <2>1. /\ Leave(t, job[t].bus) /\ UNCHANGED careless
          /\ pc[t] \in {"emit", "register"} /\ job' = [job EXCEPT ![t] = NoJob]
          /\ \E step \in {"idle", "body"} : pc' = [pc EXCEPT ![t] = step]
      BY <1>2 DEF FinishEmit, Register, Goto
    <2>2. owner[job[t].bus] = t /\ job[t].bus \in Buses /\ ~careless
      BY <2>1 DEF ThreadInv
    <2>3. CASE UNCHANGED locks
      BY <2>1, <2>2, <2>3 DEF locks, ThreadInv
    <2>4. CASE /\ inside' = [inside EXCEPT ![job[t].bus] = inside[job[t].bus] \ {t}]
               /\ owner' = [owner EXCEPT ![job[t].bus] = NoThread]
      <3>1. \A u \in inside'[job[t].bus] :
               u # t /\ u = LoopOf[job[t].bus] /\ pc[u] = "wait"
        BY <2>2, <2>4 DEF LockTypes
      <3>2. \A u \in Threads \ {t} : pc[u] \in {"build", "register", "emit"} =>
               job[u].bus # job[t].bus
        BY <2>2
      <3>3. \A u \in Threads : pc'[u] \in {"build", "register", "emit"} =>
               u # t /\ pc'[u] = pc[u] /\ job'[u] = job[u]
        BY <2>1 DEF ThreadInv
      <3> QED
        BY <2>1, <2>2, <2>4, <3>1, <3>2, <3>3 DEF LockTypes, ThreadInv
    <2> QED
      BY <2>1, <2>2, <2>3, <2>4 DEF Leave, Unlocked, LockTypes
  <1>3. ASSUME NEW t \in Threads, NEW o \in Objects, StartEmit(t, o)
        PROVE  MutexInv'
    <2>1. /\ MayLock(t, bus[o]) /\ bus[o] \in Buses
          /\ inside' = [inside EXCEPT ![bus[o]] = inside[bus[o]] \cup {t}]
          /\ job' = [job EXCEPT ![t] = Job(NoObject, bus[o])]
          /\ pc' = [pc EXCEPT ![t] = "emit"]
      BY <1>3 DEF StartEmit, Goto, MemoryTypes
    <2>2. /\ ~careless /\ owner'[bus[o]] = t /\ owner[bus[o]] \in {NoThread, t}
          /\ \A c \in Buses \ {bus[o]} : owner'[c] = owner[c]
      BY <2>1, MayLockMoves
    <2>3. \A b \in Buses : \A u \in inside'[b] :
             owner'[b] = u \/ (u = LoopOf[b] /\ pc'[u] = "wait")
      <3>1. \A u \in Threads : pc[u] = "wait" => pc'[u] = "wait"
        BY <1>3, <2>1 DEF ThreadInv, StartEmit
      <3> QED
        BY <2>1, <2>2, <3>1 DEF LockTypes
    <2>4. \A u \in Threads : pc'[u] \in {"build", "register", "emit"} => owner'[job'[u].bus] = u
      <3>1. job'[t].bus = bus[o]
        BY <2>1 DEF ThreadInv, Job
      <3>2. \A u \in Threads \ {t} : pc'[u] = pc[u] /\ job'[u] = job[u]
        BY <2>1 DEF ThreadInv
      <3> QED
        BY <2>2, <3>1, <3>2 DEF ThreadInv
    <2> QED
      BY <2>3, <2>4
  <1>4. ASSUME NEW u \in Users, BuildTables(u)
        PROVE  MutexInv'
    <2>1. /\ pc[u] = "build" /\ pc' = [pc EXCEPT ![u] = "register"]
          /\ inside' = [inside EXCEPT ![job[u].bus] = inside[job[u].bus] \cup {u}]
          /\ UNCHANGED <<owner, job, careless>>
      BY <1>4 DEF BuildTables, Goto
    <2> QED
      BY <2>1 DEF ThreadInv, LockTypes
  <1>5. ASSUME NEW u \in Users, NEW o \in Objects, NEW b \in Buses, StartExpose(u, o, b)
        PROVE  MutexInv'
    <2>1. /\ MayLock(u, b) /\ job' = [job EXCEPT ![u] = Job(o, b)]
          /\ pc' = [pc EXCEPT ![u] = "build"] /\ UNCHANGED inside
      BY <1>5 DEF StartExpose, Goto
    <2>2. /\ ~careless /\ owner'[b] = u /\ owner[b] \in {NoThread, u}
          /\ \A c \in Buses \ {b} : owner'[c] = owner[c]
      BY <2>1, MayLockMoves
    <2>3. \A c \in Buses : \A t \in inside'[c] :
             owner'[c] = t \/ (t = LoopOf[c] /\ pc'[t] = "wait")
      <3>1. \A t \in Threads : pc[t] = "wait" => pc'[t] = "wait"
        BY <1>5, <2>1 DEF ThreadInv, StartExpose
      <3> QED
        BY <2>1, <2>2, <3>1 DEF LockTypes
    <2>4. \A t \in Threads : pc'[t] \in {"build", "register", "emit"} => owner'[job'[t].bus] = t
      <3>1. job'[u].bus = b
        BY <2>1 DEF ThreadInv, Job
      <3>2. \A t \in Threads \ {u} : pc'[t] = pc[t] /\ job'[t] = job[t]
        BY <2>1 DEF ThreadInv
      <3> QED
        BY <2>2, <3>1, <3>2 DEF ThreadInv
    <2> QED
      BY <2>3, <2>4
  <1>6. CASE UNCHANGED <<locks, threads, memory, careless, registered, current>>
    BY <1>6 DEF locks, threads
  <1>7. ASSUME NEW b \in Buses, ProcessNothing(b) \/ WaitOver(b)
        PROVE  MutexInv'
    BY <1>7, WaitMoves DEF ThreadInv, LockTypes
  <1> QED
    BY <1>1, <1>2, <1>3, <1>4, <1>5, <1>6, <1>7, ThreadsMove

\* One thread exposes an interface at a time.
LEMMA ExposeStep ==
  ExposeInv /\ ThreadInv /\ MemoryTypes /\ [Next]_remoteVars => ExposeInv'
  <1> SUFFICES ASSUME ExposeInv, ThreadInv, MemoryTypes, [Next]_remoteVars
               PROVE  ExposeInv'
    OBVIOUS
  <1> USE ObjectsAssumption, LoopsApart DEF ExposeInv
  <1>1. ASSUME NEW t \in Threads, NEW step \in {"idle", "wait", "lookup", "body", "emit"},
               pc' = [pc EXCEPT ![t] = step],
               job'[t].object = NoObject, \A u \in Threads \ {t} : job'[u] = job[u],
               UNCHANGED <<memory, registered>>
        PROVE  ExposeInv'
    BY <1>1 DEF ThreadInv, memory
  <1>2. ASSUME NEW b \in Buses,
               Process(b) \/ RefuseRequest(b) \/ CallEntry(b) \/ ReturnFromMember(b)
        PROVE  ExposeInv'
    <2>1. PICK step \in {"idle", "lookup", "body"} : pc' = [pc EXCEPT ![LoopOf[b]] = step]
      BY <1>2, LoopMoves
    <2>2. UNCHANGED <<job, memory, registered>>
      BY <1>2, LoopMoves
    <2>3. job[LoopOf[b]].object = NoObject
      BY DEF ThreadInv, LoopSteps
    <2> QED
      BY <1>1, <2>1, <2>2, <2>3
  <1>3. ASSUME NEW t \in Threads, FinishEmit(t)
        PROVE  ExposeInv'
    <2>1. /\ job' = [job EXCEPT ![t] = NoJob] /\ UNCHANGED <<memory, registered>>
          /\ \E step \in {"idle", "body"} : pc' = [pc EXCEPT ![t] = step]
      BY <1>3 DEF FinishEmit, Goto
    <2>2. job'[t].object = NoObject /\ \A u \in Threads \ {t} : job'[u] = job[u]
      BY <2>1 DEF ThreadInv, NoJob, Job
    <2> QED
      BY <1>1, <2>1, <2>2
  <1>4. ASSUME NEW t \in Threads, NEW o \in Objects, StartEmit(t, o)
        PROVE  ExposeInv'
    <2>1. /\ job' = [job EXCEPT ![t] = Job(NoObject, bus[o])]
          /\ pc' = [pc EXCEPT ![t] = "emit"] /\ UNCHANGED <<memory, registered>>
      BY <1>4 DEF StartEmit, Goto
    <2>2. job'[t].object = NoObject /\ \A u \in Threads \ {t} : job'[u] = job[u]
      BY <2>1 DEF ThreadInv, Job
    <2> QED
      BY <1>1, <2>1, <2>2
  <1>5. ASSUME NEW u \in Users, BuildTables(u)
        PROVE  ExposeInv'
    <2> DEFINE o == job[u].object
    <2>1. pc[u] = "build" /\ o \in Objects
      BY <1>5 DEF BuildTables, ThreadInv
    <2>2. /\ vtable' = [vtable EXCEPT ![o] = [m \in Members |-> PlaceIn(table[o], m)]]
          /\ pc' = [pc EXCEPT ![u] = "register"]
          /\ block' = [block EXCEPT ![o] = block[o] + 1] \/ UNCHANGED block
          /\ UNCHANGED <<job, exposures, registered>>
      BY <1>5 DEF BuildTables, Goto
    <2>3. \A x \in Members : vtable'[o][x] # 0
      <3> SUFFICES ASSUME NEW x \in Members PROVE vtable'[o][x] # 0
        OBVIOUS
      <3>1. table[o] \in Seq(Members)
        BY <2>1 DEF MemoryTypes
      <3>2. PlaceIn(table[o], x) \in 1 .. Len(table[o] \o Layout)
        BY <3>1, PlaceOfMember
      <3>3. vtable'[o][x] = PlaceIn(table[o], x)
        BY <2>1, <2>2 DEF MemoryTypes
      <3> QED
        BY <3>2, <3>3
    <2>4. exposures[o] # 0 /\ (exposures[o] <= 1 => \A b \in Buses : registered[b][o] = 0)
      BY <2>1
    <2>5. \A p \in Objects \ {o} : vtable'[p] = vtable[p] /\ block'[p] = block[p]
      BY <2>2 DEF MemoryTypes
    <2>6. \A t \in Threads \ {u} : pc'[t] = pc[t] /\ (job[t].object # o)
      BY <2>1, <2>2 DEF ThreadInv
    <2>7. pc'[u] = "register" /\ job' = job /\ exposures' = exposures /\ registered' = registered
      BY <2>2 DEF ThreadInv
    <2> HIDE DEF o
    <2>8. \A t \in Threads : pc'[t] = "register" => \A x \in Members : vtable'[job[t].object][x] # 0
      <3> SUFFICES ASSUME NEW t \in Threads \ {u}, pc'[t] = "register", NEW x \in Members
                   PROVE  vtable'[job[t].object][x] # 0
        BY <2>3 DEF o
      <3>1. pc[t] = "register" /\ job[t].object \in Objects \ {o}
        BY <2>6 DEF ThreadInv
      <3> QED
        BY <2>5, <3>1
    <2>9. ASSUME NEW p \in Objects, exposures[p] <= 1, NEW b \in Buses, registered[b][p] # 0
          PROVE  /\ registered[b][p] = block'[p] /\ exposures[p] = 1
                 /\ \A x \in Members : vtable'[p][x] # 0
                 /\ \A t \in Threads : job[t].object = p => pc'[t] # "build"
      <3>1. p # o
        BY <2>4, <2>9
      <3>2. /\ registered[b][p] = block[p] /\ exposures[p] = 1
            /\ \A x \in Members : vtable[p][x] # 0
            /\ \A t \in Threads : job[t].object = p => pc[t] # "build"
        BY <2>9
      <3> QED
        BY <2>5, <2>6, <2>7, <3>1, <3>2
    <2> QED
      BY <2>7, <2>8, <2>9
  <1>6. ASSUME NEW u \in Users, Register(u)
        PROVE  ExposeInv'
    <2> DEFINE o == job[u].object
               b == job[u].bus
    <2>1. /\ o \in Objects /\ b \in Buses /\ exposures[o] # 0
          /\ \A x \in Members : vtable[o][x] # 0
      BY <1>6 DEF Register, ThreadInv
    <2>2. /\ \/ registered' = [registered EXCEPT ![b][o] = block[o]] /\ registered[b][o] = 0
             \/ UNCHANGED registered
          /\ UNCHANGED <<block, vtable, exposures>>
          /\ pc' = [pc EXCEPT ![u] = "idle"] /\ job' = [job EXCEPT ![u] = NoJob]
      BY <1>6 DEF Register, TableAddress, memory, Goto
    <2>3. \A t \in Threads \ {u} : pc'[t] = pc[t] /\ job'[t] = job[t] /\ job[t].object # o
      BY <2>1, <2>2 DEF ThreadInv
    <2>4. pc'[u] = "idle" /\ job'[u].object = NoObject
      BY <2>2 DEF ThreadInv, NoJob, Job
    <2> HIDE DEF o, b
    <2>5. ASSUME NEW p \in Objects, NEW c \in Buses
          PROVE  registered'[c][p] = registered[c][p] \/ (p = o /\ registered'[c][p] = block[p])
      <3>1. CASE registered' = [registered EXCEPT ![b][o] = block[o]]
        <4> USE <2>1, <3>1 DEF MemoryTypes
        <4> HIDE DEF ExposeInv
        <4>1. CASE c = b /\ p = o
          BY <4>1
        <4>2. CASE c = b /\ p # o
          BY <4>2
        <4>3. CASE c # b
          BY <4>3
        <4> QED
          BY <4>1, <4>2, <4>3
      <3>2. CASE UNCHANGED registered
        BY <3>2
      <3> QED
        BY <2>2, <3>1, <3>2
    <2>6. ASSUME NEW p \in Objects, exposures[p] <= 1, NEW c \in Buses, registered'[c][p] # 0
          PROVE  /\ registered'[c][p] = block[p] /\ exposures[p] = 1
                 /\ \A x \in Members : vtable[p][x] # 0
                 /\ \A t \in Threads : job'[t].object = p => pc'[t] # "build"
      <3>1. CASE p = o
        <4>1. registered'[c][p] = block[p]
          BY <2>5, <2>6, <3>1
        <4>2. exposures[p] \in Nat
          BY DEF MemoryTypes
        <4> QED
          BY <2>1, <2>3, <2>4, <2>6, <3>1, <4>1, <4>2
      <3>2. CASE p # o
        <4>1. registered'[c][p] = registered[c][p]
          BY <2>5, <3>2
        <4> QED
          BY <2>3, <2>4, <2>6, <4>1
      <3> QED
        BY <3>1, <3>2
    <2> QED
      BY <2>2, <2>3, <2>4, <2>6
  <1>7. ASSUME NEW u \in Users, NEW o \in Objects, NEW b \in Buses, StartExpose(u, o, b)
        PROVE  ExposeInv'
    <2>1. /\ \A t \in Threads : job[t].object # o
          /\ job' = [job EXCEPT ![u] = Job(o, b)] /\ pc' = [pc EXCEPT ![u] = "build"]
          /\ vtable' = [vtable EXCEPT ![o] = [m \in Members |-> 0]]
          /\ exposures' = [exposures EXCEPT ![o] = exposures[o] + 1]
          /\ UNCHANGED <<block, registered>>
      BY <1>7 DEF StartExpose, Goto
    <2>2. /\ job'[u].object = o /\ pc'[u] = "build"
          /\ \A t \in Threads \ {u} : job'[t] = job[t] /\ pc'[t] = pc[t]
      BY <2>1 DEF ThreadInv, Job
    <2>3. /\ exposures[o] \in Nat /\ exposures'[o] = exposures[o] + 1
          /\ \A p \in Objects \ {o} : exposures'[p] = exposures[p] /\ vtable'[p] = vtable[p]
      BY <2>1 DEF MemoryTypes
    <2>4. ASSUME NEW p \in Objects, exposures'[p] <= 1, NEW c \in Buses, registered[c][p] # 0
          PROVE  /\ registered[c][p] = block[p] /\ exposures'[p] = 1
                 /\ \A x \in Members : vtable'[p][x] # 0
                 /\ \A t \in Threads : job'[t].object = p => pc'[t] # "build"
      <3>1. p # o
        BY <2>3, <2>4
      <3>2. exposures[p] <= 1
        BY <2>3, <2>4, <3>1
      <3> QED
        BY <2>2, <2>3, <2>4, <3>1, <3>2
    <2>5. \A t \in Threads : pc'[t] = "register" =>
             \A x \in Members : vtable'[job'[t].object][x] # 0
      <3> SUFFICES ASSUME NEW t \in Threads \ {u}, pc[t] = "register", NEW x \in Members
                   PROVE  vtable'[job[t].object][x] # 0
        BY <2>2
      <3>1. job[t].object \in Objects \ {o}
        BY <2>1 DEF ThreadInv
      <3> QED
        BY <2>3, <3>1
    <2>6. \A p \in Objects : exposures'[p] = 0 => \A t \in Threads : job'[t].object # p
      BY <2>2, <2>3
    <2>7. \A s, t \in Threads :
             job'[s].object = job'[t].object /\ s # t => job'[s].object = NoObject
      BY <2>1, <2>2
    <2> QED
      BY <2>1, <2>4, <2>5, <2>6, <2>7
  <1>8. CASE UNCHANGED <<locks, threads, memory, careless, registered, current>>
    BY <1>8 DEF threads, memory
  <1>9. ASSUME NEW b \in Buses, ProcessNothing(b) \/ WaitOver(b)
        PROVE  ExposeInv'
    <2>1. PICK step \in {"idle", "wait"} : pc' = [pc EXCEPT ![LoopOf[b]] = step]
      BY <1>9, WaitMoves
    <2>2. UNCHANGED <<job, memory, registered>>
      BY <1>9, WaitMoves
    <2>3. job[LoopOf[b]].object = NoObject
      BY DEF ThreadInv, LoopSteps
    <2> QED
      BY <1>1, <2>1, <2>2, <2>3
  <1> QED
    BY <1>2, <1>3, <1>4, <1>5, <1>6, <1>7, <1>8, <1>9, ThreadsMove

\* Every step keeps the places of the members: tables grow at their end.
LEMMA TableStep == TableInv /\ ThreadInv /\ MemoryTypes /\ [Next]_remoteVars => TableInv'
  <1> SUFFICES ASSUME TableInv, ThreadInv, MemoryTypes, [Next]_remoteVars
               PROVE  TableInv'
    OBVIOUS
  <1> USE DEF TableInv
  <1>1. ASSUME UNCHANGED <<table, vtable>>
        PROVE  TableInv'
    BY <1>1
  <1>2. ASSUME NEW b \in Buses,
               Process(b) \/ RefuseRequest(b) \/ CallEntry(b) \/ ReturnFromMember(b)
        PROVE  TableInv'
    BY <1>1, <1>2, LoopMoves DEF memory
  <1>3. ASSUME NEW u \in Users, BuildTables(u)
        PROVE  TableInv'
    <2> DEFINE o == job[u].object
    <2>1. /\ o \in Objects
          /\ table' = [table EXCEPT ![o] = table[o] \o Layout]
          /\ vtable' = [vtable EXCEPT ![o] = [m \in Members |-> PlaceIn(table[o], m)]]
      BY <1>3, LoopsApart DEF BuildTables, ThreadInv
    <2> HIDE DEF o
    <2>2. table[o] \in Seq(Members)
      BY <2>1 DEF MemoryTypes
    <2>3. ASSUME NEW x \in Members
          PROVE  vtable'[o][x] \in 1 .. Len(table'[o]) /\ table'[o][vtable'[o][x]] = x
      <3>1. vtable'[o][x] = PlaceIn(table[o], x) /\ table'[o] = table[o] \o Layout
        BY <2>1 DEF MemoryTypes
      <3>2. /\ PlaceIn(table[o], x) \in 1 .. Len(table[o] \o Layout)
            /\ (table[o] \o Layout)[PlaceIn(table[o], x)] = x
        BY <2>2, PlaceOfMember
      <3> QED
        BY <3>1, <3>2
    <2>4. \A p \in Objects \ {o} : table'[p] = table[p] /\ vtable'[p] = vtable[p]
      BY <2>1 DEF MemoryTypes
    <2> QED
      BY <2>3, <2>4
  <1>4. ASSUME NEW u \in Users, NEW o \in Objects, NEW b \in Buses, StartExpose(u, o, b)
        PROVE  TableInv'
    BY <1>4 DEF StartExpose, MemoryTypes
  <1>5. ASSUME NEW t \in Threads, FinishEmit(t) \/ \E o \in Objects : StartEmit(t, o)
        PROVE  TableInv'
    BY <1>1, <1>5 DEF FinishEmit, StartEmit, memory
  <1>6. ASSUME NEW u \in Users, Register(u)
        PROVE  TableInv'
    BY <1>1, <1>6 DEF Register, memory
  <1>7. CASE UNCHANGED <<locks, threads, memory, careless, registered, current>>
    BY <1>7 DEF memory
  <1>8. ASSUME NEW b \in Buses, ProcessNothing(b) \/ WaitOver(b)
        PROVE  TableInv'
    BY <1>8, WaitMoves DEF memory
  <1> QED
    BY <1>2, <1>3, <1>4, <1>5, <1>6, <1>7, <1>8, ThreadsMove

\* A handler is that of the member its request asks for, and has the kind for that.
LEMMA CalledAsAsked ==
  ASSUME TableInv, RequestTypes, AskedInv, NEW b \in Buses, current[b] # NoRequest,
         CallEntry(b)
  PROVE  /\ reached' = [reached EXCEPT ![current[b]] =
                           Append(reached[current[b]], target[current[b]])]
         /\ pc' = [pc EXCEPT ![LoopOf[b]] = "body"]
  <1> DEFINE use == target[current[b]]
             entry == table[use.object][vtable[use.object][use.member]]
  <1>1. use \in Asked
    BY DEF RequestTypes, AskedInv
  <1>2. vtable[use.object][use.member] # 0
    BY DEF CallEntry, EntryTorn
  <1>3. entry = use.member
    BY <1>1, <1>2 DEF TableInv, Asked
  <1>4. Use(use.object, use.member, use.use) = use
    BY <1>1 DEF Use, Asked
  <1>5. Offers(entry, use.use)
    BY <1>3 DEF CallEntry
  <1>6. /\ reached' = [reached EXCEPT ![current[b]] =
                         Append(reached[current[b]], Use(use.object, entry, use.use))]
        /\ pc' = [pc EXCEPT ![LoopOf[b]] = "body"]
    BY <1>5 DEF CallEntry, Goto
  <1> QED
    BY <1>3, <1>4, <1>6

\* A request gets one step further, or stays where it is.
LEMMA ReachedStep ==
  ReachedInv /\ PlaceInv /\ TableInv /\ ProgramInv /\ ApplicationTypes /\ [Next]_remoteVars
      => ReachedInv'
  <1> SUFFICES ASSUME ReachedInv, PlaceInv, TableInv, ProgramInv, ApplicationTypes,
                      [Next]_remoteVars
               PROVE  ReachedInv'
    OBVIOUS
  <1> USE ObjectsAssumption, LoopsApart DEF ReachedInv, RequestTypes
  <1>0. RequestTypes /\ AskedInv /\ ThreadInv /\ MemoryTypes /\ LoopInv
    BY DEF ProgramInv
  <1>9. /\ \A b \in Buses : current[b] # NoRequest =>
              reached[current[b]] = IF pc[LoopOf[b]] = "lookup" THEN <<>>
                                    ELSE <<target[current[b]]>>
        /\ \A r \in Requests :
              /\ target[r] = NoUse => reached[r] = <<>>
              /\ reached[r] \in {<<>>, <<target[r]>>}
              /\ answer[r] \notin {<<>>, <<"error">>} => reached[r] # <<>>
              /\ answer[r] = <<"result", "error">> =>
                    KindOf[target[r].member] = "procedure"
    OBVIOUS
  <1>1. ASSUME NEW b \in Buses,
               Process(b) \/ RefuseRequest(b) \/ CallEntry(b) \/ ReturnFromMember(b)
        PROVE  ReachedInv'
    <2> DEFINE r == current[b]
    <2>1. UNCHANGED target
      BY <1>1, LoopMoves
    <2>2. CASE /\ pc[LoopOf[b]] = "idle" /\ pc' = [pc EXCEPT ![LoopOf[b]] = "lookup"]
               /\ queue[b] # <<>> /\ queue' = [queue EXCEPT ![b] = Tail(queue[b])]
               /\ current' = [current EXCEPT ![b] = Head(queue[b])]
               /\ UNCHANGED <<reached, answer>>
      <3>1. /\ current'[b] = queue[b][1] /\ 1 \in 1 .. Len(queue[b])
            /\ \A c \in Buses \ {b} : current'[c] = current[c]
        BY <1>0, <2>2
      <3>2. pc'[LoopOf[b]] = "lookup" /\ \A c \in Buses \ {b} : pc'[LoopOf[c]] = pc[LoopOf[c]]
        BY <1>0, <2>2 DEF ThreadInv
      <3>3. ASSUME NEW c \in Buses, NEW i \in 1 .. Len(queue'[c])
            PROVE  \E k \in 1 .. Len(queue[c]) : queue'[c][i] = queue[c][k]
        <4>1. CASE c = b
          <5>1. i + 1 \in 1 .. Len(queue[c]) /\ queue'[c][i] = queue[c][i + 1]
            BY <1>0, <2>2, <4>1
          <5> QED
            BY <5>1
        <4>2. CASE c # b
          <5>1. queue'[c] = queue[c]
            BY <1>0, <2>2, <4>2
          <5> QED
            BY <5>1
        <4> QED
          BY <4>1, <4>2
      <3>4. \A c \in Buses : \A i \in 1 .. Len(queue'[c]) : reached'[queue'[c][i]] = <<>>
        BY <2>2, <3>3
      <3>5. \A c \in Buses : current'[c] # NoRequest =>
               reached'[current'[c]] = IF pc'[LoopOf[c]] = "lookup" THEN <<>>
                                       ELSE <<target'[current'[c]]>>
        BY <2>1, <2>2, <3>1, <3>2
      <3> QED
        BY <2>1, <2>2, <3>4, <3>5
    <2>3. CASE /\ pc[LoopOf[b]] = "lookup" /\ pc' = [pc EXCEPT ![LoopOf[b]] = "body"]
               /\ UNCHANGED <<queue, current, answer>> /\ CallEntry(b)
      <3>1. r \in Requests /\ reached[r] = <<>> /\ target[r] # NoUse /\ target[r] \in Asked
        <4>1. r \in Requests /\ r # NoRequest
          BY <1>0, <2>3, BusyHasRequest
        <4>2. target[r] # NoUse
          BY <1>0, <4>1 DEF AskedInv
        <4> QED
          BY <1>0, <1>9, <2>3, <4>1, <4>2
      <3>2. reached' = [reached EXCEPT ![r] = Append(reached[r], target[r])]
        BY <1>0, <2>3, <3>1, CalledAsAsked DEF ThreadInv
      <3>3. /\ reached'[r] = <<target[r]>>
            /\ \A s \in Requests \ {r} : reached'[s] = reached[s]
        BY <3>1, <3>2
      <3>4. \A c \in Buses : \A i \in 1 .. Len(queue[c]) : queue[c][i] \in Requests \ {r}
        BY <1>0 DEF PlaceInv
      <3>5. \A c \in Buses \ {b} : current[c] # NoRequest => current[c] \in Requests \ {r}
        BY <1>0, <3>1 DEF PlaceInv
      <3>6. pc'[LoopOf[b]] = "body" /\ \A c \in Buses \ {b} : pc'[LoopOf[c]] = pc[LoopOf[c]]
        BY <1>0, <2>3 DEF ThreadInv
      <3> HIDE DEF r
      <3>7. \A c \in Buses : \A i \in 1 .. Len(queue'[c]) : reached'[queue'[c][i]] = <<>>
        BY <2>3, <3>3, <3>4
      <3>8. \A c \in Buses : current'[c] # NoRequest =>
               reached'[current'[c]] = IF pc'[LoopOf[c]] = "lookup" THEN <<>>
                                       ELSE <<target'[current'[c]]>>
        <4> SUFFICES ASSUME NEW c \in Buses, current[c] # NoRequest
                     PROVE  reached'[current[c]] = IF pc'[LoopOf[c]] = "lookup" THEN <<>>
                                                   ELSE <<target[current[c]]>>
          BY <2>1, <2>3
        <4>1. CASE c = b
          BY <3>3, <3>6, <4>1 DEF r
        <4>2. CASE c # b
          <5>1. current[c] \in Requests \ {r} /\ pc'[LoopOf[c]] = pc[LoopOf[c]]
            BY <3>5, <3>6, <4>2
          <5>2. reached'[current[c]] = reached[current[c]]
            BY <3>3, <5>1
          <5> HIDE DEF ReachedInv
          <5> QED
            BY <1>9, <5>1, <5>2
        <4> QED
          BY <4>1, <4>2
      <3>9. reached' \in [Requests -> Seq(Asked)]
        BY <3>1, <3>2
      <3>10. ASSUME NEW s \in Requests
             PROVE  /\ target'[s] = NoUse => reached'[s] = <<>>
                    /\ reached'[s] \in {<<>>, <<target'[s]>>}
                    /\ answer'[s] \notin {<<>>, <<"error">>} => reached'[s] # <<>>
                    /\ answer'[s] = <<"result", "error">> =>
                          KindOf[target'[s].member] = "procedure"
        <4>1. CASE s = r
          <5>1. <<target[r]>> # <<>>
            OBVIOUS
          <5> QED
            BY <2>1, <2>3, <3>1, <3>3, <4>1, <5>1
        <4>2. CASE s # r
          BY <2>1, <2>3, <3>3, <4>2
        <4> QED
          BY <4>1, <4>2
      <3> QED
        BY <3>7, <3>8, <3>9, <3>10
    <2>4. CASE /\ pc[LoopOf[b]] \in {"lookup", "body"}
               /\ pc' = [pc EXCEPT ![LoopOf[b]] = "idle"]
               /\ current' = [current EXCEPT ![b] = NoRequest]
               /\ \E sent \in Service!Answers :
                     /\ \/ sent = <<"error">> \/ CallEntry(b)
                        \/ /\ pc[LoopOf[b]] = "body"
                           /\ sent \in AnswersTo(reached[r][1])
                     /\ answer' = [answer EXCEPT ![r] = sent]
               /\ UNCHANGED <<queue, reached>>
      <3>1. r \in Requests /\ (pc[LoopOf[b]] = "body" => reached[r] = <<target[r]>>)
        <4>1. r # NoRequest /\ r \in Requests
          BY <1>0, <2>4, BusyHasRequest
        <4>2. pc[LoopOf[b]] = "body" => pc[LoopOf[b]] # "lookup"
          OBVIOUS
        <4> QED
          BY <4>1, <4>2
      <3>2. PICK sent \in Service!Answers :
               /\ \/ sent = <<"error">> \/ CallEntry(b)
                  \/ /\ pc[LoopOf[b]] = "body" /\ sent \in AnswersTo(reached[r][1])
               /\ answer' = [answer EXCEPT ![r] = sent]
        BY <2>4
      <3>12. ~CallEntry(b)
        <4> SUFFICES ASSUME CallEntry(b) PROVE FALSE
          OBVIOUS
        <4>1. r # NoRequest
          BY <1>0, <2>4 DEF LoopInv, WithoutRequest
        <4>2. pc' = [pc EXCEPT ![LoopOf[b]] = "body"]
          BY <1>0, <4>1, CalledAsAsked
        <4> QED
          BY <1>0, <2>4, <4>2 DEF ThreadInv
      <3>13. sent # <<"error">> =>
                /\ reached[r] # <<>>
                /\ sent = <<"result", "error">> => KindOf[target[r].member] = "procedure"
        <4> SUFFICES ASSUME sent # <<"error">>
                     PROVE  /\ reached[r] # <<>>
                            /\ sent = <<"result", "error">> =>
                                  KindOf[target[r].member] = "procedure"
          OBVIOUS
        <4>1. reached[r] = <<target[r]>> /\ sent \in AnswersTo(reached[r][1])
          BY <3>1, <3>2, <3>12
        <4>2. <<target[r]>> # <<>> /\ <<target[r]>>[1] = target[r]
          OBVIOUS
        <4>3. sent \in AnswersTo(target[r])
          BY <4>1, <4>2
        <4>4. sent = <<"result", "error">> => KindOf[target[r].member] = "procedure"
          BY <4>3, AnswersDiffer DEF AnswersTo
        <4> QED
          BY <4>1, <4>2, <4>4
      <3>14. \A s \in Requests :
                /\ answer'[s] \notin {<<>>, <<"error">>} => reached[s] # <<>>
                /\ answer'[s] = <<"result", "error">> =>
                      KindOf[target[s].member] = "procedure"
        <4> SUFFICES ASSUME NEW s \in Requests
                     PROVE  /\ answer'[s] \notin {<<>>, <<"error">>} => reached[s] # <<>>
                            /\ answer'[s] = <<"result", "error">> =>
                                  KindOf[target[s].member] = "procedure"
          OBVIOUS
        <4>1. CASE s = r
          <5>1. answer'[s] = sent
            BY <1>0, <3>1, <3>2, <4>1
          <5> QED
            BY <3>13, <4>1, <5>1, AnswersDiffer
        <4>2. CASE s # r
          BY <1>0, <3>1, <3>2, <4>2
        <4> QED
          BY <4>1, <4>2
      <3>3. /\ current'[b] = NoRequest
            /\ \A c \in Buses \ {b} : /\ current'[c] = current[c]
                                      /\ pc'[LoopOf[c]] = pc[LoopOf[c]]
        BY <1>0, <2>4 DEF ThreadInv
      <3>4. \A c \in Buses : current'[c] # NoRequest =>
               reached[current'[c]] = IF pc'[LoopOf[c]] = "lookup" THEN <<>>
                                      ELSE <<target[current'[c]]>>
        <4> HIDE DEF ReachedInv
        <4> QED
          BY <1>9, <3>3
      <3> HIDE DEF r
      <3>5. \A c \in Buses : \A i \in 1 .. Len(queue'[c]) : reached'[queue'[c][i]] = <<>>
        BY <2>4
      <3>6. /\ reached' \in [Requests -> Seq(Asked)]
            /\ \A s \in Requests : /\ target'[s] = NoUse => reached'[s] = <<>>
                                   /\ reached'[s] \in {<<>>, <<target'[s]>>}
        BY <2>1, <2>4
      <3>7. \A c \in Buses : current'[c] # NoRequest =>
               reached'[current'[c]] = IF pc'[LoopOf[c]] = "lookup" THEN <<>>
                                       ELSE <<target'[current'[c]]>>
        BY <2>1, <2>4, <3>4
      <3> QED
        BY <2>1, <2>4, <3>14, <3>5, <3>6, <3>7
    <2> QED
      BY <1>1, <2>2, <2>3, <2>4, LoopMoves
  <1>2. ASSUME NEW r \in Requests, CallByProxy(r)
        PROVE  ReachedInv'
    <2>1. PICK b \in Buses :
             /\ target[r] = NoUse /\ target' = [target EXCEPT ![r] = wish[r]]
             /\ wish[r] # NoUse
             /\ queue' = [queue EXCEPT ![b] = Append(queue[b], r)]
             /\ UNCHANGED <<reached, answer, current, pc>>
      BY <1>0, <1>2, CallMoves DEF program, threads
    <2>2. \A c \in Buses : \A i \in 1 .. Len(queue'[c]) :
             queue'[c][i] = r \/ (i \in 1 .. Len(queue[c]) /\ queue'[c][i] = queue[c][i])
      BY <1>0, <2>1
    <2>3. \A c \in Buses : current[c] # r
      BY <1>0, <2>1 DEF AskedInv
    <2>4. reached[r] = <<>> /\ \A s \in Requests \ {r} : target'[s] = target[s]
      BY <1>0, <2>1
    <2>5. \A c \in Buses : \A i \in 1 .. Len(queue'[c]) : reached'[queue'[c][i]] = <<>>
      BY <2>1, <2>2, <2>4
    <2>6. \A c \in Buses : current'[c] # NoRequest =>
             reached'[current'[c]] = IF pc'[LoopOf[c]] = "lookup" THEN <<>>
                                     ELSE <<target'[current'[c]]>>
      <3>1. \A c \in Buses : current[c] # NoRequest => current[c] \in Requests \ {r}
        BY <1>0, <2>3
      <3> QED
        BY <2>1, <2>4, <3>1
    <2>7. \A s \in Requests : /\ target'[s] = NoUse => reached'[s] = <<>>
                              /\ reached'[s] \in {<<>>, <<target'[s]>>}
                              /\ answer'[s] \notin {<<>>, <<"error">>} => reached'[s] # <<>>
                              /\ answer'[s] = <<"result", "error">> =>
                                    KindOf[target'[s].member] = "procedure"
      <3> SUFFICES ASSUME NEW s \in Requests
                   PROVE  /\ target'[s] = NoUse => reached'[s] = <<>>
                          /\ reached'[s] \in {<<>>, <<target'[s]>>}
                          /\ answer'[s] \notin {<<>>, <<"error">>} => reached'[s] # <<>>
                          /\ answer'[s] = <<"result", "error">> =>
                                KindOf[target'[s].member] = "procedure"
        OBVIOUS
      <3> HIDE DEF ReachedInv
      <3>1. CASE s = r
        <4>1. answer[r] \in {<<>>, <<"error">>}
          BY <1>9, <2>4
        <4> QED
          BY <2>1, <2>4, <3>1, <4>1, AnswersDiffer
      <3>2. CASE s # r
        BY <1>9, <2>1, <2>4, <3>2
      <3> QED
        BY <3>1, <3>2
    <2> QED
      BY <2>1, <2>5, <2>6, <2>7
  <1>3. ASSUME UNCHANGED requests,
               \A b \in Buses : pc'[LoopOf[b]] = "lookup" <=> pc[LoopOf[b]] = "lookup"
        PROVE  ReachedInv'
    BY <1>3 DEF requests
  <1>4. ASSUME NEW t \in Threads, FinishEmit(t)
        PROVE  ReachedInv'
    <2>1. /\ UNCHANGED requests /\ pc[t] = "emit"
          /\ \E step \in {"idle", "body"} : pc' = [pc EXCEPT ![t] = step]
      BY <1>4 DEF FinishEmit, Goto
    <2> QED
      BY <1>0, <1>3, <2>1 DEF ThreadInv
  <1>5. ASSUME NEW t \in Threads, NEW o \in Objects, StartEmit(t, o)
        PROVE  ReachedInv'
    <2>1. /\ UNCHANGED requests /\ pc[t] \in {"idle", "body"}
          /\ pc' = [pc EXCEPT ![t] = "emit"]
      BY <1>5 DEF StartEmit, Goto
    <2> QED
      BY <1>0, <1>3, <2>1 DEF ThreadInv
  <1>6. ASSUME NEW u \in Users,
               \/ BuildTables(u) \/ Register(u)
               \/ \E o \in Objects, b \in Buses : StartExpose(u, o, b)
        PROVE  ReachedInv'
    <2>1. /\ UNCHANGED requests
          /\ \E step \in {"idle", "build", "register"} : pc' = [pc EXCEPT ![u] = step]
      BY <1>6 DEF BuildTables, Register, StartExpose, Goto
    <2> QED
      BY <1>0, <1>3, <2>1 DEF ThreadInv
  <1>7. CASE UNCHANGED <<locks, threads, memory, careless, registered, current>>
    <2>1. UNCHANGED pc
      BY <1>7 DEF threads
    <2>2. CASE UNCHANGED requests
      BY <1>3, <2>1, <2>2
    <2> QED
      BY <1>1, <1>2, <2>2, RequestsMove
  <1>8. ASSUME NEW b \in Buses, ProcessNothing(b) \/ WaitOver(b)
        PROVE  ReachedInv'
    <2>1. /\ UNCHANGED requests /\ pc[LoopOf[b]] \in {"idle", "wait"}
          /\ \E step \in {"idle", "wait"} : pc' = [pc EXCEPT ![LoopOf[b]] = step]
      BY <1>8, WaitMoves
    <2> QED
      BY <1>0, <1>3, <2>1 DEF ThreadInv
  <1> QED
    BY <1>1, <1>2, <1>4, <1>5, <1>6, <1>7, <1>8, ThreadsMove

\* A request that is taken up was the first that waited.
LEMMA TakenIsFirst ==
  ASSUME RequestTypes, NEW b \in Buses, queue[b] # <<>>,
         queue' = [queue EXCEPT ![b] = Tail(queue[b])],
         current' = [current EXCEPT ![b] = Head(queue[b])]
  PROVE  /\ 1 \in 1 .. Len(queue[b]) /\ current'[b] = queue[b][1]
         /\ \A c \in Buses \ {b} : queue'[c] = queue[c] /\ current'[c] = current[c]
         /\ \A i \in 1 .. Len(queue'[b]) :
               i + 1 \in 1 .. Len(queue[b]) /\ queue'[b][i] = queue[b][i + 1]
         /\ <<current'[b]>> \o queue'[b] = queue[b]
  <1>1. /\ queue'[b] = Tail(queue[b]) /\ current'[b] = Head(queue[b])
        /\ queue[b] \in Seq(Requests)
        /\ \A c \in Buses \ {b} : queue'[c] = queue[c] /\ current'[c] = current[c]
    BY DEF RequestTypes
  <1> DEFINE q == queue[b]
  <1>2. q \in Seq(Requests) /\ q # <<>>
    BY <1>1
  <1> HIDE DEF q
  <1>3. /\ 1 \in 1 .. Len(q) /\ Head(q) = q[1] /\ Tail(q) \in Seq(Requests)
        /\ \A i \in 1 .. Len(Tail(q)) : i + 1 \in 1 .. Len(q) /\ Tail(q)[i] = q[i + 1]
    BY <1>2
  <1>4. <<Head(q)>> \o Tail(q) = q
    BY <1>2
  <1> QED
    BY <1>1, <1>3, <1>4 DEF q

\* An answer is given to the current request of a loop and to no other.
LEMMA AnswerStep ==
  AnswerInv /\ PlaceInv /\ ProgramInv /\ ApplicationTypes /\ [Next]_remoteVars => AnswerInv'
  <1> SUFFICES ASSUME AnswerInv, PlaceInv, ProgramInv, ApplicationTypes, [Next]_remoteVars
               PROVE  AnswerInv'
    OBVIOUS
  <1>0. RequestTypes /\ AskedInv /\ ThreadInv /\ LoopInv
    BY DEF ProgramInv
  <1>1. ASSUME NEW b \in Buses,
               Process(b) \/ RefuseRequest(b) \/ CallEntry(b) \/ ReturnFromMember(b)
        PROVE  AnswerInv'
    <2>1. UNCHANGED target
      BY <1>1, LoopMoves
    <2>2. CASE /\ queue[b] # <<>> /\ queue' = [queue EXCEPT ![b] = Tail(queue[b])]
               /\ current' = [current EXCEPT ![b] = Head(queue[b])]
               /\ UNCHANGED answer
      <3>1. /\ 1 \in 1 .. Len(queue[b]) /\ current'[b] = queue[b][1]
            /\ \A c \in Buses \ {b} : queue'[c] = queue[c] /\ current'[c] = current[c]
            /\ \A i \in 1 .. Len(queue'[b]) :
                  i + 1 \in 1 .. Len(queue[b]) /\ queue'[b][i] = queue[b][i + 1]
        BY <1>0, <2>2, TakenIsFirst
      <3>2. ASSUME NEW c \in Buses, NEW i \in 1 .. Len(queue'[c])
            PROVE  answer[queue'[c][i]] = <<>>
        <4>1. CASE c = b
          <5>1. i + 1 \in 1 .. Len(queue[b]) /\ queue'[c][i] = queue[b][i + 1]
            BY <3>1, <4>1
          <5> QED
            BY <5>1 DEF AnswerInv
        <4>2. CASE c # b
          <5>1. queue'[c] = queue[c]
            BY <3>1, <4>2
          <5> QED
            BY <5>1 DEF AnswerInv
        <4> QED
          BY <4>1, <4>2
      <3>3. \A c \in Buses : current'[c] # NoRequest => answer[current'[c]] = <<>>
        BY <3>1 DEF AnswerInv
      <3> QED
        BY <2>1, <2>2, <3>2, <3>3 DEF AnswerInv
    <2>3. CASE UNCHANGED <<queue, current, answer>>
      BY <2>1, <2>3 DEF AnswerInv
    <2>4. CASE /\ current[b] # NoRequest /\ current' = [current EXCEPT ![b] = NoRequest]
               /\ \E sent \in Service!Answers :
                     answer' = [answer EXCEPT ![current[b]] = sent]
               /\ UNCHANGED queue
      <3>1. \A s \in Requests : s # current[b] => answer'[s] = answer[s]
        BY <1>0, <2>4 DEF RequestTypes
      <3>2. \A c \in Buses : \A i \in 1 .. Len(queue[c]) :
               queue[c][i] \in Requests /\ queue[c][i] # current[b]
        BY <1>0 DEF PlaceInv, RequestTypes
      <3>3. current'[b] = NoRequest /\ \A c \in Buses \ {b} : current'[c] = current[c]
        BY <1>0, <2>4 DEF RequestTypes
      <3>4. \A c \in Buses \ {b} : current[c] # NoRequest =>
               current[c] \in Requests /\ current[c] # current[b]
        BY <1>0 DEF PlaceInv, RequestTypes
      <3>5. target[current[b]] # NoUse
        BY <1>0, <2>4 DEF AskedInv
      <3>6. \A r \in Requests : target[r] = NoUse => answer'[r] = <<>>
        BY <3>1, <3>5 DEF AnswerInv
      <3>7. \A c \in Buses : \A i \in 1 .. Len(queue'[c]) : answer'[queue'[c][i]] = <<>>
        BY <2>4, <3>1, <3>2 DEF AnswerInv
      <3>8. \A c \in Buses : current'[c] # NoRequest => answer'[current'[c]] = <<>>
        BY <3>1, <3>3, <3>4 DEF AnswerInv
      <3> QED
        BY <2>1, <3>6, <3>7, <3>8 DEF AnswerInv
    <2>5. pc[LoopOf[b]] \in {"lookup", "body"} => current[b] # NoRequest
      BY <1>0 DEF LoopInv, WithoutRequest
    <2> QED
      BY <1>1, <2>2, <2>3, <2>4, <2>5, LoopMoves
  <1>2. ASSUME NEW r \in Requests, CallByProxy(r)
        PROVE  AnswerInv'
    <2>1. PICK b \in Buses :
             /\ target[r] = NoUse /\ target' = [target EXCEPT ![r] = wish[r]]
             /\ queue' = [queue EXCEPT ![b] = Append(queue[b], r)]
             /\ UNCHANGED <<answer, current>>
      BY <1>0, <1>2, CallMoves
    <2>2. answer[r] = <<>>
      BY <2>1 DEF AnswerInv
    <2>3. \A c \in Buses : \A i \in 1 .. Len(queue'[c]) :
             \/ i \in 1 .. Len(queue[c]) /\ queue'[c][i] = queue[c][i]
             \/ queue'[c][i] = r
      BY <1>0, <2>1 DEF RequestTypes
    <2>4. \A s \in Requests : target'[s] = NoUse => target[s] = NoUse
      BY <1>0, <2>1 DEF RequestTypes
    <2>5. \A c \in Buses : \A i \in 1 .. Len(queue'[c]) : answer[queue'[c][i]] = <<>>
      BY <2>2, <2>3 DEF AnswerInv
    <2> QED
      BY <2>1, <2>4, <2>5 DEF AnswerInv
  <1>3. CASE UNCHANGED requests
    BY <1>3 DEF requests, AnswerInv
  <1> QED
    BY <1>1, <1>2, <1>3, RequestsMove

-----------------------------------------------------------------------------
(* What ended the program or the application. *)

\* A program that has ended stays as it is.
LEMMA EndedIsStill ==
  ASSUME dead # "no", [Next]_remoteVars
  PROVE  UNCHANGED <<dead, reached, answer, careless, exposures, inside, pc>>
  <1>1. ~ProgramNext
    BY DEF ProgramNext, LoopStep, UserStep, Process, ProcessNothing, WaitOver,
       RefuseRequest, CallEntry, ReturnFromMember, ReadGoneTable, ThrowFromMember,
       CorruptBus, FinishEmit, BuildTables, Register, StartExpose, StartEmit, Runs
  <1>2. CASE ApplicationNext
    BY <1>2 DEF ApplicationNext, CreateProxy, MoveProxy, CallByProxy, RefusedCall, Arrive,
       EndWithoutInterface, EndProxy, DropInterface, program, requests, locks, threads,
       memory
  <1> QED
    BY <1>1, <1>2 DEF Next, remoteVars, vars, requests, locks, threads, memory

\* An application that has ended stays as it is.
LEMMA EndedAsksNothing ==
  ASSUME ending # "no", [Next]_remoteVars
  PROVE  UNCHANGED <<target, application>>
  <1>1. ~ApplicationNext
    BY DEF ApplicationNext, CreateProxy, MoveProxy, CallByProxy, RefusedCall,
       EndWithoutInterface, EndProxy, DropInterface, Works
  <1> QED
    BY <1>1, ProgramMoves DEF Next, remoteVars, vars, requests

\* As long as everybody takes the mutex, one thread at most is in sd-bus beside the
\* loop that waits.
LEMMA OneInside ==
  ASSUME MutexInv, LockTypes, ~careless, NEW b \in Buses, NEW S \in SUBSET inside[b],
         pc[LoopOf[b]] = "wait" => LoopOf[b] \notin S
  PROVE  Cardinality(S) \in Nat /\ Cardinality(S) <= 1
  <1>1. S \subseteq {owner[b]}
    BY DEF MutexInv
  <1>2. IsFiniteSet({owner[b]}) /\ Cardinality({owner[b]}) = 1
    BY FS_Singleton
  <1>3. Cardinality(S) <= Cardinality({owner[b]})
    BY <1>1, <1>2, FS_Subset
  <1>4. Cardinality(S) \in Nat
    BY <1>1, <1>2, FS_Subset, FS_CardinalityType
  <1> QED
    BY <1>2, <1>3, <1>4

\* The memory of a table is gone only for an interface that was exposed again.
LEMMA GoneIsAgain ==
  ASSUME ExposeInv, ProgramInv, NEW b \in Buses, ReadGoneTable(b)
  PROVE  \E o \in Objects : exposures[o] > 1
  <1>0. MemoryTypes /\ RequestTypes /\ LoopInv /\ AskedInv
    BY DEF ProgramInv
  <1> DEFINE o == target[current[b]].object
             x == target[current[b]].member
  <1>1. /\ pc[LoopOf[b]] = "lookup" /\ registered[b][o] # 0
        /\ registered[b][o] # block[o] \/ vtable[o][x] = 0
    BY DEF ReadGoneTable, EntryGone, EntryTorn
  <1>2. current[b] # NoRequest /\ current[b] \in Requests
    BY <1>0, <1>1 DEF LoopInv, RequestTypes, WithoutRequest
  <1>3. target[current[b]] \in Asked
    BY <1>0, <1>2 DEF AskedInv, RequestTypes
  <1>4. o \in Objects /\ x \in Members
    BY <1>3 DEF Asked
  <1> HIDE DEF o, x
  <1>5. ~(exposures[o] <= 1)
    BY <1>1, <1>4 DEF ExposeInv
  <1>6. exposures[o] \in Nat
    BY <1>0, <1>4 DEF MemoryTypes
  <1> QED
    BY <1>4, <1>5, <1>6

\* What a thread in sd-bus spoils was left to it without the mutex, or the other one is
\* the loop that waits.
LEMMA CorruptIsShared ==
  ASSUME MutexInv, LockTypes, LoopInv, NEW b \in Buses, CorruptBus(b), ~careless
  PROVE  WaitsBeside(b)
  <1>1. Cardinality(inside[b]) > 1
    BY DEF CorruptBus
  <1>2. pc[LoopOf[b]] = "wait"
    <2> SUFFICES ASSUME pc[LoopOf[b]] # "wait" PROVE FALSE
      OBVIOUS
    <2>1. inside[b] \in SUBSET inside[b]
      OBVIOUS
    <2>2. Cardinality(inside[b]) \in Nat /\ Cardinality(inside[b]) <= 1
      BY <2>1, OneInside
    <2> QED
      BY <1>1, <2>2
  <1>3. inside[b] # {LoopOf[b]}
    <2>1. Cardinality({LoopOf[b]}) = 1
      BY FS_Singleton
    <2> QED
      BY <1>1, <2>1
  <1> QED
    BY <1>2, <1>3 DEF WaitsBeside

\* What ended the program.
EndsOfProgram ==
    /\ dead = "exception" => \E r \in Requests : reached[r] # <<>> /\ answer[r] = <<>>
    /\ dead = "dangling" => \E o \in Objects : exposures[o] > 1
    /\ dead = "race" =>
          \/ careless
          \/ \E o \in Objects : exposures[o] > 1
          \/ \E b \in Buses : WaitsBeside(b)

\* A program that ends in a step does so for a cause that is named.
LEMMA ProgramEndStep ==
  EndInv /\ ExposeInv /\ MutexInv /\ ProgramInv /\ ReachedInv /\ AnswerInv
      /\ [Next]_remoteVars
      => EndsOfProgram' /\ dead' \in {"no", "dangling", "exception", "race"}
  <1> SUFFICES ASSUME EndInv, ExposeInv, MutexInv, ProgramInv, ReachedInv, AnswerInv,
                      [Next]_remoteVars
               PROVE  EndsOfProgram' /\ dead' \in {"no", "dangling", "exception", "race"}
    OBVIOUS
  <1>0. /\ EndsOfProgram /\ dead \in {"no", "dangling", "exception", "race"}
        /\ LockTypes /\ RequestTypes /\ ThreadInv /\ LoopInv /\ AskedInv
    BY DEF EndInv, EndsAreEarned, EndsOfProgram, ProgramInv
  <1>1. CASE dead # "no"
    <2>1. UNCHANGED <<dead, reached, answer, careless, exposures, inside, pc>>
      BY <1>1, EndedIsStill
    <2> QED
      BY <1>0, <2>1 DEF EndsOfProgram, WaitsBeside
  <1>2. ASSUME UNCHANGED dead, dead = "no"
        PROVE  EndsOfProgram' /\ dead' \in {"no", "dangling", "exception", "race"}
    BY <1>2 DEF EndsOfProgram
  <1>3. ASSUME NEW b \in Buses, ReadGoneTable(b)
        PROVE  EndsOfProgram' /\ dead' \in {"no", "dangling", "exception", "race"}
    <2>1. \E o \in Objects : exposures[o] > 1
      BY <1>3, GoneIsAgain
    <2>2. dead' \in {"dangling", "race"} /\ UNCHANGED exposures
      BY <1>3 DEF ReadGoneTable, Dies, memory
    <2> QED
      BY <2>1, <2>2 DEF EndsOfProgram
  <1>4. ASSUME NEW b \in Buses, ThrowFromMember(b)
        PROVE  EndsOfProgram' /\ dead' \in {"no", "dangling", "exception", "race"}
    <2>1. dead' = "exception" /\ UNCHANGED <<reached, answer>> /\ pc[LoopOf[b]] = "body"
      BY <1>4 DEF ThrowFromMember, Dies, requests
    <2>2. current[b] # NoRequest /\ current[b] \in Requests
      BY <1>0, <2>1 DEF LoopInv, RequestTypes, WithoutRequest
    <2>3. reached[current[b]] = <<target[current[b]]>>
      BY <2>1, <2>2 DEF ReachedInv
    <2>4. <<target[current[b]]>> # <<>> /\ answer[current[b]] = <<>>
      BY <2>2 DEF AnswerInv
    <2> QED
      BY <2>1, <2>2, <2>3, <2>4 DEF EndsOfProgram
  <1>5. ASSUME NEW b \in Buses, CorruptBus(b)
        PROVE  EndsOfProgram' /\ dead' \in {"no", "dangling", "exception", "race"}
    <2>1. dead' = "race" /\ UNCHANGED <<careless, inside, pc>>
      BY <1>5 DEF CorruptBus, Dies, locks, threads
    <2>2. careless \/ WaitsBeside(b)
      BY <1>0, <1>5, CorruptIsShared
    <2>3. careless' \/ WaitsBeside(b)'
      BY <2>1, <2>2 DEF WaitsBeside
    <2> QED
      BY <2>1, <2>3 DEF EndsOfProgram
  <1>6. \/ UNCHANGED dead
        \/ \E b \in Buses : ReadGoneTable(b) \/ ThrowFromMember(b) \/ CorruptBus(b)
    <2>1. CASE ProgramNext
      <3>1. ASSUME NEW b \in Buses,
                   Process(b) \/ RefuseRequest(b) \/ CallEntry(b) \/ ReturnFromMember(b)
            PROVE  UNCHANGED dead
        BY <3>1, LoopMoves
      <3> QED
        BY <2>1, <3>1
           DEF ProgramNext, LoopStep, UserStep, ProcessNothing, WaitOver, FinishEmit,
               BuildTables, Register, StartExpose, StartEmit
    <2>2. CASE ApplicationNext
      BY <2>2 DEF ApplicationNext, CreateProxy, MoveProxy, CallByProxy, RefusedCall,
         EndWithoutInterface, EndProxy, DropInterface, program
    <2> QED
      BY <2>1, <2>2 DEF Next, remoteVars, vars
  <1> QED
    BY <1>1, <1>2, <1>3, <1>4, <1>5, <1>6

\* So does an application.
LEMMA EndStep ==
  EndInv /\ ExposeInv /\ MutexInv /\ ProgramInv /\ ReachedInv /\ AnswerInv
      /\ ApplicationTypes /\ [Next]_remoteVars => EndInv'
  <1> SUFFICES ASSUME EndInv, ExposeInv, MutexInv, ProgramInv, ReachedInv, AnswerInv,
                      ApplicationTypes, [Next]_remoteVars
               PROVE  EndInv'
    OBVIOUS
  <1> DEFINE Ended == ending # "no" => \E r \in Requests :
                /\ life[r] = "ended" /\ target[r] = NoUse
                /\ IF ending = "gone"
                   THEN wish[r].use = "call" /\ wish[r].object \notin interface
                   ELSE wish[r].object \in interface
  <1>1. Ended
    BY DEF EndInv, EndsAreEarned
  <1>2. CASE ending # "no"
    <2>1. UNCHANGED <<target, application>>
      BY <1>2, EndedAsksNothing
    <2> QED
      BY <1>1, <1>2, <2>1, ProgramEndStep DEF EndInv, EndsAreEarned, EndsOfProgram, application
  <1>3. CASE ending' = "no"
    BY <1>3, ProgramEndStep DEF EndInv, EndsAreEarned, EndsOfProgram
  <1>4. ASSUME NEW r \in Requests, RefusedCall(r) \/ EndWithoutInterface(r),
               ending = "no", ending' # "no"
        PROVE  Ended'
    <2>1. /\ life[r] = "live" /\ life' = [life EXCEPT ![r] = "ended"]
          /\ UNCHANGED <<wish, interface, target>>
      BY <1>4 DEF RefusedCall, EndWithoutInterface, EndProxy, requests
    <2>2. /\ ending' \in {"refused", "gone"}
          /\ ending' = "refused" => wish[r].object \in interface
          /\ ending' = "gone" => wish[r].use = "call" /\ wish[r].object \notin interface
      BY <1>4 DEF RefusedCall, EndWithoutInterface, Locks
    <2>3. target[r] = NoUse /\ life'[r] = "ended"
      BY <2>1 DEF ApplicationTypes
    <2> QED
      BY <2>1, <2>2, <2>3
  <1>5. ending = "no" /\ ending' # "no" =>
           \E r \in Requests : RefusedCall(r) \/ EndWithoutInterface(r)
    BY ProxiesMove DEF CreateProxy, MoveProxy, CallByProxy, DropInterface, application
  <1> HIDE DEF Ended
  <1>6. CASE ending = "no" /\ ending' # "no"
    <2>1. Ended'
      BY <1>4, <1>5, <1>6
    <2> QED
      BY <2>1, ProgramEndStep DEF EndInv, EndsAreEarned, EndsOfProgram, Ended
  <1> QED
    BY <1>2, <1>3, <1>6

-----------------------------------------------------------------------------
(* Together. *)

\* The invariant holds at first.
LEMMA InitRemote == RemoteInit => RemoteInv
  <1> SUFFICES ASSUME RemoteInit PROVE RemoteInv
    OBVIOUS
  <1> USE ObjectsAssumption, LoopsApart DEF RemoteInit, Init
  <1>1. LockTypes /\ LoopInv /\ MutexInv
    <2>1. inside \in [Buses -> SUBSET Threads]
      BY Zenon
    <2> QED
      BY <2>1 DEF LockTypes, LoopInv, MutexInv, WithoutRequest
  <1>2. ThreadInv
    BY DEF ThreadInv, UserSteps, LoopSteps, NoJob, Job
  <1>3. MemoryTypes
    BY DEF MemoryTypes
  <1>4. RequestTypes /\ AskedInv /\ PlaceInv
    BY DEF RequestTypes, AskedInv, PlaceInv, AnswersSent
  <1>5. ReachedInv /\ AnswerInv
    <2>1. reached \in [Requests -> Seq(Asked)]
      BY DEF Asked
    <2>2. \A r \in Requests : answer[r] = <<>>
      OBVIOUS
    <2> QED
      BY <2>1, <2>2, AnswersDiffer DEF ReachedInv, AnswerInv
  <1>6. ApplicationTypes
    BY DEF ApplicationTypes
  <1>7. ExposeInv /\ TableInv
    BY DEF ExposeInv, TableInv, NoJob, Job
  <1>8. EndInv
    BY DEF EndInv, EndsAreEarned
  <1> QED
    BY <1>1, <1>2, <1>3, <1>4, <1>5, <1>6, <1>7, <1>8 DEF RemoteInv, ProgramInv

\* Every step keeps the invariant.
LEMMA RemoteStep == RemoteInv /\ [Next]_remoteVars => RemoteInv'
  <1> SUFFICES ASSUME RemoteInv, [Next]_remoteVars
               PROVE  RemoteInv'
    OBVIOUS
  <1>1. /\ LockTypes /\ ThreadInv /\ MemoryTypes /\ RequestTypes /\ LoopInv /\ AskedInv
        /\ ProgramInv /\ ApplicationTypes /\ MutexInv /\ ExposeInv /\ TableInv /\ PlaceInv
        /\ ReachedInv /\ AnswerInv /\ EndInv
    BY DEF RemoteInv, ProgramInv
  <1>2. LockTypes' /\ ThreadInv' /\ MemoryTypes' /\ LoopInv'
    BY <1>1, LockTypesStep, ThreadStep, MemoryTypesStep, LoopStepInv
  <1>3. RequestTypes' /\ PlaceInv' /\ AskedInv' /\ ApplicationTypes' /\ AnswerInv'
    BY <1>1, RequestTypesStep, PlaceStep, ApplicationTypesStep, AnswerStep
  <1>4. MutexInv' /\ ExposeInv' /\ TableInv' /\ ReachedInv' /\ EndInv'
    BY <1>1, MutexStep, ExposeStep, TableStep, ReachedStep, EndStep
  <1> QED
    BY <1>2, <1>3, <1>4 DEF RemoteInv, ProgramInv

\* Where threads, tables, requests and proxies are, in every reachable state.
THEOREM RemoteCorrect == Spec => []RemoteInv
  BY InitRemote, RemoteStep, PTL DEF Spec

\* RemoteTypeOK in every reachable state: among others a loop has a request exactly
\* while it is in sd-bus with the mutex, and a request asks what its proxy was for.
THEOREM RemoteTypeCorrect == Spec => []RemoteTypeOK
  <1>1. RemoteInv => RemoteTypeOK
    BY DEF RemoteInv, ProgramInv, RemoteTypeOK, TypeOK, LockTypes, ThreadInv, MemoryTypes,
       RequestTypes, LoopInv, ApplicationTypes, ReachedInv, EndInv, Asked
  <1> QED
    BY <1>1, RemoteCorrect, PTL

\* However often interfaces are exposed and whoever emits meanwhile, a handler runs only
\* for a request for its member, once, and only then a result is sent for it; an error
\* comes after that only from a method without a value (expose, whose vtable has the
\* places of the members in the table, and the handlers in bindings/exposables).
THEOREM RequestsReachMembers == Spec => []RequestReachesMember
  <1>1. RemoteInv => RequestReachesMember
    BY DEF RemoteInv, ReachedInv, RequestReachesMember
  <1> QED
    BY <1>1, RemoteCorrect, PTL

\* As long as emit and expose are called with the mutex, one thread at a time is in
\* sd-bus for a connection, beside the one that waits there: sd_bus_wait is called
\* without it (busy_loop, and mutex() as the application takes it).
THEOREM BusIsUsedAlone == Spec => []SharedOnlyUnlocked
  <1>1. ASSUME RemoteInv PROVE SharedOnlyUnlocked
    <2> SUFFICES ASSUME NEW b \in Buses,
                        Cardinality({t \in inside[b] : pc[t] # "wait"}) > 1, ~careless
                 PROVE  FALSE
      BY <1>1 DEF SharedOnlyUnlocked, RemoteInv, ProgramInv, LockTypes
    <2> DEFINE S == {t \in inside[b] : pc[t] # "wait"}
    <2>1. MutexInv /\ LockTypes
      BY <1>1 DEF RemoteInv, ProgramInv
    <2>2. S \in SUBSET inside[b] /\ (pc[LoopOf[b]] = "wait" => LoopOf[b] \notin S)
      OBVIOUS
    <2> HIDE DEF S
    <2>3. Cardinality(S) \in Nat /\ Cardinality(S) <= 1
      BY <2>1, <2>2, OneInside
    <2> QED
      BY <2>3 DEF S
  <1> QED
    BY <1>1, RemoteCorrect, PTL

\* The table of an interface that was exposed once stays where sd-bus looks for it: a
\* program whose members do not throw ends only for a second exposure, an emit or expose
\* without the mutex, or the loop that waits without it; and an application only for a
\* refused call, or the proxy of a method without its interface (expose, emit,
\* busy_loop, ~interface_async_proxy).
THEOREM EndsEarned == Spec => []EndsAreEarned
  <1>1. RemoteInv => EndsAreEarned
    BY DEF RemoteInv, EndInv
  <1> QED
    BY <1>1, RemoteCorrect, PTL

-----------------------------------------------------------------------------
(* RemoteObjects implements RequestService. *)

\* What is not answered on every connection.
Lines == [b \in Buses |-> Line(b)]

\* A step that changes nothing of the requests is a stutter, or the end.
LEMMA QuietStep ==
  ASSUME UNCHANGED <<target, reached, answer>>, Lines' = Lines,
         UNCHANGED dead \/ (dead = "no" /\ dead' # "no")
  PROVE  [Service!Next]_(Service!vars)
  <1>1. UNCHANGED <<target, reached, answer, Lines>>
    BY DEF Lines
  <1>2. CASE UNCHANGED dead
    BY <1>1, <1>2 DEF Service!vars, Lines
  <1>3. CASE dead = "no" /\ dead' # "no"
    BY <1>1, <1>3 DEF Service!Next, Service!End, Lines
  <1> QED
    BY <1>2, <1>3

\* A step of the loop of b is seen as one of its service, or not at all.
LEMMA LoopServes ==
  ASSUME RemoteInv, NEW b \in Buses,
         Process(b) \/ RefuseRequest(b) \/ CallEntry(b) \/ ReturnFromMember(b)
  PROVE  [Service!Next]_(Service!vars)
  <1>0. /\ RequestTypes /\ AskedInv /\ ThreadInv /\ LoopInv /\ TableInv /\ MemoryTypes
        /\ ReachedInv /\ PlaceInv /\ AnswerInv
    BY DEF RemoteInv, ProgramInv
  <1>1. UNCHANGED <<target, dead>> /\ dead = "no"
    BY LoopMoves DEF Process, RefuseRequest, CallEntry, ReturnFromMember, Runs
  <1>2. CASE /\ pc[LoopOf[b]] = "idle"
             /\ queue[b] # <<>> /\ queue' = [queue EXCEPT ![b] = Tail(queue[b])]
             /\ current' = [current EXCEPT ![b] = Head(queue[b])]
             /\ UNCHANGED <<reached, answer>>
    <2>1. /\ 1 \in 1 .. Len(queue[b]) /\ current'[b] = queue[b][1]
          /\ \A c \in Buses \ {b} : queue'[c] = queue[c] /\ current'[c] = current[c]
          /\ <<current'[b]>> \o queue'[b] = queue[b]
      BY <1>0, <1>2, TakenIsFirst
    <2>2. current[b] = NoRequest /\ current'[b] # NoRequest
      BY <1>0, <1>2, <2>1, ObjectsAssumption DEF LoopInv, RequestTypes, WithoutRequest
    <2>3. queue[b] \in Seq(Requests)
      BY <1>0 DEF RequestTypes
    <2>4. Line(b)' = Line(b)
      BY <2>1, <2>2, <2>3 DEF Line
    <2>5. \A c \in Buses \ {b} : Line(c)' = Line(c)
      BY <2>1 DEF Line
    <2>6. Lines' = Lines
      BY <2>4, <2>5 DEF Lines
    <2> QED
      BY <1>1, <1>2, <2>6, QuietStep
  <1>3. CASE /\ pc[LoopOf[b]] = "lookup" /\ pc' = [pc EXCEPT ![LoopOf[b]] = "body"]
             /\ UNCHANGED <<queue, current, answer>> /\ CallEntry(b)
    <2> DEFINE r == current[b]
    <2>1. r # NoRequest /\ r \in Requests /\ reached[r] = <<>>
      BY <1>0, <1>3 DEF LoopInv, ReachedInv, RequestTypes, WithoutRequest
    <2>2. reached' = [reached EXCEPT ![r] = Append(reached[r], target[r])]
      BY <1>0, <1>3, <2>1, CalledAsAsked
    <2>3. Lines[b] # <<>> /\ Head(Lines[b]) = r
      <3>1. queue[b] \in Seq(Requests)
        BY <1>0 DEF RequestTypes
      <3>2. Lines[b] = <<r>> \o queue[b]
        BY <2>1 DEF Lines, Line
      <3> HIDE DEF r
      <3> QED
        BY <2>1, <3>1, <3>2
    <2>4. UNCHANGED Lines
      BY <1>3 DEF Lines, Line
    <2>5. Append(reached[r], target[r]) = <<target[r]>>
      BY <2>1
    <2> HIDE DEF r
    <2>6. reached' = [reached EXCEPT ![r] = <<target[r]>>]
      BY <2>2, <2>5
    <2>7. Service!Run(b)
      BY <1>1, <1>3, <2>1, <2>3, <2>4, <2>6
         DEF Service!Run, Service!Serves, Service!First, Lines
    <2> QED
      BY <2>7 DEF Service!Next
  <1>4. CASE /\ pc[LoopOf[b]] \in {"lookup", "body"}
             /\ pc' = [pc EXCEPT ![LoopOf[b]] = "idle"]
             /\ current' = [current EXCEPT ![b] = NoRequest]
             /\ \E sent \in Service!Answers :
                   /\ \/ sent = <<"error">> \/ CallEntry(b)
                      \/ /\ pc[LoopOf[b]] = "body"
                         /\ sent \in AnswersTo(reached[current[b]][1])
                   /\ answer' = [answer EXCEPT ![current[b]] = sent]
             /\ UNCHANGED <<queue, reached>>
    <2>1. PICK r \in Requests : r = current[b] /\ r # NoRequest
      BY <1>0, <1>4 DEF LoopInv, RequestTypes, WithoutRequest
    <2>2. pc[LoopOf[b]] = "body" => reached[r] # <<>>
      <3>1. <<target[r]>> # <<>>
        OBVIOUS
      <3>2. pc[LoopOf[b]] = "body" => reached[r] = <<target[r]>>
        BY <1>0, <2>1 DEF ReachedInv
      <3> QED
        BY <3>1, <3>2
    <2>3. ~CallEntry(b)
      <3> SUFFICES ASSUME CallEntry(b) PROVE FALSE
        OBVIOUS
      <3>1. pc' = [pc EXCEPT ![LoopOf[b]] = "body"]
        BY <1>0, <2>1, CalledAsAsked
      <3> QED
        BY <1>0, <1>4, <3>1, LoopsApart DEF ThreadInv
    <2>4. PICK sent \in Service!Answers :
             /\ reached[r] = <<>> => sent = <<"error">>
             /\ answer' = [answer EXCEPT ![r] = sent]
      BY <1>4, <2>1, <2>2, <2>3
    <2>5. answer[r] = <<>>
      BY <1>0, <2>1 DEF AnswerInv
    <2>6. queue[b] \in Seq(Requests)
      BY <1>0 DEF RequestTypes
    <2>7. Lines[b] = <<r>> \o queue[b]
      BY <2>1 DEF Lines, Line
    <2>8. Lines[b] # <<>> /\ Head(Lines[b]) = r /\ Tail(Lines[b]) = queue[b]
      BY <2>6, <2>7
    <2>9. Lines' = [Lines EXCEPT ![b] = queue[b]]
      <3>1. current'[b] = NoRequest /\ \A c \in Buses \ {b} : current'[c] = current[c]
        BY <1>0, <1>4 DEF RequestTypes
      <3>2. Line(b)' = queue[b]
        BY <1>4, <2>6, <3>1 DEF Line
      <3>3. UNCHANGED queue
        BY <1>4
      <3>4. \A c \in Buses \ {b} : Line(c)' = Line(c)
        BY <3>1, <3>3 DEF Line
      <3> QED
        BY <3>2, <3>4 DEF Lines
    <2>10. Lines' = [Lines EXCEPT ![b] = Tail(Lines[b])]
      BY <2>8, <2>9
    <2>11. Service!Answer(b)
      BY <1>1, <1>4, <2>4, <2>5, <2>8, <2>10
         DEF Service!Answer, Service!Serves, Service!First, Lines
    <2> QED
      BY <2>11 DEF Service!Next
  <1> QED
    BY <1>2, <1>3, <1>4, LoopMoves DEF locks

\* A proxy that asks puts its request at the end of the line.
LEMMA ProxyAsks ==
  ASSUME RemoteInv, NEW r \in Requests, CallByProxy(r)
  PROVE  [Service!Next]_(Service!vars)
  <1>0. RequestTypes /\ ApplicationTypes
    BY DEF RemoteInv, ProgramInv
  <1>1. PICK b \in Buses :
           /\ target[r] = NoUse /\ wish[r] \in Wishes
           /\ target' = [target EXCEPT ![r] = wish[r]]
           /\ queue' = [queue EXCEPT ![b] = Append(queue[b], r)]
           /\ UNCHANGED <<reached, answer, current>> /\ UNCHANGED program
    BY <1>0, CallMoves
  <1>2. PICK use \in Wishes : use = wish[r]
    BY <1>1
  <1>3. queue[b] \in Seq(Requests) /\ current[b] \in Requests \cup {NoRequest}
    BY <1>0 DEF RequestTypes
  <1>4. Line(b)' = Append(Line(b), r)
    <2>1. queue'[b] = Append(queue[b], r) /\ current'[b] = current[b]
      BY <1>0, <1>1 DEF RequestTypes
    <2>2. \A x \in Requests, q \in Seq(Requests) :
             <<x>> \o Append(q, r) = Append(<<x>> \o q, r)
      OBVIOUS
    <2>3. \A q \in Seq(Requests) : <<>> \o Append(q, r) = Append(<<>> \o q, r)
      OBVIOUS
    <2>4. CASE current[b] = NoRequest
      BY <1>3, <2>1, <2>3, <2>4 DEF Line
    <2>5. CASE current[b] # NoRequest
      BY <1>3, <2>1, <2>2, <2>5 DEF Line
    <2> QED
      BY <2>4, <2>5
  <1>5. \A c \in Buses \ {b} : Line(c)' = Line(c)
    <2>1. \A c \in Buses \ {b} : queue'[c] = queue[c]
      BY <1>0, <1>1 DEF RequestTypes
    <2> QED
      BY <1>1, <2>1 DEF Line
  <1>6. Lines' = [Lines EXCEPT ![b] = Append(Lines[b], r)]
    BY <1>4, <1>5 DEF Lines
  <1>7. Service!Ask(r, b, use)
    BY <1>1, <1>2, <1>6 DEF Service!Ask, Lines, program
  <1> QED
    BY <1>7 DEF Service!Next

\* Every step is one of RequestService or a stutter.
LEMMA ServiceStep ==
  RemoteInv /\ [Next]_remoteVars => [Service!Next]_(Service!vars)
  <1> SUFFICES ASSUME RemoteInv, [Next]_remoteVars
               PROVE  [Service!Next]_(Service!vars)
    OBVIOUS
  <1>1. CASE UNCHANGED requests
    <2>1. UNCHANGED <<target, reached, answer>> /\ Lines' = Lines
      BY <1>1 DEF requests, Lines, Line
    <2>2. UNCHANGED dead \/ (dead = "no" /\ dead' # "no")
      <3>1. CASE ApplicationNext
        BY <3>1 DEF ApplicationNext, CreateProxy, MoveProxy, CallByProxy, RefusedCall,
           EndWithoutInterface, EndProxy, DropInterface, program
      <3>2. CASE ProgramNext
        <4>1. \A b \in Buses :
                 Process(b) \/ RefuseRequest(b) \/ CallEntry(b) \/ ReturnFromMember(b)
                     => UNCHANGED dead
          BY LoopMoves
        <4> QED
          BY <3>2, <4>1
             DEF ProgramNext, LoopStep, UserStep, ReadGoneTable, CorruptBus,
                 ThrowFromMember, Dies, Runs, ProcessNothing, WaitOver, FinishEmit,
                 BuildTables, Register, StartExpose, StartEmit
      <3> QED
        BY <3>1, <3>2 DEF Next, remoteVars, vars
    <2> QED
      BY <2>1, <2>2, QuietStep
  <1> QED
    BY <1>1, LoopServes, ProxyAsks, RequestsMove

\* Whatever proxies, exposures and emits do, what is asked is served in turn, by the
\* handler of its member, and answered once, with a result only when that handler ran:
\* the two programs implement RequestService (the loop, and the handlers in
\* bindings/exposables).
THEOREM RequestsServedInTurn == Spec => ServesInTurn
  <1>1. RemoteInit => Service!Init
    <2> SUFFICES ASSUME RemoteInit PROVE Service!Init
      OBVIOUS
    <2>1. /\ target = [r \in Requests |-> NoUse] /\ queue = [b \in Buses |-> <<>>]
          /\ current = [b \in Buses |-> NoRequest] /\ reached = [r \in Requests |-> <<>>]
          /\ answer = [r \in Requests |-> <<>>] /\ dead = "no"
      BY DEF RemoteInit, Init
    <2>2. \A b \in Buses : Line(b) = <<>>
      BY <2>1 DEF Line
    <2>3. [b \in Buses |-> Line(b)] = [b \in Buses |-> <<>>]
      BY <2>2
    <2> QED
      BY <2>1, <2>3 DEF Service!Init
  <1> QED
    BY <1>1, InitRemote, RemoteStep, ServiceStep, PTL DEF Spec, ServesInTurn, Service!Spec
=============================================================================

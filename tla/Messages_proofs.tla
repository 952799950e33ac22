--------------------------- MODULE Messages_proofs ---------------------------
(***************************************************************************)
(* The types of parameters and variants, and what is copied and appended,  *)
(* for every delivery, every handler and every set of variants.            *)
(***************************************************************************)
EXTENDS Messages, MessageReader_proofs

\* The message that came in, and who reads it.
Incoming ==
    /\ delivery \in Deliveries /\ writer \in Writers /\ order \in Orders
    /\ at \in {"generate", "refused", "read", "handler"}
    /\ reader \in {"fine", "threw", "crashed"}
    /\ declared \in Seq(CxxTypes \cup {Refused}) /\ Len(declared) = Len(delivery.body)
    /\ at = "read" => declared \in Seq(CxxTypes)

\* Every parameter that was read is of the type it was declared with.
Arguments ==
    /\ DOMAIN args = Parameters
    /\ read \in 0 .. Len(delivery.body)
    /\ at = "generate" => \A i \in Parameters : args[i] = NoValue
    /\ \A i \in Parameters : args[i] # NoValue => Suits(args[i], declared[i])

\* Between two parameters the outermost container is open, and as many values of it
\* are read as parameters; within one, it is placed for it.
Reading ==
    at # "handler" =>
        /\ loading = NoHolder /\ msg[1].all = delivery.body
        /\ scopes = <<>> => Len(msg) = 1 /\ msg[1].pos = read
        /\ scopes # <<>> =>
              /\ at = "read" /\ read < Len(delivery.body)
              /\ scopes[1].kind = "value" /\ scopes[1].type = declared[Turn(read)]
              /\ Len(msg) <= Len(scopes) /\ Placed(read)
              /\ Suited({"value"})

\* A variant that is read was put away as it is, and a fresh one leaves no container
\* open for longer than its scope is.
Handling ==
    at = "handler" =>
        /\ loading = NoHolder => scopes = <<>>
        /\ loading # NoHolder =>
              /\ scopes # <<>> /\ scopes[1].kind = "value"
              /\ msg[1].all = held[loading][1].all
              /\ Fresh(loading) => Len(msg) <= Len(scopes)

\* Every variant is a message; if its value is known, that is what it holds.
Variants ==
    /\ DOMAIN held = Holders /\ DOMAIN truth = Holders
    /\ \A h \in Holders : Holds(h) => IsMessage(held[h])
    /\ \A h \in Holders : Holds(h) /\ truth[h] # NoValue => held[h][1].all = <<Holding(h)>>
    /\ stored \subseteq {h \in Holders : Holds(h)}
    /\ loading \in {h \in Holders : Holds(h)} \cup {NoHolder}
    /\ out \in Seq(Values) /\ Len(out) <= MaxAppends

Inv ==
    /\ Incoming
    /\ Arguments
    /\ Reader
    /\ Reading
    /\ Handling
    /\ Variants
-----------------------------------------------------------------------------
(* Messages of one container. *)

\* A message at its beginning.
LEMMA OpenedFacts ==
    ASSUME NEW items \in Seq(Values)
    PROVE  /\ IsMessage(Opened(items))
           /\ Len(Opened(items)) = 1
           /\ Opened(items)[1] = Frame("message", items)
           /\ Opened(items)[1].all = items /\ Opened(items)[1].pos = 0
           /\ Opened(items)[1].kind = "message"
  <1>. DEFINE f == Frame("message", items)
  <1>1. f = [kind |-> "message", all |-> items, pos |-> 0]
    BY DEF Frame
  <1>2. Len(items) \in Nat
    BY LenProperties
  <1>. HIDE DEF f
  <1>3. f \in Frames /\ f.kind = "message" /\ f.all = items /\ f.pos = 0
    BY <1>1, <1>2 DEF Frames, FrameKinds
  <1>4. <<f>> \in Seq(Frames) /\ Len(<<f>>) = 1 /\ <<f>>[1] = f /\ <<f>> # <<>>
    BY <1>3
  <1>5. IsMessage(<<f>>)
    BY <1>3, <1>4 DEF IsMessage
  <1>6. Opened(items) = <<f>>
    BY DEF Opened, f
  <1>. QED
    BY <1>3, <1>4, <1>5, <1>6 DEF f

\* A message with no container open is as it was opened if nothing is read of it.
LEMMA OpenedAgain ==
    ASSUME NEW m, IsMessage(m), Len(m) = 1, m[1].pos = 0
    PROVE  m = Opened(m[1].all)
  <1>1. m \in Seq(Frames) /\ m[1] \in Frames /\ m[1].kind = "message"
    BY TopIsFrame DEF IsMessage
  <1>2. m[1] = Frame("message", m[1].all)
    BY <1>1 DEF Frame, Frames
  <1>3. m = <<m[1]>>
    <2>1. <<m[1]>> \in Seq(Frames) /\ Len(<<m[1]>>) = 1 /\ <<m[1]>>[1] = m[1]
      BY <1>1
    <2>. QED
      BY <1>1, <2>1, SingletonEqual
  <1>. QED
    BY <1>2, <1>3 DEF Opened

\* The place in the innermost container is moved.
LEMMA MovedFacts ==
    ASSUME NEW m, IsMessage(m), NEW p \in 0 .. Len(m[Len(m)].all)
    PROVE  LET n == [m EXCEPT ![Len(m)].pos = p]
           IN  /\ IsMessage(n)
               /\ Len(n) = Len(m)
               /\ n[1].all = m[1].all
               /\ n[Len(m)].pos = p
               /\ Len(m) = 1 => n[1].pos = p
  <1>. DEFINE f == [m[Len(m)] EXCEPT !.pos = p]
              n == [m EXCEPT ![Len(m)] = f]
  <1>1. m \in Seq(Frames) /\ Len(m) \in Nat \ {0} /\ m[Len(m)] \in Frames
    BY TopIsFrame DEF IsMessage
  <1>2. Len(m[Len(m)].all) \in Nat
    BY <1>1, LenProperties DEF Frames
  <1>3. f \in Frames /\ f.kind = m[Len(m)].kind /\ f.all = m[Len(m)].all /\ f.pos = p
    <2>1. m[Len(m)] \in [kind : FrameKinds, all : Seq(Values), pos : Nat]
      BY <1>1 DEF Frames
    <2>2. f = [kind |-> m[Len(m)].kind, all |-> m[Len(m)].all, pos |-> p]
      BY <2>1
    <2>3. p \in Nat /\ p <= Len(m[Len(m)].all)
      BY <1>2
    <2>4. m[Len(m)].kind = "variant" => Len(m[Len(m)].all) = 1
      BY <1>1 DEF Frames
    <2>. HIDE DEF f
    <2>5. f \in [kind : FrameKinds, all : Seq(Values), pos : Nat]
      BY <2>1, <2>2, <2>3
    <2>. QED
      BY <2>2, <2>3, <2>4, <2>5 DEF Frames
  <1>. HIDE DEF f
  <1>4. /\ n \in Seq(Frames) /\ Len(n) = Len(m)
        /\ \A j \in 1 .. Len(m) : n[j] = IF j = Len(m) THEN f ELSE m[j]
    BY <1>1, <1>3, ExceptSeq
  <1>5. [m EXCEPT ![Len(m)].pos = p] = n
    BY DEF f
  <1>. HIDE DEF n
  <1>6. n # <<>>
    BY <1>1, <1>4
  <1>7. \A i \in 1 .. Len(m) : n[i].kind = m[i].kind /\ n[i].all = m[i].all
    BY <1>3, <1>4
  <1>8. IsMessage(n)
    BY <1>4, <1>6, <1>7 DEF IsMessage
  <1>9. 1 \in 1 .. Len(m) /\ Len(m) \in 1 .. Len(m)
    BY <1>1
  <1>. QED
    BY <1>3, <1>4, <1>5, <1>7, <1>8, <1>9

\* Rewinding keeps what a message holds, and makes it fresh unless a container is open.
LEMMA RewindFacts ==
    ASSUME NEW m, IsMessage(m), NEW complete \in BOOLEAN
    PROVE  /\ IsMessage(SdRewind(m, complete))
           /\ SdRewind(m, complete)[1].all = m[1].all
           /\ complete \/ Len(m) = 1 => SdRewind(m, complete) = Opened(m[1].all)
  <1>1. Len(m) \in Nat \ {0} /\ m[1] \in Frames /\ m[Len(m)] \in Frames
    BY TopIsFrame
  <1>2. m[1].all \in Seq(Values)
    BY <1>1 DEF Frames
  <1>3. CASE complete
    <2>1. SdRewind(m, complete) = Opened(m[1].all)
      BY <1>3 DEF SdRewind
    <2>. QED
      BY <1>2, <2>1, OpenedFacts
  <1>4. CASE ~complete
    <2>. DEFINE n == [m EXCEPT ![Len(m)].pos = 0]
    <2>1. SdRewind(m, complete) = n
      BY <1>4 DEF SdRewind
    <2>2. 0 \in 0 .. Len(m[Len(m)].all)
      BY <1>1, LenProperties DEF Frames
    <2>3. /\ IsMessage(n) /\ Len(n) = Len(m) /\ n[1].all = m[1].all
          /\ Len(m) = 1 => n[1].pos = 0
      BY <2>2, MovedFacts
    <2>. HIDE DEF n
    <2>4. Len(m) = 1 => n = Opened(m[1].all)
      BY <2>3, OpenedAgain
    <2>. QED
      BY <1>4, <2>1, <2>3, <2>4
  <1>. QED
    BY <1>3, <1>4

\* What is left of a message: all of it, if it is fresh.
LEMMA RestFacts ==
    ASSUME NEW m, IsMessage(m)
    PROVE  /\ Rest(Top(m)) \in Seq(Values)
           /\ m = Opened(m[1].all) => Rest(Top(m)) = m[1].all
  <1>. DEFINE all == Top(m).all
              p == Top(m).pos
              n == Len(all)
  <1>1. Top(m) \in Frames /\ all \in Seq(Values) /\ n \in Nat /\ p \in Nat
    BY TopIsFrame, LenProperties DEF Frames
  <1>2. \A i \in p + 1 .. n : all[i] \in Values
    BY <1>1, ElementOfSeq
  <1>3. Rest(Top(m)) = SubSeq(all, p + 1, n)
    BY DEF Rest
  <1>4. SubSeq(all, p + 1, n) \in Seq(Values)
    <2>. HIDE DEF all, p, n
    <2>. QED
      BY <1>1, <1>2, SubSeqProperties
  <1>5. ASSUME m = Opened(m[1].all)
        PROVE  Rest(Top(m)) = m[1].all
    <2>1. Top(m) = m[1] /\ p = 0
      <3>1. m[1] \in Frames /\ m[1].all \in Seq(Values)
        BY TopIsFrame DEF Frames
      <3>2. Len(m) = 1 /\ m[1].pos = 0
        BY <1>5, <3>1, OpenedFacts
      <3>. QED
        BY <3>2, TopIsFrame
    <2>2. SubSeq(all, 1, n) = all
      <3>. HIDE DEF all
      <3>1. n = Len(all)
        OBVIOUS
      <3>. HIDE DEF n
      <3>2. /\ SubSeq(all, 1, n) \in Seq(Values) /\ Len(SubSeq(all, 1, n)) = n
            /\ \A i \in 1 .. n : SubSeq(all, 1, n)[i] = all[i]
        <4>1. \A i \in 1 .. n : all[i] \in Values
          BY <1>1, <3>1, ElementOfSeq
        <4>2. /\ SubSeq(all, 1, n) \in Seq(Values)
              /\ Len(SubSeq(all, 1, n)) = IF 1 <= n THEN n - 1 + 1 ELSE 0
              /\ \A i \in 1 .. n - 1 + 1 : SubSeq(all, 1, n)[i] = all[1 + i - 1]
          BY <1>1, <4>1, SubSeqProperties
        <4>. QED
          BY <1>1, <4>2
      <3>. QED
        BY <1>1, <3>1, <3>2, SeqEqual
    <2>. QED
      BY <1>3, <2>1, <2>2
  <1>. QED
    BY <1>3, <1>4, <1>5

-----------------------------------------------------------------------------
(* The invariant. *)

\* What is assumed of the messages that come in.
LEMMA DeliveryFacts ==
    ASSUME delivery \in Deliveries
    PROVE  /\ delivery.body \in Seq(Values) /\ Len(delivery.body) \in Nat
           /\ Parameters = 1 .. Len(delivery.body)
           /\ delivery.declared \in Seq(CxxTypes)
           /\ Len(delivery.declared) = Len(delivery.body)
           /\ \A i \in Parameters : Generated[delivery.body[i].type] \in CxxTypes \cup {Refused}
  <1>1. /\ delivery.body \in Seq(Values)
        /\ delivery.declared \in Seq(CxxTypes)
        /\ Len(delivery.declared) = Len(delivery.body)
        /\ \A i \in DOMAIN delivery.body :
              Generated[delivery.body[i].type] \in CxxTypes \cup {Refused}
    BY MessagesAssumption
  <1>. QED
    BY <1>1, LenProperties DEF Parameters

\* Every turn is that of a parameter.
LEMMA TurnFacts ==
    ASSUME delivery \in Deliveries, NEW n \in 0 .. Len(delivery.body), n < Len(delivery.body)
    PROVE  Turn(n) \in Parameters
  BY DeliveryFacts DEF Turn

\* The invariant holds at first.
THEOREM InitInv ==
    ASSUME Init
    PROVE  Inv
  <1>1. delivery \in Deliveries /\ writer \in Writers /\ order \in Orders
    BY DEF Init
  <1>2. /\ delivery.body \in Seq(Values) /\ Len(delivery.body) \in Nat
        /\ Parameters = 1 .. Len(delivery.body)
        /\ delivery.declared \in Seq(CxxTypes)
        /\ Len(delivery.declared) = Len(delivery.body)
    BY <1>1, DeliveryFacts
  <1>3. Incoming
    <2>1. declared = delivery.declared /\ at \in {"generate", "read"} /\ reader = "fine"
      BY DEF Init
    <2>2. declared \in Seq(CxxTypes \cup {Refused})
      BY <1>2, <2>1, SeqMonotonic
    <2>. QED
      BY <1>1, <1>2, <2>1, <2>2 DEF Incoming
  <1>4. Arguments
    BY <1>2 DEF Init, Arguments
  <1>5. IsMessage(msg) /\ Len(msg) = 1 /\ msg[1].all = delivery.body /\ msg[1].pos = 0
    BY <1>2, OpenedFacts DEF Init
  <1>6. scopes = <<>> /\ loading = NoHolder /\ at \in {"generate", "read"} /\ read = 0
    BY DEF Init
  <1>7. Reader
    <2>1. IsSeq(<<>>) /\ Len(<<>>) = 0
      BY EmptySeq, SeqIsSeq
    <2>2. AreScopes(<<>>)
      BY <2>1 DEF AreScopes
    <2>. QED
      BY <1>5, <1>6, <2>1, <2>2 DEF Reader, ReaderInv, UnpackReady, Suited
  <1>8. Reading /\ Handling
    BY <1>5, <1>6 DEF Reading, Handling
  <1>9. Variants
    <2>1. /\ held = [h \in Holders |-> <<>>] /\ truth = [h \in Holders |-> NoValue]
          /\ stored = {} /\ loading = NoHolder /\ out = <<>>
      BY DEF Init
    <2>2. Len(<<>>) = 0 /\ <<>> \in Seq(Values) /\ MaxAppends \in Nat
      BY MessagesAssumption
    <2>. QED
      BY <2>1, <2>2 DEF Variants, Holds
  <1>. QED
    BY <1>3, <1>4, <1>7, <1>8, <1>9 DEF Inv

\* What no action but those named changes.
LEMMA IncomingKept ==
    ASSUME Incoming, UNCHANGED <<incoming, at>>, reader' \in {"fine", "threw", "crashed"}
    PROVE  Incoming'
  BY DEF Incoming, incoming

\* No argument is read.
LEMMA ArgumentsKept ==
    ASSUME Arguments, UNCHANGED <<incoming, args, read>>, at' # "generate"
    PROVE  Arguments'
  BY DEF Arguments, incoming, Parameters

\* No variant is used.
LEMMA VariantsKept ==
    ASSUME Variants, UNCHANGED variants
    PROVE  Variants'
  BY DEF Variants, variants, Holds, Holding

\* No message is read.
LEMMA ReaderUnchanged ==
    ASSUME Reader, UNCHANGED <<msg, scopes>>
    PROVE  Reader'
  BY DEF Reader, ReaderInv, UnpackReady, Suited, Innermost

\* The generator declares types, or refuses.
LEMMA GenerateInv ==
    ASSUME Inv, Generate
    PROVE  Inv'
  <1>. DEFINE types == [i \in Parameters |-> Generated[delivery.body[i].type]]
  <1>1. /\ at = "generate" /\ declared' = types
        /\ at' = IF \E i \in Parameters : types[i] = Refused THEN "refused" ELSE "read"
        /\ UNCHANGED <<delivery, writer, order, args, read, readerVars, variants>>
    BY DEF Generate
  <1>2. delivery \in Deliveries
    BY DEF Inv, Incoming
  <1>3. /\ Len(delivery.body) \in Nat /\ Parameters = 1 .. Len(delivery.body)
        /\ \A i \in Parameters : Generated[delivery.body[i].type] \in CxxTypes \cup {Refused}
    BY <1>2, DeliveryFacts
  <1>4. types \in Seq(CxxTypes \cup {Refused}) /\ Len(types) = Len(delivery.body)
    BY <1>3
  <1>5. (\A i \in Parameters : types[i] # Refused) => types \in Seq(CxxTypes)
    <2>1. SUFFICES ASSUME \A i \in Parameters : types[i] # Refused
                   PROVE  types \in Seq(CxxTypes)
      OBVIOUS
    <2>2. \A i \in 1 .. Len(delivery.body) : Generated[delivery.body[i].type] \in CxxTypes
      BY <1>3, <2>1
    <2>. QED
      BY <1>3, <2>2
  <1>. HIDE DEF types
  <1>6. at' \in {"refused", "read"} /\ (at' = "read" => declared' \in Seq(CxxTypes))
    BY <1>1, <1>5
  <1>7. Incoming'
    BY <1>1, <1>4, <1>6 DEF Inv, Incoming, readerVars
  <1>8. Arguments'
    <2>1. \A i \in Parameters : args[i] = NoValue
      BY <1>1 DEF Inv, Arguments
    <2>. QED
      BY <1>1, <1>6, <2>1 DEF Inv, Arguments, Parameters
  <1>9. Reader'
    BY <1>1, ReaderUnchanged DEF Inv, readerVars
  <1>10. Reading'
    <2>1. scopes = <<>>
      BY <1>1 DEF Inv, Reading
    <2>. QED
      BY <1>1, <2>1 DEF Inv, Reading, readerVars, variants
  <1>11. Handling'
    BY <1>6 DEF Handling
  <1>12. Variants'
    BY <1>1, VariantsKept DEF Inv
  <1>. QED
    BY <1>7, <1>8, <1>9, <1>10, <1>11, <1>12 DEF Inv

\* A parameter begins to be read at its own place.
LEMMA BeginParameterInv ==
    ASSUME Inv, BeginParameter
    PROVE  Inv'
  <1>1. /\ at = "read" /\ read < Len(delivery.body) /\ reader = "fine"
        /\ BeginRead(declared[Turn(read)], msg) /\ scopes = <<>>
        /\ UNCHANGED <<incoming, parameters, variants>>
    BY DEF BeginParameter, BeginRead
  <1>2. /\ declared \in Seq(CxxTypes) /\ Len(declared) = Len(delivery.body)
        /\ delivery \in Deliveries /\ read \in 0 .. Len(delivery.body)
        /\ IsMessage(msg) /\ Len(msg) = 1 /\ msg[1].pos = read
        /\ loading = NoHolder /\ msg[1].all = delivery.body
    BY <1>1 DEF Inv, Incoming, Arguments, Reader, ReaderInv, Reading
  <1>3. Turn(read) \in 1 .. Len(declared)
    BY <1>1, <1>2, TurnFacts, DeliveryFacts
  <1>4. declared[Turn(read)] \in CxxTypes
    BY <1>2, <1>3, ElementOfSeq
  <1>5. /\ Reader' /\ Suited({"value"})' /\ msg' = msg /\ reader' = reader
        /\ scopes' # <<>> /\ Len(scopes') = 1
        /\ scopes'[1].kind = "value" /\ scopes'[1].type = declared[Turn(read)]
        /\ scopes'[1].open
    BY <1>1, <1>2, <1>4, BeginReadFacts
  <1>6. Incoming' /\ Arguments'
    BY <1>1, <1>5, IncomingKept, ArgumentsKept DEF Inv, Incoming, parameters
  <1>7. Placed(read)'
    BY <1>1, <1>2, <1>5 DEF Placed, parameters
  <1>8. Turn(read)' = Turn(read) /\ declared' = declared /\ read' = read /\ at' = at
        /\ delivery' = delivery /\ loading' = loading
    BY <1>1 DEF Turn, incoming, parameters, variants
  <1>9. Reading'
    <2>1. Len(msg') <= Len(scopes')
      <3>1. Len(msg') = 1 /\ Len(scopes') = 1
        BY <1>2, <1>5, Zenon
      <3>. QED
        BY <3>1
    <2>2. read' < Len(delivery'.body) /\ msg'[1].all = delivery'.body /\ at' = "read"
      BY <1>1, <1>2, <1>5, <1>8
    <2>3. scopes'[1].type = declared'[Turn(read)'] /\ loading' = NoHolder
      BY <1>2, <1>5, <1>8
    <2>. QED
      BY <1>5, <1>7, <2>1, <2>2, <2>3, Zenon DEF Reading
  <1>10. Handling'
    BY <1>1, <1>8 DEF Handling
  <1>11. Variants'
    BY <1>1, VariantsKept DEF Inv
  <1>. QED
    BY <1>5, <1>6, <1>9, <1>10, <1>11 DEF Inv

\* A parameter is stored as it was read, and the next one follows.
LEMMA EndParameterInv ==
    ASSUME Inv, EndParameter
    PROVE  Inv'
  <1>. DEFINE v == scopes[1].got[1]
              t == Turn(read)
  <1>1. /\ at = "read" /\ reader = "fine" /\ Len(scopes) = 1 /\ ~scopes[1].open
        /\ args' = [args EXCEPT ![t] = v] /\ read' = read + 1 /\ scopes' = <<>>
        /\ UNCHANGED <<incoming, at, msg, reader, variants>>
    BY DEF EndParameter, Finished
  <1>2. scopes # <<>>
    BY <1>1, IsSeqFacts DEF Inv, Reader, ReaderInv, AreScopes
  <1>3. /\ loading = NoHolder /\ msg[1].all = delivery.body
        /\ read < Len(delivery.body) /\ scopes[1].kind = "value"
        /\ scopes[1].type = declared[t]
        /\ Len(msg) <= Len(scopes) /\ Placed(read) /\ Suited({"value"})
        /\ IsMessage(msg) /\ delivery \in Deliveries
    BY <1>1, <1>2 DEF Inv, Reading, Reader, ReaderInv, Incoming
  <1>4. Suits(v, declared[t])
    BY <1>1, <1>3 DEF Suited
  <1>5. t \in Parameters /\ read \in Nat /\ read + 1 \in 0 .. Len(delivery.body)
    BY <1>3, TurnFacts, DeliveryFacts DEF Inv, Arguments
  <1>. HIDE DEF v, t
  <1>6. Incoming'
    BY <1>1, IncomingKept DEF Inv
  <1>7. Arguments'
    BY <1>1, <1>4, <1>5 DEF Inv, Arguments, incoming, Parameters
  <1>8. Reader'
    BY <1>1, <1>3, NoScopes
  <1>9. Len(msg) = 1
    BY <1>1, <1>3, TopIsFrame, AtMostOne
  <1>10. msg[1].pos = read + 1
    BY <1>1, <1>3, <1>9 DEF Placed
  <1>11. Reading'
    <2>1. loading' = loading /\ msg' = msg /\ delivery' = delivery
      BY <1>1 DEF incoming, variants
    <2>. QED
      BY <1>1, <1>3, <1>9, <1>10, <2>1 DEF Reading
  <1>12. Handling'
    BY <1>1 DEF Handling
  <1>13. Variants'
    BY <1>1, VariantsKept DEF Inv
  <1>. QED
    BY <1>6, <1>7, <1>8, <1>11, <1>12, <1>13 DEF Inv

\* The handler is called.
LEMMA CallHandlerInv ==
    ASSUME Inv, CallHandler
    PROVE  Inv'
  <1>1. /\ at = "read" /\ read = Len(delivery.body)
        /\ at' = "handler" /\ msg' = NoMessage
        /\ UNCHANGED <<incoming, args, read, scopes, reader, variants>>
    BY DEF CallHandler, AllRead
  <1>2. scopes = <<>> /\ loading = NoHolder
    BY <1>1, DeliveryFacts DEF Inv, Incoming, Reading
  <1>3. Incoming'
    BY <1>1 DEF Inv, Incoming, incoming
  <1>4. Arguments'
    BY <1>1, ArgumentsKept DEF Inv
  <1>5. IsMessage(NoMessage)
    BY OpenedFacts, EmptySeq DEF NoMessage
  <1>6. Reader'
    BY <1>1, <1>2, <1>5, NoScopes
  <1>7. Reading' /\ Handling'
    BY <1>1, <1>2 DEF Reading, Handling, variants
  <1>8. Variants'
    BY <1>1, VariantsKept DEF Inv
  <1>. QED
    BY <1>3, <1>4, <1>6, <1>7, <1>8 DEF Inv

\* A reader goes on.
LEMMA ReadOnInv ==
    ASSUME Inv, ReadOn
    PROVE  Inv'
  <1>1. ReaderStep /\ UNCHANGED <<incoming, parameters, variants>>
    BY DEF ReadOn
  <1>2. /\ ReaderInv /\ scopes # <<>> /\ reader' \in {"fine", "threw", "crashed"}
        /\ Reader' /\ scopes' # <<>> /\ StepOrStutter
    BY <1>1, ReadingGoesOn, ReaderKept DEF Inv, Reader
  <1>3. /\ msg'[1].all = msg[1].all
        /\ scopes'[1].kind = scopes[1].kind /\ scopes'[1].type = scopes[1].type
        /\ Len(msg) <= Len(scopes) => Len(msg') <= Len(scopes')
    BY <1>2, StepShapes
  <1>4. /\ delivery' = delivery /\ declared' = declared /\ read' = read /\ at' = at
        /\ loading' = loading /\ held' = held /\ Turn(read)' = Turn(read)
    BY <1>1 DEF incoming, parameters, variants, Turn
  <1>5. Incoming'
    BY <1>1, <1>2, IncomingKept DEF Inv, parameters
  <1>6. Arguments'
    <2>1. CASE at = "generate"
      BY <1>2, <2>1 DEF Inv, Reading
    <2>2. CASE at # "generate"
      BY <1>1, <2>2, ArgumentsKept DEF Inv, parameters
    <2>. QED
      BY <2>1, <2>2
  <1>7. Reading'
    <2>1. SUFFICES ASSUME at # "handler"
                   PROVE  Reading'
      BY <1>4 DEF Reading
    <2>2. /\ loading = NoHolder /\ msg[1].all = delivery.body
          /\ at = "read" /\ read < Len(delivery.body)
          /\ scopes[1].kind = "value" /\ scopes[1].type = declared[Turn(read)]
          /\ Len(msg) <= Len(scopes) /\ Placed(read) /\ Suited({"value"})
      BY <1>2, <2>1 DEF Inv, Reading
    <2>3. read \in Nat
      BY DeliveryFacts DEF Inv, Incoming, Arguments
    <2>4. Len(msg') <= Len(scopes') /\ Placed(read)'
      <3>1. read < Len(msg[1].all)
        BY <2>2
      <3>2. \A start \in Nat :
               start < Len(msg[1].all) /\ Placed(start) => Placed(start)'
        BY <1>2, <2>2, PlacedKept
      <3>3. read' = read
        BY <1>4
      <3>. QED
        BY <1>3, <2>2, <2>3, <3>1, <3>2, <3>3 DEF Placed
    <2>5. Suited({"value"})'
      <3>1. Innermost.open /\ Innermost.kind \in {"value"} => ~AtEnd(msg)
        BY <1>2, <2>2, <2>3, ValueNotAtEnd
      <3>. QED
        BY <1>2, <2>2, <3>1, SuitedKept DEF Inv, Reader
    <2>. QED
      BY <1>2, <1>3, <1>4, <2>2, <2>4, <2>5 DEF Reading
  <1>8. Handling'
    <2>1. Fresh(loading)' => Fresh(loading)
      BY <1>4 DEF Fresh, Holds
    <2>2. SUFFICES ASSUME at = "handler"
                   PROVE  Handling'
      BY <1>4 DEF Handling
    <2>3. /\ loading # NoHolder
          /\ scopes[1].kind = "value"
          /\ msg[1].all = held[loading][1].all
          /\ Fresh(loading) => Len(msg) <= Len(scopes)
      BY <1>2, <2>2 DEF Inv, Handling
    <2>. QED
      BY <1>2, <1>3, <1>4, <2>1, <2>3 DEF Handling
  <1>9. Variants'
    BY <1>1, VariantsKept DEF Inv
  <1>. QED
    BY <1>2, <1>5, <1>6, <1>7, <1>8, <1>9 DEF Inv

\* An action of the handler that reads nothing.
LEMMA HandlerInv ==
    ASSUME Inv, InHandler, UNCHANGED <<readerVars, loading>>, Variants'
    PROVE  Inv'
  <1>1. /\ at = "handler" /\ loading = NoHolder
        /\ UNCHANGED <<incoming, parameters, msg, scopes, reader, loading>>
    BY DEF InHandler, readerVars
  <1>2. Incoming' /\ Arguments'
    BY <1>1, IncomingKept, ArgumentsKept DEF Inv, Incoming, parameters
  <1>3. Reader'
    BY <1>1, ReaderUnchanged DEF Inv
  <1>4. Reading' /\ Handling'
    BY <1>1 DEF Inv, Reading, Handling, parameters
  <1>. QED
    BY <1>2, <1>3, <1>4 DEF Inv

\* One variant gets another message.
LEMMA VariantSet ==
    ASSUME Variants, NEW h \in Holders, NEW m, IsMessage(m), NEW t,
           held' = [held EXCEPT ![h] = m],
           DOMAIN truth' = Holders, truth'[h] = t,
           \A g \in Holders \ {h} : truth'[g] = truth[g],
           stored' = stored \/ stored' = stored \cup {h} \/ stored' = stored \ {h},
           t # NoValue => m[1].all = <<IF h \in stored' THEN Wrapped(t) ELSE t>>,
           loading' = loading \/ loading' = NoHolder,
           out' \in Seq(Values), Len(out') <= MaxAppends
    PROVE  Variants'
  <1>1. m # <<>>
    BY DEF IsMessage
  <1>2. held'[h] = m /\ truth'[h] = t /\ DOMAIN held' = Holders /\ DOMAIN truth' = Holders
    BY DEF Variants
  <1>3. \A g \in Holders \ {h} :
           held'[g] = held[g] /\ truth'[g] = truth[g] /\ (g \in stored' <=> g \in stored)
    BY DEF Variants
  <1>4. ASSUME NEW g \in Holders, Holds(g)'
        PROVE  IsMessage(held'[g]) /\ (truth'[g] # NoValue => held'[g][1].all = <<Holding(g)'>>)
    <2>1. CASE g = h
      BY <1>2, <2>1 DEF Holding
    <2>2. CASE g # h
      <3>1. held'[g] = held[g] /\ truth'[g] = truth[g] /\ Holds(g) /\ Holding(g)' = Holding(g)
        BY <1>3, <1>4, <2>2 DEF Holds, Holding
      <3>. QED
        BY <3>1 DEF Variants
    <2>. QED
      BY <2>1, <2>2
  <1>5. \A g \in Holders : Holds(g) => Holds(g)'
    BY <1>1, <1>2, <1>3 DEF Holds
  <1>6. /\ stored' \subseteq {g \in Holders : Holds(g)'}
        /\ loading' \in {g \in Holders : Holds(g)'} \cup {NoHolder}
    <2>1. Holds(h)'
      BY <1>1, <1>2 DEF Holds
    <2>. QED
      BY <1>5, <2>1 DEF Variants
  <1>. QED
    BY <1>2, <1>4, <1>6 DEF Variants

\* A variant that is taken holds one value.
LEMMA TakeVariantInv ==
    ASSUME Inv, NEW h \in Holders, NEW i \in Parameters, TakeVariant(h, i)
    PROVE  Inv'
  <1>1. /\ InHandler /\ args[i].type = VariantType
        /\ held' = [held EXCEPT ![h] = Opened(args[i].items)]
        /\ truth' = [truth EXCEPT ![h] = args[i].items[1]]
        /\ stored' = stored \ {h}
        /\ UNCHANGED <<readerVars, loading, out>>
    BY DEF TakeVariant
  <1>2. args[i] # NoValue
    <2>1. NoValue.type.kind = "none" /\ VariantType.kind = "variant"
      BY DEF NoValue, Value, VariantType, Type
    <2>. QED
      BY <1>1, <2>1
  <1>3. args[i].items \in Seq(Values) /\ Len(args[i].items) = 1
    BY <1>1, <1>2 DEF Inv, Arguments, Suits
  <1>4. args[i].items = <<args[i].items[1]>>
    <2>1. args[i].items[1] \in Values
      BY <1>3, ElementOfSeq
    <2>2. /\ <<args[i].items[1]>> \in Seq(Values) /\ Len(<<args[i].items[1]>>) = 1
          /\ <<args[i].items[1]>>[1] = args[i].items[1]
      BY <2>1
    <2>. QED
      BY <1>3, <2>2, SingletonEqual
  <1>5. IsMessage(Opened(args[i].items)) /\ Opened(args[i].items)[1].all = args[i].items
    BY <1>3, OpenedFacts
  <1>6. h \notin stored'
    BY <1>1
  <1>7. Variants'
    BY <1>1, <1>4, <1>5, <1>6, VariantSet DEF Inv, Variants
  <1>. QED
    BY <1>1, <1>7, HandlerInv

\* A stored value is wrapped.
LEMMA VariantStoreInv ==
    ASSUME Inv, NEW h \in Holders, NEW value \in Storables, VariantStore(h, value)
    PROVE  Inv'
  <1>1. /\ InHandler
        /\ held' = [held EXCEPT ![h] = Opened(<<Wrapped(value)>>)]
        /\ truth' = [truth EXCEPT ![h] = value]
        /\ stored' = stored \cup {h}
        /\ UNCHANGED <<readerVars, loading, out>>
    BY DEF VariantStore, AppendedVariant
  <1>2. <<Wrapped(value)>> \in Seq(Values)
    BY MessagesAssumption
  <1>3. /\ IsMessage(Opened(<<Wrapped(value)>>))
        /\ Opened(<<Wrapped(value)>>)[1].all = <<Wrapped(value)>>
    BY <1>2, OpenedFacts
  <1>4. h \in stored'
    BY <1>1
  <1>5. Variants'
    BY <1>1, <1>3, <1>4, VariantSet DEF Inv, Variants
  <1>. QED
    BY <1>1, <1>5, HandlerInv

\* Rewinding keeps what a variant holds.
LEMMA VariantRewindInv ==
    ASSUME Inv, NEW h \in Holders, NEW complete \in BOOLEAN, VariantRewind(h, complete)
    PROVE  Inv'
  <1>. DEFINE m == SdRewind(held[h], complete)
  <1>1. /\ InHandler /\ Holds(h)
        /\ held' = [held EXCEPT ![h] = m]
        /\ UNCHANGED <<readerVars, truth, stored, loading, out>>
    BY DEF VariantRewind
  <1>2. IsMessage(held[h])
    BY <1>1 DEF Inv, Variants
  <1>3. IsMessage(m) /\ m[1].all = held[h][1].all
    BY <1>2, RewindFacts
  <1>. HIDE DEF m
  <1>4. truth' = truth /\ DOMAIN truth = Holders
    BY <1>1 DEF Inv, Variants
  <1>5. truth[h] # NoValue => m[1].all = <<IF h \in stored' THEN Wrapped(truth[h]) ELSE truth[h]>>
    BY <1>1, <1>3 DEF Inv, Variants, Holding
  <1>6. Variants'
    BY <1>1, <1>3, <1>4, <1>5, VariantSet DEF Inv, Variants
  <1>. QED
    BY <1>1, <1>6, HandlerInv

\* Appending leaves the variant at its end.
LEMMA AppendToFacts ==
    ASSUME Inv, NEW h \in Holders, AppendTo(h)
    PROVE  /\ Holds(h) /\ IsMessage(held[h])
           /\ Rest(Top(held[h])) \in Seq(Values)
           /\ out' \in Seq(Values)
           /\ IsMessage(held'[h]) /\ held'[h][1].all = held[h][1].all
           /\ held' = [held EXCEPT ![h] = held'[h]]
  <1>. DEFINE m == held[h]
              p == Len(m[Len(m)].all)
              n == [m EXCEPT ![Len(m)].pos = p]
  <1>1. /\ Holds(h) /\ out' = out \o Rest(Top(m))
        /\ held' = [held EXCEPT ![h][Len(m)].pos = Len(Top(m).all)]
    BY DEF AppendTo
  <1>2. IsMessage(m) /\ out \in Seq(Values) /\ DOMAIN held = Holders
    BY <1>1 DEF Inv, Variants
  <1>3. Rest(Top(m)) \in Seq(Values)
    BY <1>2, RestFacts
  <1>4. out' \in Seq(Values)
    BY <1>1, <1>2, <1>3, ConcatProperties
  <1>5. Top(m) = m[Len(m)]
    BY <1>2, TopIsFrame
  <1>6. held' = [held EXCEPT ![h] = n]
    BY <1>1, <1>5
  <1>7. p \in 0 .. p
    <2>1. m[Len(m)] \in Frames
      BY <1>2, TopIsFrame
    <2>. QED
      BY <2>1, LenProperties DEF Frames
  <1>8. IsMessage(n) /\ n[1].all = m[1].all
    <2>. HIDE DEF m
    <2>. QED
      BY <1>2, <1>7, MovedFacts
  <1>9. held'[h] = n
    BY <1>2, <1>6
  <1>. QED
    BY <1>1, <1>2, <1>3, <1>4, <1>6, <1>8, <1>9

\* Appending moves a variant and keeps what it holds.
LEMMA AppendToInv ==
    ASSUME Inv, NEW h \in Holders, AppendTo(h)
    PROVE  Inv'
  <1>1. /\ InHandler
        /\ Len(out') <= MaxAppends
        /\ UNCHANGED <<readerVars, truth, stored, loading>>
    BY DEF AppendTo
  <1>. DEFINE m == held'[h]
  <1>2. /\ Holds(h) /\ IsMessage(m) /\ m[1].all = held[h][1].all
        /\ held' = [held EXCEPT ![h] = m] /\ out' \in Seq(Values)
    BY AppendToFacts
  <1>. HIDE DEF m
  <1>3. truth' = truth /\ DOMAIN truth = Holders
    BY <1>1 DEF Inv, Variants
  <1>4. truth[h] # NoValue => m[1].all = <<IF h \in stored' THEN Wrapped(truth[h]) ELSE truth[h]>>
    BY <1>1, <1>2 DEF Inv, Variants, Holding
  <1>5. Variants'
    BY <1>1, <1>2, <1>3, <1>4, VariantSet DEF Inv
  <1>. QED
    BY <1>1, <1>5, HandlerInv

\* A cleared variant holds nothing.
LEMMA VariantClearInv ==
    ASSUME Inv, NEW h \in Holders, VariantClear(h)
    PROVE  Inv'
  <1>1. /\ InHandler /\ loading = NoHolder
        /\ held' = [held EXCEPT ![h] = <<>>]
        /\ truth' = [truth EXCEPT ![h] = NoValue]
        /\ stored' = stored \ {h}
        /\ UNCHANGED <<readerVars, loading, out>>
    BY DEF VariantClear, InHandler
  <1>2. /\ DOMAIN held' = Holders /\ DOMAIN truth' = Holders /\ ~Holds(h)'
        /\ \A g \in Holders \ {h} :
              held'[g] = held[g] /\ truth'[g] = truth[g] /\ (g \in stored' <=> g \in stored)
    BY <1>1 DEF Inv, Variants, Holds
  <1>3. \A g \in Holders \ {h} : Holding(g)' = Holding(g) /\ (Holds(g)' <=> Holds(g))
    BY <1>2 DEF Holding, Holds
  <1>4. stored' \subseteq {g \in Holders : Holds(g)'} /\ loading' = NoHolder
    BY <1>1, <1>3 DEF Inv, Variants
  <1>5. \A g \in Holders : Holds(g)' =>
           /\ IsMessage(held'[g])
           /\ truth'[g] # NoValue => held'[g][1].all = <<Holding(g)'>>
    BY <1>2, <1>3 DEF Inv, Variants
  <1>6. Variants'
    BY <1>1, <1>2, <1>4, <1>5 DEF Inv, Variants
  <1>. QED
    BY <1>1, <1>6, HandlerInv

\* The copy and its source are fresh, and the source holds what it did.
LEMMA VariantCopyFacts ==
    ASSUME Inv, NEW h \in Holders, NEW g \in Holders, VariantCopy(h, g)
    PROVE  LET rest == Rest(Top(held[h]))
           IN  /\ h # g /\ Holds(h) /\ IsMessage(held[h])
               /\ rest \in Seq(Values) /\ held[h][1].all \in Seq(Values)
               /\ DOMAIN held' = Holders
               /\ held'[g] = Opened(rest)
               /\ held'[h] = Opened(held[h][1].all)
               /\ \A f \in Holders \ {g, h} : held'[f] = held[f]
               /\ Fresh(h) => rest = held[h][1].all
  <1>. DEFINE rest == Rest(Top(held[h]))
  <1>1. /\ Holds(h) /\ h # g
        /\ held' = [held EXCEPT ![g] = Opened(rest), ![h] = AfterCopy(held[h])]
    BY DEF VariantCopy
  <1>2. IsMessage(held[h]) /\ DOMAIN held = Holders
    BY <1>1 DEF Inv, Variants
  <1>3. rest \in Seq(Values) /\ (Fresh(h) => rest = held[h][1].all)
    BY <1>2, RestFacts DEF Fresh
  <1>4. held[h][1].all \in Seq(Values)
    BY <1>2, TopIsFrame DEF Frames
  <1>5. AfterCopy(held[h]) = Opened(held[h][1].all)
    BY DEF AfterCopy, SdRewind
  <1>. HIDE DEF rest
  <1>6. /\ held'[g] = Opened(rest) /\ held'[h] = Opened(held[h][1].all)
        /\ DOMAIN held' = Holders
        /\ \A f \in Holders \ {g, h} : held'[f] = held[f]
    BY <1>1, <1>2, <1>5
  <1>. QED
    BY <1>1, <1>2, <1>3, <1>4, <1>6 DEF rest

\* A copy of a fresh variant holds what its source does.
LEMMA VariantCopyInv ==
    ASSUME Inv, NEW h \in Holders, NEW g \in Holders, VariantCopy(h, g)
    PROVE  Inv'
  <1>. DEFINE rest == Rest(Top(held[h]))
  <1>1. /\ InHandler /\ loading = NoHolder
        /\ truth' = [truth EXCEPT ![g] = IF Fresh(h) THEN truth[h] ELSE NoValue]
        /\ stored' = IF h \in stored THEN stored \cup {g} ELSE stored \ {g}
        /\ UNCHANGED <<readerVars, loading, out>>
    BY DEF VariantCopy, InHandler
  <1>2. /\ h # g /\ Holds(h)
        /\ rest \in Seq(Values) /\ held[h][1].all \in Seq(Values)
        /\ DOMAIN held' = Holders
        /\ held'[g] = Opened(rest) /\ held'[h] = Opened(held[h][1].all)
        /\ \A f \in Holders \ {g, h} : held'[f] = held[f]
        /\ Fresh(h) => rest = held[h][1].all
    BY VariantCopyFacts
  <1>. HIDE DEF rest
  <1>3. /\ DOMAIN truth' = Holders
        /\ truth'[g] = IF Fresh(h) THEN truth[h] ELSE NoValue
        /\ \A f \in Holders \ {g} : truth'[f] = truth[f] /\ (f \in stored' <=> f \in stored)
        /\ g \in stored' <=> h \in stored
    BY <1>1 DEF Inv, Variants
  <1>4. truth[h] # NoValue => held[h][1].all = <<Holding(h)>>
    BY <1>2 DEF Inv, Variants
  <1>5. ASSUME NEW f \in Holders, Holds(f)'
        PROVE  IsMessage(held'[f]) /\ (truth'[f] # NoValue => held'[f][1].all = <<Holding(f)'>>)
    <2>1. CASE f = g
      <3>1. IsMessage(held'[g]) /\ held'[g][1].all = rest
        BY <1>2, OpenedFacts
      <3>2. truth'[g] # NoValue => Fresh(h) /\ truth'[g] = truth[h] /\ truth[h] # NoValue
        BY <1>3
      <3>3. truth'[g] # NoValue => Holding(g)' = Holding(h)
        BY <1>3, <3>2 DEF Holding
      <3>. QED
        BY <1>2, <1>4, <2>1, <3>1, <3>2, <3>3
    <2>2. CASE f = h
      <3>1. IsMessage(held'[h]) /\ held'[h][1].all = held[h][1].all
        BY <1>2, OpenedFacts
      <3>2. truth'[h] = truth[h] /\ Holding(h)' = Holding(h)
        BY <1>2, <1>3 DEF Holding
      <3>. QED
        BY <1>4, <2>2, <3>1, <3>2
    <2>3. CASE f \notin {g, h}
      <3>1. held'[f] = held[f] /\ truth'[f] = truth[f] /\ Holds(f) /\ Holding(f)' = Holding(f)
        BY <1>2, <1>3, <1>5, <2>3 DEF Holding, Holds
      <3>. QED
        BY <3>1 DEF Inv, Variants
    <2>. QED
      BY <2>1, <2>2, <2>3
  <1>6. stored' \subseteq {f \in Holders : Holds(f)'}
    <2>1. Holds(g)' /\ Holds(h)'
      BY <1>2, OpenedFacts DEF Holds, IsMessage
    <2>2. \A f \in Holders \ {g, h} : f \in stored' => Holds(f)'
      BY <1>2, <1>3 DEF Inv, Variants, Holds
    <2>3. stored' \subseteq Holders
      BY <1>1 DEF Inv, Variants
    <2>. QED
      BY <2>1, <2>2, <2>3
  <1>7. Variants'
    BY <1>1, <1>2, <1>3, <1>5, <1>6 DEF Inv, Variants
  <1>. QED
    BY <1>1, <1>7, HandlerInv

\* A load reads the message of its variant.
LEMMA BeginLoadInv ==
    ASSUME Inv, NEW h \in Holders, NEW T \in LoadTypes, BeginLoad(h, T)
    PROVE  Inv'
  <1>1. /\ at = "handler" /\ loading = NoHolder /\ Holds(h) /\ loading' = h
        /\ BeginRead(T, held[h])
        /\ UNCHANGED <<incoming, parameters, held, truth, stored, out>>
    BY DEF BeginLoad, InHandler
  <1>2. IsMessage(held[h]) /\ T \in CxxTypes
    BY <1>1, MessagesAssumption DEF Inv, Variants
  <1>3. /\ Reader' /\ msg' = held[h] /\ reader' = reader
        /\ scopes' # <<>> /\ Len(scopes') = 1 /\ scopes'[1].kind = "value"
    BY <1>1, <1>2, BeginReadFacts
  <1>4. Incoming' /\ Arguments'
    BY <1>1, <1>3, IncomingKept, ArgumentsKept DEF Inv, Incoming, parameters
  <1>5. Reading'
    BY <1>1 DEF Reading, parameters
  <1>6. Handling'
    <2>1. Fresh(loading)' => Len(msg') = 1
      <3>1. held[h][1].all \in Seq(Values)
        BY <1>2, TopIsFrame DEF Frames
      <3>2. Fresh(loading)' => held[h] = Opened(held[h][1].all)
        BY <1>1 DEF Fresh
      <3>. QED
        BY <1>3, <3>1, <3>2, OpenedFacts
    <2>2. ASSUME Fresh(loading)'
          PROVE  Len(msg') <= Len(scopes')
      <3>1. Len(msg') = 1 /\ Len(scopes') = 1
        BY <1>3, <2>1, <2>2, Zenon
      <3>. QED
        BY <3>1
    <2>3. msg'[1].all = held'[loading'][1].all /\ loading' # NoHolder
      BY <1>1, <1>3, MessagesAssumption
    <2>. QED
      BY <1>3, <2>2, <2>3 DEF Handling
  <1>7. Variants'
    BY <1>1 DEF Inv, Variants, Holds, Holding
  <1>. QED
    BY <1>3, <1>4, <1>5, <1>6, <1>7 DEF Inv

\* A load ends: the variant has the message that was read, or that one rewound.
LEMMA AfterLoadInv ==
    ASSUME Inv, loading # NoHolder, NEW m, IsMessage(m), m[1].all = msg[1].all,
           held' = [held EXCEPT ![loading] = m], loading' = NoHolder,
           scopes' = <<>>, msg' = NoMessage, reader' \in {"fine", "threw", "crashed"},
           UNCHANGED <<incoming, parameters, truth, stored, out>>
    PROVE  Inv'
  <1>1. loading \in Holders /\ Holds(loading) /\ at = "handler"
    BY DEF Inv, Variants, Reading
  <1>2. msg[1].all = held[loading][1].all
    BY <1>1 DEF Inv, Handling
  <1>3. Incoming' /\ Arguments'
    BY <1>1, IncomingKept, ArgumentsKept DEF Inv, parameters
  <1>4. IsMessage(NoMessage)
    BY OpenedFacts, EmptySeq DEF NoMessage
  <1>5. Reader'
    BY <1>4, NoScopes
  <1>6. Reading' /\ Handling'
    BY <1>1 DEF Reading, Handling, parameters
  <1>7. truth[loading] # NoValue =>
           m[1].all = <<IF loading \in stored' THEN Wrapped(truth[loading]) ELSE truth[loading]>>
    BY <1>1, <1>2 DEF Inv, Variants, Holding
  <1>8. /\ DOMAIN truth' = Holders /\ truth'[loading] = truth[loading]
        /\ \A g \in Holders \ {loading} : truth'[g] = truth[g]
    BY DEF Inv, Variants
  <1>9. Variants'
    BY <1>1, <1>7, <1>8, VariantSet DEF Inv, Variants
  <1>. QED
    BY <1>3, <1>5, <1>6, <1>9 DEF Inv

\* The message a load leaves behind: rewound, if it was fresh.
LEMMA EndLoadFacts ==
    ASSUME Inv, EndLoad
    PROVE  /\ loading \in Holders
           /\ IsMessage(AfterLoad(msg)) /\ AfterLoad(msg)[1].all = msg[1].all
           /\ msg[1].all = held[loading][1].all
           /\ Fresh(loading) => AfterLoad(msg) = Opened(msg[1].all)
  <1>1. /\ loading # NoHolder /\ Len(scopes) = 1
        /\ IsMessage(msg) /\ loading \in Holders /\ at = "handler"
    BY DEF EndLoad, Finished, Inv, Reader, ReaderInv, Variants, Reading
  <1>2. /\ msg[1].all = held[loading][1].all
        /\ Fresh(loading) => Len(msg) <= Len(scopes)
    BY <1>1 DEF Inv, Handling
  <1>3. Fresh(loading) => Len(msg) = 1
    BY <1>1, <1>2, TopIsFrame, AtMostOne
  <1>. QED
    BY <1>1, <1>2, <1>3, RewindFacts DEF AfterLoad

\* A load that succeeds keeps what the variant holds.
LEMMA EndLoadInv ==
    ASSUME Inv, EndLoad
    PROVE  Inv'
  <1>. DEFINE m == AfterLoad(msg)
  <1>1. /\ loading # NoHolder /\ reader = "fine"
        /\ held' = [held EXCEPT ![loading] = m]
        /\ loading' = NoHolder /\ scopes' = <<>> /\ msg' = NoMessage
        /\ UNCHANGED <<incoming, parameters, reader, truth, stored, out>>
    BY DEF EndLoad, Finished
  <1>2. IsMessage(m) /\ m[1].all = msg[1].all
    BY EndLoadFacts
  <1>. HIDE DEF m
  <1>. QED
    BY <1>1, <1>2, AfterLoadInv

\* So does one that throws.
LEMMA LoadThrowsInv ==
    ASSUME Inv, LoadThrows
    PROVE  Inv'
  <1>1. /\ loading # NoHolder
        /\ held' = [held EXCEPT ![loading] = msg]
        /\ loading' = NoHolder /\ reader' = "fine" /\ scopes' = <<>> /\ msg' = NoMessage
        /\ UNCHANGED <<incoming, parameters, truth, stored, out>>
    BY DEF LoadThrows
  <1>2. IsMessage(msg)
    BY DEF Inv, Reader, ReaderInv
  <1>. QED
    BY <1>1, <1>2, AfterLoadInv

\* Every step keeps the invariant.
THEOREM NextInv ==
    ASSUME Inv, [Next]_vars
    PROVE  Inv'
  <1>1. CASE UNCHANGED vars
    <2>1. UNCHANGED <<incoming, at, args, read, msg, scopes, reader, variants>>
      BY <1>1 DEF vars, parameters, readerVars
    <2>2. Incoming' /\ Variants' /\ Reader'
      BY <2>1, IncomingKept, VariantsKept, ReaderUnchanged DEF Inv, Incoming
    <2>3. Arguments'
      BY <2>1 DEF Inv, Arguments, incoming, Parameters
    <2>4. Reading'
      BY <2>1 DEF Inv, Reading, incoming, variants, Placed, Suited, Turn
    <2>5. Handling'
      BY <2>1 DEF Inv, Handling, variants, Fresh, Holds
    <2>. QED
      BY <2>2, <2>3, <2>4, <2>5 DEF Inv
  <1>2. CASE Generate
    BY <1>2, GenerateInv
  <1>3. CASE BeginParameter
    BY <1>3, BeginParameterInv
  <1>4. CASE EndParameter
    BY <1>4, EndParameterInv
  <1>5. CASE CallHandler
    BY <1>5, CallHandlerInv
  <1>6. CASE ReadOn
    BY <1>6, ReadOnInv
  <1>7. CASE EndLoad
    BY <1>7, EndLoadInv
  <1>8. CASE LoadThrows
    BY <1>8, LoadThrowsInv
  <1>9. ASSUME NEW h \in Holders,
               \/ \E i \in Parameters : TakeVariant(h, i)
               \/ \E value \in Storables : VariantStore(h, value)
               \/ \E T \in LoadTypes : BeginLoad(h, T)
               \/ \E complete \in BOOLEAN : VariantRewind(h, complete)
               \/ \E g \in Holders : VariantCopy(h, g)
               \/ AppendTo(h)
               \/ VariantClear(h)
        PROVE  Inv'
    BY <1>9, TakeVariantInv, VariantStoreInv, BeginLoadInv, VariantRewindInv,
       VariantCopyInv, AppendToInv, VariantClearInv
  <1>. QED
    BY <1>1, <1>2, <1>3, <1>4, <1>5, <1>6, <1>7, <1>8, <1>9 DEF Next

\* In every state, a reader is placed for what it reads, and what was read is of its
\* type (message.hpp, types.cpp, function_wrap.hpp).
THEOREM MessagesCorrect == Spec => []Inv
  BY InitInv, NextInv, PTL DEF Spec

-----------------------------------------------------------------------------
(* Properties. *)

\* TypeOK of Messages: every parameter is read as the type it was declared with, and
\* a variant has taken one value.
THEOREM MessagesTypeCorrect == Spec => []TypeOK
  <1>1. Inv => TypeOK
    <2>. SUFFICES ASSUME Inv
                  PROVE  TypeOK
      OBVIOUS
    <2>1. \A i \in Parameters : args[i].type = VariantType => args[i] # NoValue
      <3>1. NoValue.type.kind = "none" /\ VariantType.kind = "variant"
        BY DEF NoValue, Value, VariantType, Type
      <3>. QED
        BY <3>1
    <2>2. \A i \in Parameters :
             /\ args[i] # NoValue => args[i].type = declared[i].wire
             /\ args[i].type = VariantType => Len(args[i].items) = 1
      BY <2>1 DEF Inv, Arguments, Suits
    <2>3. msg # <<>>
      BY DEF Inv, Reader, ReaderInv, IsMessage
    <2>. QED
      BY <2>2, <2>3 DEF Inv, Incoming, Arguments, Variants, Holds, TypeOK
  <1>. QED
    BY <1>1, MessagesCorrect, PTL

\* Whatever the types, a message whose parameters are all read is at its end, with
\* every container left.
THEOREM CallsAreAtTheEnd == Spec => []CalledAtTheEnd
  <1>1. Inv => CalledAtTheEnd
    <2>. SUFFICES ASSUME Inv, AllRead
                  PROVE  msg = <<[Frame("message", delivery.body) EXCEPT !.pos = Len(delivery.body)]>>
      BY DEF CalledAtTheEnd
    <2>1. at = "read" /\ read = Len(delivery.body) /\ Len(delivery.body) \in Nat
      BY DeliveryFacts DEF AllRead, Inv, Incoming
    <2>2. /\ IsMessage(msg) /\ Len(msg) = 1
          /\ msg[1].all = delivery.body /\ msg[1].pos = Len(delivery.body)
      BY <2>1 DEF Inv, Reader, ReaderInv, Reading
    <2>. DEFINE f == [kind |-> "message", all |-> delivery.body, pos |-> Len(delivery.body)]
    <2>3. msg[1] = f
      <3>1. msg[1] \in Frames /\ msg[1].kind = "message"
        BY <2>2, TopIsFrame
      <3>. QED
        BY <2>2, <3>1 DEF Frames
    <2>4. f = [Frame("message", delivery.body) EXCEPT !.pos = Len(delivery.body)]
      BY DEF Frame
    <2>. HIDE DEF f
    <2>5. msg = <<f>>
      <3>1. msg \in Seq(Frames) /\ f \in Frames
        BY <2>2, <2>3, TopIsFrame DEF IsMessage
      <3>2. <<f>> \in Seq(Frames) /\ Len(<<f>>) = 1 /\ <<f>>[1] = f
        BY <3>1
      <3>. QED
        BY <2>2, <2>3, <3>1, <3>2, SingletonEqual
    <2>. QED
      BY <2>4, <2>5
  <1>. QED
    BY <1>1, MessagesCorrect, PTL

\* Whatever was done before, a copy of a fresh variant is whole.
THEOREM CopiedWhole == Spec => CopiesAreWhole
  <1>1. ASSUME Inv
        PROVE  \A h, g \in Holders :
                  VariantCopy(h, g) /\ Known(h) =>
                      held'[h] = Opened(<<Holding(h)>>) /\ held'[g] = held'[h]
    <2>. SUFFICES ASSUME NEW h \in Holders, NEW g \in Holders, VariantCopy(h, g), Known(h)
                  PROVE  held'[h] = Opened(<<Holding(h)>>) /\ held'[g] = held'[h]
      OBVIOUS
    <2>1. /\ held'[g] = Opened(held[h][1].all)
          /\ held'[h] = Opened(held[h][1].all)
      BY <1>1, VariantCopyFacts DEF Known
    <2>2. held[h][1].all = <<Holding(h)>>
      BY <1>1 DEF Known, Fresh, Inv, Variants
    <2>. QED
      BY <2>1, <2>2
  <1>. QED
    BY <1>1, MessagesCorrect, PTL DEF CopiesAreWhole

\* Whatever was done before, a fresh variant is appended as it was stored, or without
\* the wrapper it came in with.
THEOREM AppendedBare == Spec => AppendsAreBare
  <1>1. ASSUME Inv
        PROVE  \A h \in Holders : AppendTo(h) /\ Known(h) => out' = Append(out, Holding(h))
    <2>. SUFFICES ASSUME NEW h \in Holders, AppendTo(h), Known(h)
                  PROVE  out' = Append(out, Holding(h))
      OBVIOUS
    <2>1. /\ held[h] = Opened(held[h][1].all) /\ held[h][1].all = <<Holding(h)>>
          /\ IsMessage(held[h]) /\ out \in Seq(Values)
      BY <1>1 DEF Known, Fresh, Inv, Variants
    <2>2. Rest(Top(held[h])) = <<Holding(h)>>
      BY <2>1, RestFacts
    <2>3. out' = out \o <<Holding(h)>>
      BY <2>2 DEF AppendTo
    <2>4. <<Holding(h)>> \in Seq(Values)
      BY <2>1, <2>2, RestFacts
    <2>5. Holding(h) \in Values
      BY <2>4, ElementOfSeq
    <2>. QED
      BY <2>1, <2>3, <2>5, AppendIsConcat
  <1>. QED
    BY <1>1, MessagesCorrect, PTL DEF AppendsAreBare

\* Nothing but a load that throws and appending takes a variant from its beginning.
THEOREM MovedByThrowsAndAppends == Spec => OnlyThrowsAndAppendsMoveVariants
  <1>1. ASSUME Inv, [Next]_vars
        PROVE  \A h \in Holders :
                  Fresh(h) /\ Holds(h)' /\ ~Fresh(h)' =>
                      AppendTo(h) \/ (LoadThrows /\ loading = h)
    <2>. SUFFICES ASSUME NEW h \in Holders, Fresh(h), Holds(h)',
                         ~AppendTo(h), ~(LoadThrows /\ loading = h)
                  PROVE  Fresh(h)'
      OBVIOUS
    <2>1. ASSUME NEW items \in Seq(Values), held'[h] = Opened(items)
          PROVE  Fresh(h)'
      BY <2>1, OpenedFacts DEF Fresh
    <2>2. ASSUME held'[h] = held[h]
          PROVE  Fresh(h)'
      BY <2>2 DEF Fresh
    <2>3. DOMAIN held = Holders /\ IsMessage(held[h]) /\ held[h][1].all \in Seq(Values)
      <3>1. DOMAIN held = Holders /\ IsMessage(held[h])
        BY <1>1 DEF Fresh, Inv, Variants
      <3>. QED
        BY <3>1, TopIsFrame DEF Frames
    <2>4. CASE UNCHANGED held
      BY <2>2, <2>4
    <2>5. CASE EndLoad
      <3>1. /\ held' = [held EXCEPT ![loading] = AfterLoad(msg)]
            /\ Fresh(loading) => AfterLoad(msg) = Opened(held[loading][1].all)
        BY <1>1, <2>5, EndLoadFacts DEF EndLoad
      <3>2. CASE loading = h
        BY <2>1, <2>3, <3>1, <3>2
      <3>3. CASE loading # h
        BY <2>2, <2>3, <3>1, <3>3
      <3>. QED
        BY <3>2, <3>3
    <2>6. CASE LoadThrows
      <3>1. held' = [held EXCEPT ![loading] = msg] /\ loading # h
        BY <2>6 DEF LoadThrows
      <3>. QED
        BY <2>2, <2>3, <3>1
    <2>7. ASSUME NEW g \in Holders, NEW i \in Parameters, TakeVariant(g, i)
          PROVE  Fresh(h)'
      <3>1. /\ held' = [held EXCEPT ![g] = Opened(args[i].items)]
            /\ args[i].type = VariantType
        BY <2>7 DEF TakeVariant
      <3>2. args[i].items \in Seq(Values)
        <4>1. NoValue.type.kind = "none" /\ VariantType.kind = "variant"
          BY DEF NoValue, Value, VariantType, Type
        <4>2. args[i] # NoValue
          BY <3>1, <4>1
        <4>. QED
          BY <1>1, <3>1, <4>2 DEF Inv, Arguments, Suits
      <3>3. held'[h] = Opened(args[i].items) \/ held'[h] = held[h]
        BY <2>3, <3>1
      <3>. QED
        BY <2>1, <2>2, <3>2, <3>3
    <2>8. ASSUME NEW g \in Holders, NEW value \in Storables, VariantStore(g, value)
          PROVE  Fresh(h)'
      <3>1. held' = [held EXCEPT ![g] = Opened(<<Wrapped(value)>>)]
        BY <2>8 DEF VariantStore, AppendedVariant
      <3>2. <<Wrapped(value)>> \in Seq(Values)
        BY MessagesAssumption
      <3>3. held'[h] = Opened(<<Wrapped(value)>>) \/ held'[h] = held[h]
        BY <2>3, <3>1
      <3>. QED
        BY <2>1, <2>2, <3>2, <3>3
    <2>9. ASSUME NEW g \in Holders, NEW complete \in BOOLEAN, VariantRewind(g, complete)
          PROVE  Fresh(h)'
      <3>1. held' = [held EXCEPT ![g] = SdRewind(held[g], complete)]
        BY <2>9 DEF VariantRewind
      <3>2. CASE g = h
        <4>1. held[h] = Opened(held[h][1].all)
          BY DEF Fresh
        <4>2. Len(held[h]) = 1
          BY <2>3, <4>1, OpenedFacts
        <4>3. SdRewind(held[h], complete) = Opened(held[h][1].all)
          BY <2>3, <4>2, RewindFacts
        <4>. QED
          BY <2>1, <2>3, <3>1, <3>2, <4>3
      <3>3. CASE g # h
        BY <2>2, <2>3, <3>1, <3>3
      <3>. QED
        BY <3>2, <3>3
    <2>10. ASSUME NEW f \in Holders, NEW g \in Holders, VariantCopy(f, g)
           PROVE  Fresh(h)'
      <3>1. \/ \E items \in Seq(Values) : held'[h] = Opened(items)
            \/ held'[h] = held[h]
        BY <1>1, <2>10, VariantCopyFacts
      <3>. QED
        BY <2>1, <2>2, <3>1
    <2>11. ASSUME NEW g \in Holders, AppendTo(g)
           PROVE  Fresh(h)'
      <3>1. held' = [held EXCEPT ![g] = held'[g]] /\ g # h
        BY <1>1, <2>11, AppendToFacts
      <3>. QED
        BY <2>2, <2>3, <3>1
    <2>12. ASSUME NEW g \in Holders, VariantClear(g)
           PROVE  Fresh(h)'
      <3>1. held' = [held EXCEPT ![g] = <<>>]
        BY <2>12 DEF VariantClear
      <3>2. g # h
        BY <2>3, <3>1 DEF Holds
      <3>. QED
        BY <2>2, <2>3, <3>1, <3>2
    <2>13. CASE UNCHANGED vars
      BY <2>4, <2>13 DEF vars, variants
    <2>14. CASE Generate \/ BeginParameter \/ EndParameter \/ CallHandler \/ ReadOn
      BY <2>4, <2>14
      DEF Generate, BeginParameter, EndParameter, CallHandler, ReadOn, variants
    <2>15. ASSUME NEW g \in Holders, NEW T \in LoadTypes, BeginLoad(g, T)
           PROVE  Fresh(h)'
      BY <2>4, <2>15 DEF BeginLoad
    <2>. QED
      BY <1>1, <2>5, <2>6, <2>7, <2>8, <2>9, <2>10, <2>11, <2>12, <2>13, <2>14, <2>15
      DEF Next
  <1>. QED
    BY <1>1, MessagesCorrect, PTL DEF Spec, OnlyThrowsAndAppendsMoveVariants

=============================================================================

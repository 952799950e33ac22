------------------------ MODULE MessageReader_proofs ------------------------
(***************************************************************************)
(* What a reader keeps true of the message and of the functions that read  *)
(* it, whatever the type and whatever the message holds: every function    *)
(* has entered a container of its own, and what it returns is of its type. *)
(***************************************************************************)
EXTENDS MessageReader, SequenceTheorems, TLAPS

-----------------------------------------------------------------------------
(* sd-bus. *)

ContainerKinds == {"variant", "array", "struct", "entry"}
FrameKinds == ContainerKinds \cup {"message"}

Frames ==
    {f \in [kind : FrameKinds, all : Seq(Values), pos : Nat] :
        /\ f.pos <= Len(f.all)
        /\ f.kind = "variant" => Len(f.all) = 1}

\* A message that is read: only its outermost container is none that was entered.
IsMessage(m) ==
    /\ m \in Seq(Frames) /\ m # <<>>
    /\ \A i \in 1 .. Len(m) : m[i].kind = "message" <=> i = 1

\* Numbers of scopes.
LEMMA OneOrMore ==
    ASSUME NEW n \in Nat \ {0}
    PROVE  n = 1 \/ n > 1
  OBVIOUS

\* A message that has no more containers than there are scopes, of which there is
\* one.
LEMMA AtMostOne ==
    ASSUME NEW n \in Nat \ {0}, n <= 1
    PROVE  n = 1
  OBVIOUS

\* The first and the last element of a sequence that has any.
LEMMA NonEmptySeq ==
    ASSUME NEW S, NEW s \in Seq(S), s # <<>>
    PROVE  Len(s) \in Nat \ {0} /\ s[Len(s)] \in S /\ s[1] \in S
  BY EmptySeq, ElementOfSeq, LenProperties

\* The innermost container of a message is one, and the only one of kind "message"
\* when no other is open.
LEMMA TopIsFrame ==
    ASSUME NEW m, IsMessage(m)
    PROVE  /\ Len(m) \in Nat \ {0}
           /\ Top(m) = m[Len(m)] /\ Top(m) \in Frames
           /\ AtEnd(m) <=> m[Len(m)].pos = Len(m[Len(m)].all)
           /\ m[1] \in Frames
           /\ Top(m).kind = "message" <=> Len(m) = 1
  <1>1. Len(m) \in Nat \ {0} /\ m[Len(m)] \in Frames /\ m[1] \in Frames
    BY NonEmptySeq DEF IsMessage
  <1>2. m[Len(m)].kind = "message" <=> Len(m) = 1
    <2>1. Len(m) \in 1 .. Len(m)
      BY <1>1
    <2>. QED
      BY <2>1 DEF IsMessage
  <1>. QED
    BY <1>1, <1>2 DEF Top, Last, AtEnd

\* What follows in a container that is not at its end.
LEMMA FollowingIsValue ==
    ASSUME NEW m, IsMessage(m), ~AtEnd(m)
    PROVE  /\ Following(m) \in Values
           /\ Following(m) = m[Len(m)].all[m[Len(m)].pos + 1]
           /\ m[Len(m)].pos < Len(m[Len(m)].all)
           /\ Peek(m) = Following(m).type.kind
  <1>1. Top(m) \in Frames /\ Top(m) = m[Len(m)]
    BY TopIsFrame
  <1>2. Top(m).all \in Seq(Values) /\ Len(Top(m).all) \in Nat /\ Top(m).pos \in Nat
    BY <1>1, LenProperties DEF Frames
  <1>3. Top(m).pos < Len(Top(m).all)
    BY <1>1, <1>2 DEF Frames, AtEnd
  <1>4. Following(m) \in Values
    BY <1>2, <1>3, ElementOfSeq DEF Following
  <1>. QED
    BY <1>1, <1>3, <1>4 DEF Following, Peek

\* Reading on moves the place in the innermost container, and nothing else.
LEMMA SkipFacts ==
    ASSUME NEW m, IsMessage(m), ~AtEnd(m)
    PROVE  /\ IsMessage(Skip(m))
           /\ Len(Skip(m)) = Len(m)
           /\ \A i \in 1 .. Len(m) - 1 : Skip(m)[i] = m[i]
           /\ Skip(m)[Len(m)] = [m[Len(m)] EXCEPT !.pos = @ + 1]
  <1>1. /\ Len(m) \in Nat \ {0} /\ m \in Seq(Frames) /\ m[Len(m)] \in Frames
        /\ m[Len(m)].pos < Len(m[Len(m)].all)
    BY TopIsFrame, FollowingIsValue DEF IsMessage
  <1>2. Len(m[Len(m)].all) \in Nat
    BY <1>1, LenProperties DEF Frames
  <1>. DEFINE f == [m[Len(m)] EXCEPT !.pos = @ + 1]
  <1>3. f \in Frames /\ f.kind = m[Len(m)].kind
    <2>1. m[Len(m)] \in [kind : FrameKinds, all : Seq(Values), pos : Nat]
      BY <1>1 DEF Frames
    <2>2. f = [kind |-> m[Len(m)].kind, all |-> m[Len(m)].all, pos |-> m[Len(m)].pos + 1]
      BY <2>1
    <2>3. f.pos <= Len(f.all)
      BY <1>1, <1>2, <2>1, <2>2
    <2>. QED
      BY <1>1, <2>1, <2>2, <2>3 DEF Frames
  <1>4. Skip(m) = [m EXCEPT ![Len(m)] = f]
    BY DEF Skip
  <1>. HIDE DEF f
  <1>5. /\ Skip(m) \in Seq(Frames) /\ Len(Skip(m)) = Len(m)
        /\ \A j \in 1 .. Len(m) : Skip(m)[j] = IF j = Len(m) THEN f ELSE m[j]
    BY <1>1, <1>3, <1>4, ExceptSeq
  <1>6. Skip(m) # <<>>
    BY <1>1, <1>5
  <1>7. \A i \in 1 .. Len(m) : Skip(m)[i].kind = m[i].kind
    BY <1>3, <1>5
  <1>8. IsMessage(Skip(m))
    BY <1>5, <1>6, <1>7 DEF IsMessage
  <1>. QED
    BY <1>1, <1>5, <1>8 DEF f

Pushed(m) == Append(Skip(m), Frame(Following(m).type.kind, Following(m).items))

\* The values of a container that is entered are read next.
LEMMA PushFacts ==
    ASSUME NEW m, IsMessage(m), ~AtEnd(m), Following(m).type.kind \in ContainerKinds
    PROVE  /\ IsMessage(Pushed(m))
           /\ Len(Pushed(m)) = Len(m) + 1
           /\ \A i \in 1 .. Len(m) - 1 : Pushed(m)[i] = m[i]
           /\ Pushed(m)[Len(m)] = [m[Len(m)] EXCEPT !.pos = @ + 1]
           /\ Pushed(m)[Len(m) + 1] = Frame(Following(m).type.kind, Following(m).items)
  <1>. DEFINE v == Following(m)
              f == Frame(v.type.kind, v.items)
  <1>1. /\ v \in Values /\ v.items \in Seq(Values)
        /\ v.type.kind = "variant" => Len(v.items) = 1
    BY FollowingIsValue, ValuesAssumption DEF ContainerKinds
  <1>2. Len(v.items) \in Nat
    BY <1>1, LenProperties
  <1>3. f \in Frames /\ f.kind # "message"
    <2>1. f = [kind |-> v.type.kind, all |-> v.items, pos |-> 0]
      BY DEF Frame
    <2>. HIDE DEF f
    <2>2. f \in [kind : FrameKinds, all : Seq(Values), pos : Nat]
      BY <1>1, <2>1 DEF FrameKinds
    <2>3. f.pos <= Len(f.all) /\ (f.kind = "variant" => Len(f.all) = 1)
      BY <1>1, <1>2, <2>1
    <2>. QED
      BY <2>1, <2>2, <2>3 DEF Frames, ContainerKinds
  <1>4. /\ IsMessage(Skip(m)) /\ Len(Skip(m)) = Len(m) /\ Len(m) \in Nat \ {0}
        /\ \A i \in 1 .. Len(m) - 1 : Skip(m)[i] = m[i]
        /\ Skip(m)[Len(m)] = [m[Len(m)] EXCEPT !.pos = @ + 1]
    BY SkipFacts, TopIsFrame
  <1>. HIDE DEF f
  <1>5. /\ Append(Skip(m), f) \in Seq(Frames) /\ Append(Skip(m), f) # <<>>
        /\ Len(Append(Skip(m), f)) = Len(m) + 1
        /\ \A i \in 1 .. Len(m) : Append(Skip(m), f)[i] = Skip(m)[i]
        /\ Append(Skip(m), f)[Len(m) + 1] = f
    BY <1>3, <1>4, AppendProperties DEF IsMessage
  <1>6. IsMessage(Append(Skip(m), f))
    <2>1. ASSUME NEW i \in 1 .. Len(m) + 1
          PROVE  Append(Skip(m), f)[i].kind = "message" <=> i = 1
      BY <1>3, <1>4, <1>5 DEF IsMessage
    <2>. QED
      BY <1>5, <2>1 DEF IsMessage
  <1>7. Pushed(m) = Append(Skip(m), f)
    BY DEF Pushed, f
  <1>8. Len(m) \in 1 .. Len(m) /\ \A i \in 1 .. Len(m) - 1 : i \in 1 .. Len(m)
    BY <1>4
  <1>. QED
    BY <1>4, <1>5, <1>6, <1>7, <1>8 DEF f

\* A message whose innermost container is left.
LEMMA PopFacts ==
    ASSUME NEW m, IsMessage(m), Len(m) > 1
    PROVE  /\ IsMessage(Front(m))
           /\ Len(Front(m)) = Len(m) - 1
           /\ \A i \in 1 .. Len(m) - 1 : Front(m)[i] = m[i]
  <1>1. m \in Seq(Frames) /\ Len(m) \in Nat
    BY TopIsFrame DEF IsMessage
  <1>2. \A i \in 1 .. Len(m) - 1 : m[i] \in Frames
    BY <1>1, ElementOfSeq
  <1>3. /\ Front(m) \in Seq(Frames)
        /\ Len(Front(m)) = Len(m) - 1
        /\ \A i \in 1 .. Len(m) - 1 : Front(m)[i] = m[i]
    BY <1>1, <1>2, SubSeqProperties DEF Front
  <1>. QED
    BY <1>1, <1>3, EmptySeq DEF IsMessage

-----------------------------------------------------------------------------
(* Sequences of anything. *)

IsSeq(s) == s \in Seq(Range(s))

\* A sequence of a set is one of anything.
LEMMA SeqIsSeq ==
    ASSUME NEW S, NEW s \in Seq(S)
    PROVE  IsSeq(s)
  BY SeqOfRange DEF IsSeq

\* The length and the domain of a sequence of anything.
LEMMA IsSeqFacts ==
    ASSUME NEW s, IsSeq(s)
    PROVE  /\ Len(s) \in Nat
           /\ DOMAIN s = 1 .. Len(s)
           /\ s # <<>> <=> Len(s) > 0
  BY LenProperties, EmptySeq DEF IsSeq

\* Append, of a sequence of anything.
LEMMA AppendFacts ==
    ASSUME NEW s, IsSeq(s), NEW e
    PROVE  /\ IsSeq(Append(s, e))
           /\ Len(Append(s, e)) = Len(s) + 1
           /\ \A i \in 1 .. Len(s) : Append(s, e)[i] = s[i]
           /\ Append(s, e)[Len(s) + 1] = e
           /\ Append(s, e) # <<>>
  <1>. DEFINE S == Range(s) \cup {e}
  <1>1. s \in Seq(S) /\ e \in S
    BY SeqMonotonic DEF IsSeq
  <1>. HIDE DEF S
  <1>2. /\ Append(s, e) \in Seq(S)
        /\ Len(Append(s, e)) = Len(s) + 1
        /\ \A i \in 1 .. Len(s) : Append(s, e)[i] = s[i]
        /\ Append(s, e)[Len(s) + 1] = e
        /\ Append(s, e) # <<>>
    BY <1>1, AppendProperties
  <1>3. IsSeq(Append(s, e))
    BY <1>2, SeqIsSeq
  <1>. QED
    BY <1>2, <1>3

\* Front, of a sequence of anything.
LEMMA FrontFacts ==
    ASSUME NEW s, IsSeq(s), s # <<>>
    PROVE  /\ IsSeq(Front(s))
           /\ Len(Front(s)) = Len(s) - 1
           /\ \A i \in 1 .. Len(s) - 1 : Front(s)[i] = s[i]
  <1>. DEFINE S == Range(s)
  <1>1. s \in Seq(S) /\ Len(s) \in Nat \ {0}
    BY NonEmptySeq DEF IsSeq
  <1>2. \A i \in 1 .. Len(s) - 1 : s[i] \in S
    BY <1>1, ElementOfSeq
  <1>. HIDE DEF S
  <1>. DEFINE n == Len(s) - 1
  <1>3. n \in Nat /\ \A i \in 1 .. n : s[i] \in S
    BY <1>1, <1>2
  <1>4. /\ SubSeq(s, 1, n) \in Seq(S)
        /\ Len(SubSeq(s, 1, n)) = n
        /\ \A i \in 1 .. n : SubSeq(s, 1, n)[i] = s[i]
    <2>. HIDE DEF n
    <2>1. /\ SubSeq(s, 1, n) \in Seq(S)
          /\ Len(SubSeq(s, 1, n)) = IF 1 <= n THEN n - 1 + 1 ELSE 0
          /\ \A i \in 1 .. n - 1 + 1 : SubSeq(s, 1, n)[i] = s[1 + i - 1]
      BY <1>3, SubSeqProperties
    <2>. QED
      BY <1>3, <2>1
  <1>5. /\ Front(s) \in Seq(S)
        /\ Len(Front(s)) = Len(s) - 1
        /\ \A i \in 1 .. Len(s) - 1 : Front(s)[i] = s[i]
    BY <1>4 DEF Front
  <1>. QED
    BY <1>5, SeqIsSeq

\* The last element of a sequence is replaced.
LEMMA ReplaceFacts ==
    ASSUME NEW s, IsSeq(s), s # <<>>, NEW e
    PROVE  LET t == [s EXCEPT ![Len(s)] = e]
           IN  /\ IsSeq(t)
               /\ Len(t) = Len(s)
               /\ \A i \in 1 .. Len(s) - 1 : t[i] = s[i]
               /\ t[Len(s)] = e
               /\ t # <<>>
  <1>. DEFINE S == Range(s) \cup {e}
              t == [s EXCEPT ![Len(s)] = e]
  <1>1. s \in Seq(S) /\ e \in S
    BY SeqMonotonic DEF IsSeq
  <1>2. Len(s) \in Nat \ {0}
    BY NonEmptySeq DEF IsSeq
  <1>. HIDE DEF S
  <1>3. /\ t \in Seq(S) /\ Len(t) = Len(s)
        /\ \A j \in 1 .. Len(s) : t[j] = IF j = Len(s) THEN e ELSE s[j]
    BY <1>1, <1>2, ExceptSeq
  <1>. HIDE DEF t
  <1>4. /\ IsSeq(t)
        /\ Len(t) = Len(s)
        /\ \A i \in 1 .. Len(s) - 1 : t[i] = s[i]
        /\ t[Len(s)] = e
        /\ t # <<>>
    BY <1>2, <1>3, SeqIsSeq, EmptySeq
  <1>. QED
    BY <1>4 DEF t

-----------------------------------------------------------------------------
(* Scopes. *)

ScopeKinds == {"value", "unpack", "elements", "rows", "fields", "entries", "entry"}

IsScope(s) ==
    /\ s = [kind |-> s.kind, type |-> s.type, got |-> s.got, r |-> s.r, open |-> s.open]
    /\ s.kind \in ScopeKinds
    /\ s.type \in CxxTypes
    /\ s.open \in BOOLEAN
    /\ IsSeq(s.got)
    /\ s.kind \in {"elements", "rows"} => s.type.kind = "vector"
    /\ s.kind = "rows" => s.type.of[1].kind = "vector"
    /\ s.kind = "fields" => s.type.kind = "tuple"
    /\ s.kind \in {"entries", "entry"} => s.type.kind \in {"map", "dictionary"}
    /\ s.kind \in {"fields", "entry"} =>
          /\ Len(s.got) <= Len(s.type.of)
          /\ s.open <=> Len(s.got) < Len(s.type.of)
    /\ s.kind \in {"value", "unpack"} => Len(s.got) = IF s.open THEN 0 ELSE 1

\* The type of what a scope receives; that of entries is no type of C++.
Expected(s) ==
    CASE s.kind \in {"value", "unpack"}  -> s.type
      [] s.kind \in {"elements", "rows"} -> s.type.of[1]
      [] s.kind \in {"fields", "entry"}  -> s.type.of[Len(s.got) + 1]

\* The scopes that one may open.
Calls(s, callee) ==
    IF s.kind = "entries"
    THEN callee.kind = "entry" /\ callee.type = s.type
    ELSE /\ callee.kind \notin {"value", "entry"}
         /\ callee.type = Expected(s)
         /\ callee.kind = "unpack" =>
               /\ s.kind # "unpack"
               /\ s.kind = "entry" => s.type.kind # "dictionary"
         /\ callee.kind = "elements" =>
               (s.kind = "rows" \/ callee.type.of[1].kind # "vector")
         /\ s.kind = "rows" => callee.kind = "elements"

AreScopes(t) ==
    /\ IsSeq(t)
    /\ \A i \in 1 .. Len(t) : IsScope(t[i])
    /\ \A i \in 1 .. Len(t) - 1 : t[i].open /\ Calls(t[i], t[i + 1])

\* The parts of a type.
LEMMA TypeParts ==
    ASSUME NEW T \in CxxTypes
    PROVE  /\ T.kind \in {"basic", "variant", "vector", "tuple", "map", "dictionary"}
           /\ IsSeq(T.of)
           /\ Len(T.of) \in Nat
           /\ \A i \in 1 .. Len(T.of) : T.of[i] \in CxxTypes
           /\ T.kind = "basic" => T = Basic(T.wire.char)
           /\ T.kind = "variant" => T = Variant
           /\ T.kind = "vector" => Len(T.of) = 1 /\ T = Vector(T.of[1])
           /\ T.kind = "tuple" => Len(T.of) > 0 /\ T = Tuple(T.of)
           /\ T.kind = "map" => Len(T.of) = 2 /\ T = Map(T.of[1], T.of[2])
           /\ T.kind = "dictionary" => Len(T.of) = 2 /\ T = VariantDictionary
  <1>1. T.of \in Seq(CxxTypes)
    BY TypesAssumption
  <1>2. /\ Len(T.of) \in Nat
        /\ \A i \in 1 .. Len(T.of) : T.of[i] \in CxxTypes
        /\ IsSeq(T.of)
    BY <1>1, LenProperties, ElementOfSeq, SeqIsSeq
  <1>3. /\ T.kind \in {"basic", "variant", "vector", "tuple", "map", "dictionary"}
        /\ T.kind = "basic" => T = Basic(T.wire.char)
        /\ T.kind = "variant" => T = Variant
        /\ T.kind = "vector" => T = Vector(T.of[1])
        /\ T.kind = "tuple" => T.of # <<>> /\ T = Tuple(T.of)
        /\ T.kind = "map" => T = Map(T.of[1], T.of[2])
        /\ T.kind = "dictionary" => T = VariantDictionary
    BY TypesAssumption
  <1>4. T.kind = "vector" => T.of = <<T.of[1]>>
    BY <1>3 DEF Vector, Cxx
  <1>5. T.kind = "map" => T.of = <<T.of[1], T.of[2]>>
    BY <1>3 DEF Map, Cxx
  <1>6. T.kind = "dictionary" => T.of = <<Basic("s"), Variant>>
    BY <1>3 DEF VariantDictionary, Cxx
  <1>7. T.kind = "tuple" => Len(T.of) > 0
    BY <1>1, <1>3, EmptySeq
  <1>8. /\ T.kind = "vector" => Len(T.of) = 1
        /\ T.kind \in {"map", "dictionary"} => Len(T.of) = 2
    BY <1>4, <1>5, <1>6
  <1>. QED
    BY <1>2, <1>3, <1>7, <1>8

\* An open scope expects a type that can be read.
LEMMA ExpectedIsType ==
    ASSUME NEW s, IsScope(s), s.open, s.kind # "entries"
    PROVE  Expected(s) \in CxxTypes
  <1>1. s.type \in CxxTypes /\ Len(s.type.of) \in Nat
    BY TypeParts DEF IsScope
  <1>2. Len(s.got) \in Nat
    BY IsSeqFacts DEF IsScope
  <1>3. CASE s.kind \in {"value", "unpack"}
    BY <1>1, <1>3 DEF Expected
  <1>4. CASE s.kind \in {"elements", "rows"}
    BY <1>1, <1>4, TypeParts DEF Expected, IsScope
  <1>5. CASE s.kind \in {"fields", "entry"}
    <2>1. Len(s.got) + 1 \in 1 .. Len(s.type.of)
      BY <1>1, <1>2, <1>5 DEF IsScope
    <2>. QED
      BY <1>1, <1>5, <2>1, TypeParts DEF Expected
  <1>. QED
    BY <1>3, <1>4, <1>5 DEF IsScope, ScopeKinds

\* What a scope has received leaves it a scope of the same kind and type.
LEMMA ReceivesFacts ==
    ASSUME NEW s, IsScope(s), s.open, NEW r, NEW v
    PROVE  /\ IsScope(Receives(s, r, v))
           /\ Receives(s, r, v).kind = s.kind
           /\ Receives(s, r, v).type = s.type
  <1>. DEFINE S(got, res, open) ==
                [kind |-> s.kind, type |-> s.type, got |-> got, r |-> res, open |-> open]
  <1>1. /\ s = S(s.got, s.r, TRUE) /\ IsSeq(s.got) /\ Len(s.got) \in Nat
        /\ s.kind \in ScopeKinds /\ s.type \in CxxTypes /\ Len(s.type.of) \in Nat
    BY IsSeqFacts, TypeParts DEF IsScope
  <1>2. /\ IsSeq(Append(s.got, v)) /\ Len(Append(s.got, v)) = Len(s.got) + 1
    BY <1>1, AppendFacts
  <1>3. CASE s.kind \in {"value", "unpack"}
    <2>1. Receives(s, r, v) = S(<<v>>, r, FALSE)
      BY <1>1, <1>3 DEF Receives
    <2>2. <<v>> \in Seq({v}) /\ Len(<<v>>) = 1
      OBVIOUS
    <2>3. IsSeq(<<v>>)
      BY <2>2, SeqIsSeq
    <2>. QED
      BY <1>1, <1>3, <2>1, <2>2, <2>3 DEF IsScope
  <1>4. CASE s.kind \in {"elements", "rows"}
    <2>1. \/ Receives(s, r, v) = S(s.got, s.r, FALSE)
          \/ Receives(s, r, v) = S(Append(s.got, v), s.r, TRUE)
      BY <1>1, <1>4 DEF Receives
    <2>2. /\ s.type.kind = "vector"
          /\ s.kind = "rows" => s.type.of[1].kind = "vector"
      BY <1>4 DEF IsScope
    <2>3. ASSUME NEW got, NEW open \in BOOLEAN, IsSeq(got)
          PROVE  IsScope(S(got, s.r, open))
      <3>. DEFINE c == S(got, s.r, open)
      <3>1. /\ c = [kind |-> c.kind, type |-> c.type, got |-> c.got, r |-> c.r, open |-> c.open]
            /\ c.kind = s.kind /\ c.type = s.type /\ c.got = got /\ c.open = open
        OBVIOUS
      <3>. HIDE DEF c
      <3>. QED
        BY <1>1, <1>4, <2>2, <2>3, <3>1 DEF IsScope, ScopeKinds
    <2>4. S(s.got, s.r, FALSE).kind = s.kind /\ S(s.got, s.r, FALSE).type = s.type
      OBVIOUS
    <2>5. S(Append(s.got, v), s.r, TRUE).kind = s.kind
          /\ S(Append(s.got, v), s.r, TRUE).type = s.type
      OBVIOUS
    <2>6. IsScope(S(s.got, s.r, FALSE)) /\ IsScope(S(Append(s.got, v), s.r, TRUE))
      BY <1>1, <1>2, <2>3
    <2>. QED
      BY <2>1, <2>4, <2>5, <2>6
  <1>5. CASE s.kind \in {"fields", "entry"}
    <2>1. Receives(s, r, v) =
              S(Append(s.got, v), s.r + r, Len(s.got) + 1 < Len(s.type.of))
      BY <1>1, <1>5 DEF Receives
    <2>2. /\ Len(s.got) < Len(s.type.of)
          /\ s.kind = "fields" => s.type.kind = "tuple"
          /\ s.kind = "entry" => s.type.kind \in {"map", "dictionary"}
      BY <1>5 DEF IsScope
    <2>. DEFINE got == Append(s.got, v)
                open == Len(s.got) + 1 < Len(s.type.of)
    <2>3. /\ IsSeq(got) /\ Len(got) <= Len(s.type.of) /\ open \in BOOLEAN
          /\ open <=> Len(got) < Len(s.type.of)
      BY <1>1, <1>2, <2>2
    <2>. HIDE DEF got, open
    <2>4. IsScope(S(got, s.r + r, open))
      BY <1>1, <1>5, <2>2, <2>3 DEF IsScope
    <2>. QED
      BY <2>1, <2>4 DEF got, open
  <1>6. CASE s.kind = "entries"
    <2>1. Receives(s, r, v) = S(Emplace(s.got, v), s.r, TRUE)
      BY <1>1, <1>6 DEF Receives
    <2>2. IsSeq(Emplace(s.got, v))
      BY <1>1, <1>2 DEF Emplace
    <2>. QED
      BY <1>1, <1>6, <2>1, <2>2 DEF IsScope
  <1>. QED
    BY <1>1, <1>3, <1>4, <1>5, <1>6 DEF ScopeKinds

\* A scope that the innermost one may call is put on top of it.
LEMMA PushScope ==
    ASSUME NEW t, AreScopes(t), t # <<>>, Last(t).open,
           NEW s, IsScope(s), Calls(Last(t), s)
    PROVE  /\ AreScopes(Append(t, s))
           /\ Len(Append(t, s)) = Len(t) + 1
           /\ \A i \in 1 .. Len(t) : Append(t, s)[i] = t[i]
           /\ Append(t, s)[Len(t) + 1] = s
           /\ Append(t, s) # <<>>
           /\ Len(t) \in Nat \ {0}
  <1>. DEFINE u == Append(t, s)
  <1>1. /\ IsSeq(u) /\ Len(u) = Len(t) + 1
        /\ \A i \in 1 .. Len(t) : u[i] = t[i]
        /\ u[Len(t) + 1] = s
        /\ u # <<>>
    BY AppendFacts DEF AreScopes
  <1>2. Len(t) \in Nat \ {0}
    BY IsSeqFacts DEF AreScopes
  <1>. HIDE DEF u
  <1>3. ASSUME NEW i \in 1 .. Len(u)
        PROVE  IsScope(u[i])
    BY <1>1, <1>2, <1>3 DEF AreScopes
  <1>4. ASSUME NEW i \in 1 .. Len(u) - 1
        PROVE  u[i].open /\ Calls(u[i], u[i + 1])
    <2>1. CASE i = Len(t)
      BY <1>1, <1>2, <2>1 DEF Last
    <2>2. CASE i < Len(t)
      BY <1>1, <1>2, <2>2 DEF AreScopes
    <2>. QED
      BY <1>1, <1>2, <2>1, <2>2
  <1>5. AreScopes(u)
    BY <1>1, <1>3, <1>4 DEF AreScopes
  <1>. QED
    BY <1>1, <1>2, <1>5 DEF u

\* The scopes without the innermost one, which is then called by the new innermost
\* one.
LEMMA PopScope ==
    ASSUME NEW t, AreScopes(t), Len(t) > 1
    PROVE  /\ AreScopes(Front(t))
           /\ Len(Front(t)) = Len(t) - 1
           /\ \A i \in 1 .. Len(t) - 1 : Front(t)[i] = t[i]
           /\ Front(t) # <<>>
           /\ Last(Front(t)) = t[Len(t) - 1]
           /\ Last(Front(t)).open
           /\ Calls(Last(Front(t)), Last(t))
           /\ Len(t) \in Nat
  <1>1. IsSeq(t) /\ Len(t) \in Nat /\ t # <<>>
    BY IsSeqFacts DEF AreScopes
  <1>2. /\ IsSeq(Front(t))
        /\ Len(Front(t)) = Len(t) - 1
        /\ \A i \in 1 .. Len(t) - 1 : Front(t)[i] = t[i]
    BY <1>1, FrontFacts
  <1>3. Front(t) # <<>>
    BY <1>1, <1>2, IsSeqFacts
  <1>4. Len(t) - 1 \in 1 .. Len(t) - 1
    BY <1>1
  <1>5. Last(Front(t)) = t[Len(t) - 1]
    BY <1>2, <1>4 DEF Last
  <1>6. /\ t[Len(t) - 1].open /\ Calls(t[Len(t) - 1], t[Len(t) - 1 + 1])
        /\ Len(t) - 1 + 1 = Len(t)
    BY <1>1, <1>4 DEF AreScopes
  <1>7. AreScopes(Front(t))
    BY <1>1, <1>2 DEF AreScopes
  <1>. QED
    BY <1>1, <1>2, <1>3, <1>5, <1>6, <1>7 DEF Last

\* The innermost scope receives a value.
LEMMA DeliverScope ==
    ASSUME NEW t, AreScopes(t), t # <<>>, Last(t).open, NEW r, NEW v
    PROVE  /\ AreScopes(Delivered(t, r, v))
           /\ Len(Delivered(t, r, v)) = Len(t)
           /\ \A i \in 1 .. Len(t) - 1 : Delivered(t, r, v)[i] = t[i]
           /\ Delivered(t, r, v)[Len(t)] = Receives(Last(t), r, v)
           /\ Delivered(t, r, v) # <<>>
           /\ Len(t) \in Nat \ {0}
  <1>. DEFINE e == Receives(Last(t), r, v)
              u == [t EXCEPT ![Len(t)] = e]
  <1>1. IsSeq(t) /\ Len(t) \in Nat \ {0}
    BY IsSeqFacts DEF AreScopes
  <1>2. Delivered(t, r, v) = u
    BY DEF Delivered, Last
  <1>3. IsScope(Last(t))
    BY <1>1 DEF AreScopes, Last
  <1>4. IsScope(e) /\ e.kind = Last(t).kind /\ e.type = Last(t).type
    BY <1>3, ReceivesFacts
  <1>. HIDE DEF e
  <1>5. /\ IsSeq(u) /\ Len(u) = Len(t)
        /\ \A i \in 1 .. Len(t) - 1 : u[i] = t[i]
        /\ u[Len(t)] = e
        /\ u # <<>>
    BY <1>1, ReplaceFacts
  <1>. HIDE DEF u
  <1>6. ASSUME NEW i \in 1 .. Len(u)
        PROVE  IsScope(u[i])
    BY <1>1, <1>4, <1>5, <1>6 DEF AreScopes
  <1>7. ASSUME NEW i \in 1 .. Len(u) - 1
        PROVE  u[i].open /\ Calls(u[i], u[i + 1])
    <2>1. t[i].open /\ Calls(t[i], t[i + 1]) /\ u[i] = t[i] /\ i + 1 \in 1 .. Len(t)
      BY <1>1, <1>5 DEF AreScopes
    <2>2. u[i + 1].kind = t[i + 1].kind /\ u[i + 1].type = t[i + 1].type
      BY <1>1, <1>4, <1>5, <2>1 DEF Last
    <2>. QED
      BY <2>1, <2>2 DEF Calls
  <1>8. AreScopes(u)
    BY <1>5, <1>6, <1>7 DEF AreScopes
  <1>. QED
    BY <1>1, <1>2, <1>5, <1>8 DEF e

\* The innermost scope ends its loop.
LEMMA CloseScope ==
    ASSUME NEW t, AreScopes(t), t # <<>>, Last(t).kind \in {"rows", "entries"}
    PROVE  LET u == [t EXCEPT ![Len(t)].open = FALSE]
           IN  /\ AreScopes(u)
               /\ Len(u) = Len(t)
               /\ \A i \in 1 .. Len(t) - 1 : u[i] = t[i]
               /\ u[Len(t)] = [Last(t) EXCEPT !.open = FALSE]
               /\ u # <<>>
               /\ Len(t) \in Nat \ {0}
  <1>. DEFINE e == [Last(t) EXCEPT !.open = FALSE]
              u == [t EXCEPT ![Len(t)] = e]
  <1>1. IsSeq(t) /\ Len(t) \in Nat \ {0}
    BY IsSeqFacts DEF AreScopes
  <1>2. [t EXCEPT ![Len(t)].open = FALSE] = u
    BY DEF Last
  <1>3. IsScope(Last(t))
    BY <1>1 DEF AreScopes, Last
  <1>4. /\ e = [kind |-> e.kind, type |-> e.type, got |-> e.got, r |-> e.r, open |-> e.open]
        /\ e.kind = Last(t).kind /\ e.type = Last(t).type
        /\ e.got = Last(t).got /\ e.open = FALSE
    <2>. DEFINE p == Last(t)
    <2>1. p = [kind |-> p.kind, type |-> p.type, got |-> p.got, r |-> p.r, open |-> p.open]
      BY <1>3 DEF IsScope
    <2>. HIDE DEF p
    <2>2. [p EXCEPT !.open = FALSE] =
              [kind |-> p.kind, type |-> p.type, got |-> p.got, r |-> p.r, open |-> FALSE]
      <3>1. ASSUME NEW x
            PROVE  [p EXCEPT !.open = x] =
                       [kind |-> p.kind, type |-> p.type, got |-> p.got, r |-> p.r, open |-> x]
        BY <2>1
      <3>. QED
        BY <3>1
    <2>3. e = [kind |-> p.kind, type |-> p.type, got |-> p.got, r |-> p.r, open |-> FALSE]
      BY <2>2 DEF p
    <2>. HIDE DEF e
    <2>4. /\ e.kind = p.kind /\ e.type = p.type /\ e.got = p.got /\ e.r = p.r
          /\ e.open = FALSE
      BY <2>3
    <2>. QED
      BY <2>3, <2>4 DEF p
  <1>. HIDE DEF e
  <1>5. IsScope(e)
    BY <1>3, <1>4 DEF IsScope
  <1>6. /\ IsSeq(u) /\ Len(u) = Len(t)
        /\ \A i \in 1 .. Len(t) - 1 : u[i] = t[i]
        /\ u[Len(t)] = e
        /\ u # <<>>
    BY <1>1, ReplaceFacts
  <1>. HIDE DEF u
  <1>7. ASSUME NEW i \in 1 .. Len(u)
        PROVE  IsScope(u[i])
    BY <1>1, <1>5, <1>6, <1>7 DEF AreScopes
  <1>8. ASSUME NEW i \in 1 .. Len(u) - 1
        PROVE  u[i].open /\ Calls(u[i], u[i + 1])
    <2>1. t[i].open /\ Calls(t[i], t[i + 1]) /\ u[i] = t[i] /\ i + 1 \in 1 .. Len(t)
      BY <1>1, <1>6 DEF AreScopes
    <2>2. u[i + 1].kind = t[i + 1].kind /\ u[i + 1].type = t[i + 1].type
      BY <1>1, <1>4, <1>6, <2>1 DEF Last
    <2>. QED
      BY <2>1, <2>2 DEF Calls
  <1>9. AreScopes(u)
    BY <1>6, <1>7, <1>8 DEF AreScopes
  <1>. QED
    BY <1>1, <1>2, <1>6, <1>9 DEF e

-----------------------------------------------------------------------------
(* What a step of the reader may be. *)

\* The container that a scope enters.
FrameOf ==
    [unpack |-> "variant", elements |-> "array", rows |-> "array", entries |-> "array",
     fields |-> "struct", entry |-> "entry"]

OpensScope(kind, T) ==
    /\ Innermost.open
    /\ IsScope(Scope(kind, T))
    /\ Calls(Innermost, Scope(kind, T))
    /\ scopes' = Append(scopes, Scope(kind, T))

\* A container is entered, or its scope is opened at the end of an array.
Enters ==
    \E kind \in DOMAIN FrameOf, T \in CxxTypes :
        /\ OpensScope(kind, T)
        /\ ~AtEnd(msg) /\ Following(msg).type.kind = FrameOf[kind]
        /\ msg' = Pushed(msg)

Pretends ==
    \E kind \in {"fields", "entries"}, T \in CxxTypes :
        /\ OpensScope(kind, T)
        /\ AtEndOfArray(msg)
        /\ msg' = msg

\* A proxy that needs no scope takes the value w for v.
Takes(v, T, w) ==
    \/ T.kind = "basic" /\ w.type = T.wire /\ v = w
    \/ T = Variant /\ w.type.kind = "variant" /\ v = w
    \/ T = Variant /\ w.type.kind # "variant" /\ v = Wrapped(w)

Gives ==
    /\ Innermost.open /\ Innermost.kind \notin {"rows", "entries"}
    /\ \E r, v :
          /\ scopes' = Delivered(scopes, r, v)
          /\ \/ /\ ~AtEnd(msg) /\ msg' = Skip(msg)
                /\ Takes(v, Expected(Innermost), Following(msg))
                /\ ByProxy \/ Following(msg).type.kind # "variant"
                /\ Expected(Innermost).kind = "basic" => r = 1
             \/ AtEnd(msg) /\ msg' = msg /\ r = 0

Closes ==
    /\ Innermost.open /\ Innermost.kind \in {"rows", "entries"}
    /\ AtEnd(msg) \/ (Innermost.kind = "rows" /\ Following(msg).type.kind # "array")
    /\ scopes' = [scopes EXCEPT ![Len(scopes)].open = FALSE]
    /\ msg' = msg

Leaves ==
    /\ Len(scopes) > 1 /\ ~Innermost.open
    /\ Len(msg) > 1 /\ AtEnd(msg)
    /\ msg' = Front(msg)
    /\ scopes' = Delivered(Front(scopes), ResultOf(Innermost, Front(msg)), BuiltBy(Innermost))

\* A value of the type may be read.
Fits(T, m) ==
    /\ ~AtEnd(m)
    /\ T.kind = "basic" => Following(m).type = T.wire
    /\ T.kind \in {"vector", "map", "dictionary"} => Following(m).type.kind = "array"
    /\ T.kind = "tuple" => Following(m).type.kind = "struct"

Throws ==
    /\ reader' = "threw" /\ UNCHANGED <<msg, scopes>>
    /\ \/ /\ Innermost.open /\ Innermost.kind \notin {"rows", "entries"}
          /\ ~Fits(Expected(Innermost), msg)
          /\ ByProxy \/ Peek(msg) # "variant"
          /\ AtEndOfArray(msg) => Expected(Innermost).kind = "vector"
       \/ /\ Innermost.open /\ Innermost.kind = "entries"
          /\ ~AtEndOfArray(msg) /\ Peek(msg) # "entry"
       \/ Len(scopes) > 1 /\ ~Innermost.open /\ ~(AtEnd(msg) /\ Len(msg) > 1)

Crashes == reader' = "crashed" /\ UNCHANGED <<msg, scopes>>

\* What entering a container can result in.
LEMMA EnterFacts ==
    ASSUME NEW m, IsMessage(m), NEW kind \in ContainerKinds
    PROVE  \/ AtEndOfArray(m) /\ Enter(m, kind) = Result(0, m)
           \/ /\ ~AtEnd(m) /\ Peek(m) = kind /\ Following(m).type.kind = kind
              /\ Enter(m, kind) = Result(1, Pushed(m))
           \/ ~AtEndOfArray(m) /\ Peek(m) # kind /\ Enter(m, kind) = Result(-1, m)
  <1>1. AtEnd(m) => Peek(m) = "end" /\ Peek(m) # kind
    BY DEF Peek, ContainerKinds
  <1>2. ~AtEnd(m) => Peek(m) = Following(m).type.kind
    BY DEF Peek
  <1>. QED
    BY <1>1, <1>2 DEF Enter, AtEndOfArray, Pushed

\* A function that is called has received nothing.
LEMMA NewScope ==
    ASSUME NEW kind \in {"value", "unpack", "entries", "elements", "rows"},
           NEW T \in CxxTypes,
           kind \in {"elements", "rows"} => T.kind = "vector",
           kind = "rows" => T.of[1].kind = "vector",
           kind = "entries" => T.kind \in {"map", "dictionary"}
    PROVE  IsScope(Scope(kind, T))
  <1>. DEFINE s == Scope(kind, T)
  <1>1. /\ s = [kind |-> s.kind, type |-> s.type, got |-> s.got, r |-> s.r, open |-> s.open]
        /\ s.kind = kind /\ s.type = T /\ s.got = <<>> /\ s.open = TRUE
    BY DEF Scope
  <1>2. IsSeq(<<>>) /\ Len(<<>>) = 0
    BY EmptySeq, SeqIsSeq
  <1>. HIDE DEF s
  <1>3. IsSeq(s.got) /\ Len(s.got) = 0
    BY <1>1, <1>2
  <1>4. IsScope(s)
    <2>1. /\ s.kind \in ScopeKinds /\ s.kind \notin {"fields", "entry"}
          /\ s.type \in CxxTypes /\ s.open \in BOOLEAN
      BY <1>1 DEF ScopeKinds
    <2>2. /\ s.kind \in {"elements", "rows"} => s.type.kind = "vector"
          /\ s.kind = "rows" => s.type.of[1].kind = "vector"
          /\ s.kind = "entries" => s.type.kind \in {"map", "dictionary"}
          /\ s.kind \in {"value", "unpack"} => Len(s.got) = IF s.open THEN 0 ELSE 1
      BY <1>1, <1>3
    <2>. QED
      BY <1>1, <1>3, <2>1, <2>2 DEF IsScope
  <1>. QED
    BY <1>4 DEF s

\* The same of those that read as many values as their type has parts.
LEMMA NewFields ==
    ASSUME NEW kind \in {"fields", "entry"}, NEW T \in CxxTypes,
           kind = "fields" => T.kind = "tuple",
           kind = "entry" => T.kind \in {"map", "dictionary"}
    PROVE  IsScope(Scope(kind, T))
  <1>. DEFINE s == Scope(kind, T)
  <1>1. /\ s = [kind |-> s.kind, type |-> s.type, got |-> s.got, r |-> s.r, open |-> s.open]
        /\ s.kind = kind /\ s.type = T /\ s.got = <<>> /\ s.open = TRUE
    BY DEF Scope
  <1>2. IsSeq(<<>>) /\ Len(<<>>) = 0
    BY EmptySeq, SeqIsSeq
  <1>3. Len(T.of) \in Nat /\ Len(T.of) > 0
    BY TypeParts
  <1>. HIDE DEF s
  <1>4. IsSeq(s.got) /\ Len(s.got) = 0
    BY <1>1, <1>2
  <1>5. IsScope(s)
    <2>1. /\ s.kind \in ScopeKinds /\ s.kind \in {"fields", "entry"}
          /\ s.type \in CxxTypes /\ s.open \in BOOLEAN
      BY <1>1 DEF ScopeKinds
    <2>2. /\ s.kind = "fields" => s.type.kind = "tuple"
          /\ s.kind = "entry" => s.type.kind \in {"map", "dictionary"}
          /\ Len(s.got) <= Len(s.type.of)
          /\ s.open <=> Len(s.got) < Len(s.type.of)
      BY <1>1, <1>3, <1>4
    <2>. QED
      BY <1>1, <1>4, <2>1, <2>2 DEF IsScope
  <1>. QED
    BY <1>5 DEF s

\* At its end a container has nothing that could be entered.
LEMMA PeekFacts ==
    ASSUME NEW m, IsMessage(m)
    PROVE  /\ Peek(m) = "end" <=> AtEnd(m)
           /\ AtEnd(m) => Peek(m) \notin ContainerKinds
  <1>1. CASE AtEnd(m)
    BY <1>1 DEF Peek, ContainerKinds
  <1>2. CASE ~AtEnd(m)
    <2>1. Following(m) \in Values /\ Peek(m) = Following(m).type.kind
      BY <1>2, FollowingIsValue
    <2>2. Following(m).type.kind # "end"
      BY <2>1, ValuesAssumption
    <2>. QED
      BY <1>2, <2>1, <2>2
  <1>. QED
    BY <1>1, <1>2

\* Sequences of one element are equal when their elements are.
LEMMA SingletonEqual ==
    ASSUME NEW S, NEW s \in Seq(S), NEW t \in Seq(S), Len(s) = 1, Len(t) = 1, s[1] = t[1]
    PROVE  s = t
  <1>1. \A i \in 1 .. Len(s) : s[i] = t[i]
    OBVIOUS
  <1>. QED
    BY <1>1, SeqEqual

\* What a variant takes is the value that follows.
LEMMA CopiedFacts ==
    ASSUME NEW m, IsMessage(m), ~AtEnd(m)
    PROVE  CopiedInto(m) = <<Following(m)>>
  <1>. DEFINE all == Top(m).all
              p == Top(m).pos
              n == Len(all)
  <1>1. /\ all \in Seq(Values) /\ n \in Nat /\ p \in Nat /\ p < n
        /\ Following(m) = all[p + 1]
    BY TopIsFrame, FollowingIsValue, LenProperties DEF Frames
  <1>2. \A i \in p + 1 .. n : all[i] \in Values
    BY <1>1, ElementOfSeq
  <1>3. Rest(Top(m)) = SubSeq(all, p + 1, n)
    BY DEF Rest
  <1>. HIDE DEF all, p, n
  <1>4. /\ SubSeq(all, p + 1, n) \in Seq(Values)
        /\ Len(SubSeq(all, p + 1, n)) = n - p
        /\ SubSeq(all, p + 1, n)[1] = all[p + 1]
    <2>1. /\ SubSeq(all, p + 1, n) \in Seq(Values)
          /\ Len(SubSeq(all, p + 1, n)) =
                IF p + 1 <= n THEN n - (p + 1) + 1 ELSE 0
          /\ \A i \in 1 .. n - (p + 1) + 1 :
                SubSeq(all, p + 1, n)[i] = all[p + 1 + i - 1]
      BY <1>1, <1>2, SubSeqProperties
    <2>2. 1 \in 1 .. n - (p + 1) + 1
      BY <1>1
    <2>. QED
      BY <1>1, <2>1, <2>2
  <1>. DEFINE rest == Rest(Top(m))
  <1>5. /\ rest \in Seq(Values) /\ Len(rest) \in Nat \ {0}
        /\ rest[1] = Following(m)
    BY <1>1, <1>3, <1>4
  <1>. HIDE DEF rest
  <1>6. /\ SubSeq(rest, 1, 1) \in Seq(Values)
        /\ Len(SubSeq(rest, 1, 1)) = 1
        /\ SubSeq(rest, 1, 1)[1] = rest[1]
    <2>1. \A i \in 1 .. 1 : rest[i] \in Values
      BY <1>5, ElementOfSeq
    <2>2. /\ SubSeq(rest, 1, 1) \in Seq(Values)
          /\ Len(SubSeq(rest, 1, 1)) = IF 1 <= 1 THEN 1 - 1 + 1 ELSE 0
          /\ \A i \in 1 .. 1 - 1 + 1 : SubSeq(rest, 1, 1)[i] = rest[1 + i - 1]
      BY <2>1, SubSeqProperties
    <2>. QED
      BY <2>2
  <1>7. /\ <<rest[1]>> \in Seq(Values) /\ Len(<<rest[1]>>) = 1
        /\ <<rest[1]>>[1] = rest[1]
    BY <1>5, ElementOfSeq
  <1>8. SubSeq(rest, 1, 1) = <<rest[1]>>
    BY <1>6, <1>7, SingletonEqual
  <1>. QED
    BY <1>5, <1>8 DEF CopiedInto, rest

\* Within a variant there is one value.
LEMMA EnteredVariant ==
    ASSUME NEW m, IsMessage(m), ~AtEnd(m), Following(m).type.kind = "variant"
    PROVE  /\ Enter(m, "variant").msg = Pushed(m)
           /\ ~AtEnd(Pushed(m)) /\ IsMessage(Pushed(m))
           /\ Following(m) \in Values /\ Following(m).items \in Seq(Values)
           /\ Following(m) = Value(VariantType, Following(m).items)
           /\ Len(Following(m).items) = 1
           /\ Following(m).items = <<Following(m).items[1]>>
           /\ Following(Pushed(m)) = Following(m).items[1]
           /\ CopiedInto(Pushed(m)) = Following(m).items
  <1>. DEFINE v == Following(m)
  <1>1. /\ v \in Values /\ v.items \in Seq(Values) /\ Len(v.items) = 1
        /\ v = Value(VariantType, v.items)
    BY FollowingIsValue, ValuesAssumption
  <1>2. v.items = <<v.items[1]>>
    <2>1. v.items[1] \in Values
      BY <1>1, ElementOfSeq
    <2>2. <<v.items[1]>> \in Seq(Values) /\ Len(<<v.items[1]>>) = 1
          /\ <<v.items[1]>>[1] = v.items[1]
      BY <2>1
    <2>. QED
      BY <1>1, <2>2, SingletonEqual
  <1>3. Enter(m, "variant").msg = Pushed(m)
    BY EnterFacts DEF ContainerKinds, Result, AtEndOfArray, Peek
  <1>4. /\ IsMessage(Pushed(m)) /\ Len(Pushed(m)) = Len(m) + 1
        /\ Pushed(m)[Len(m) + 1] = Frame("variant", v.items)
    BY PushFacts DEF ContainerKinds
  <1>5. Top(Pushed(m)) = Frame("variant", v.items)
    BY <1>4 DEF Top, Last
  <1>6. Top(Pushed(m)).pos = 0 /\ Top(Pushed(m)).all = v.items
    BY <1>5 DEF Frame
  <1>7. ~AtEnd(Pushed(m)) /\ Following(Pushed(m)) = v.items[1]
    <2>1. Top(Pushed(m)).pos + 1 = 1 /\ Len(v.items) # 0
      BY <1>1, <1>6
    <2>. QED
      BY <1>6, <2>1 DEF AtEnd, Following
  <1>8. CopiedInto(Pushed(m)) = <<v.items[1]>>
    BY <1>4, <1>7, CopiedFacts
  <1>. QED
    BY <1>1, <1>2, <1>3, <1>4, <1>7, <1>8

-----------------------------------------------------------------------------
(* What the steps of the reader are. *)

ReaderInv == IsMessage(msg) /\ AreScopes(scopes)

\* The innermost scope is a scope.
LEMMA InnermostFacts ==
    ASSUME ReaderInv, scopes # <<>>
    PROVE  IsScope(Innermost) /\ Len(scopes) \in Nat \ {0}
  <1>1. Len(scopes) \in Nat \ {0}
    BY IsSeqFacts DEF ReaderInv, AreScopes
  <1>. QED
    BY <1>1 DEF ReaderInv, AreScopes, Innermost, Last

\* What a read_proxy is called for.
LEMMA ReadsFacts ==
    ASSUME ReaderInv, NEW kinds, Reads(kinds)
    PROVE  /\ scopes # <<>> /\ IsScope(Innermost) /\ Innermost.open
           /\ Innermost.kind \notin {"rows", "entries"}
           /\ Wanted = Expected(Innermost)
           /\ Wanted \in CxxTypes /\ Wanted.kind \in kinds
           /\ ByProxy \/ Peek(msg) # "variant"
  <1>1. /\ scopes # <<>> /\ Innermost.open
        /\ Innermost.kind \in {"value", "unpack", "elements", "fields", "entry"}
        /\ Wanted.kind \in kinds
        /\ ByProxy \/ Peek(msg) # "variant"
    BY DEF Reads, InScope
  <1>2. IsScope(Innermost)
    BY <1>1, InnermostFacts
  <1>3. Wanted = Expected(Innermost)
    BY <1>1 DEF Wanted, Expected
  <1>4. Expected(Innermost) \in CxxTypes
    BY <1>1, <1>2, ExpectedIsType
  <1>. QED
    BY <1>1, <1>2, <1>3, <1>4

\* A scope may call what reads the type it expects.
LEMMA MayCall ==
    ASSUME ReaderInv, scopes # <<>>, Innermost.open,
           Innermost.kind \notin {"rows", "entries"},
           NEW kind \in {"unpack", "elements", "rows", "fields", "entries"},
           kind = "unpack" => ~ByProxy,
           kind = "elements" => Expected(Innermost).of[1].kind # "vector"
    PROVE  Calls(Innermost, Scope(kind, Expected(Innermost)))
  BY DEF Calls, ByProxy, Scope

\* unpack_variant enters a variant.
LEMMA UnpackVariantStep ==
    ASSUME ReaderInv, UnpackVariant
    PROVE  Enters
  <1>1. /\ scopes # <<>> /\ Innermost.open /\ ~ByProxy
        /\ Innermost.kind \in {"value", "elements", "fields", "entry"}
        /\ Peek(msg) = "variant"
        /\ msg' = Enter(msg, "variant").msg
        /\ scopes' = Append(scopes, Scope("unpack", Wanted))
    BY DEF UnpackVariant, InScope, Open
  <1>2. IsScope(Innermost)
    BY <1>1, InnermostFacts
  <1>3. Wanted = Expected(Innermost) /\ Wanted \in CxxTypes
    BY <1>1, <1>2, ExpectedIsType DEF Wanted, Expected
  <1>4. ~AtEnd(msg) /\ Following(msg).type.kind = "variant"
    BY <1>1 DEF Peek
  <1>5. msg' = Pushed(msg)
    BY <1>1, <1>4, EnteredVariant DEF ReaderInv
  <1>6. IsScope(Scope("unpack", Wanted))
    BY <1>3, NewScope
  <1>7. Calls(Innermost, Scope("unpack", Wanted))
    BY <1>1, <1>3, MayCall
  <1>. QED
    BY <1>1, <1>3, <1>4, <1>5, <1>6, <1>7 DEF Enters, OpensScope, FrameOf

\* Reading a basic type gives a value, throws or crashes.
LEMMA ReadBasicStep ==
    ASSUME ReaderInv, ReadBasic
    PROVE  Gives \/ Throws \/ Crashes
  <1>. DEFINE char == Wanted.wire.char
              result == SdReadBasic(msg, char)
  <1>1. Reads({"basic"})
    BY DEF ReadBasic
  <1>2. /\ Innermost.open /\ Innermost.kind \notin {"rows", "entries"}
        /\ Wanted = Expected(Innermost) /\ Wanted \in CxxTypes /\ Wanted.kind = "basic"
        /\ ByProxy \/ Peek(msg) # "variant"
    BY <1>1, ReadsFacts
  <1>3. Wanted.wire = BasicType(char)
    <2>1. Wanted = Basic(char)
      BY <1>2, TypeParts
    <2>. QED
      BY <2>1 DEF Basic, Cxx
  <1>4. \/ result.r < 0 /\ Throw
        \/ result.r = 0 /\ Give(msg, 0, NoValue)
        \/ reader' = "crashed" /\ UNCHANGED <<msg, scopes>>
        \/ result.r > 0 /\ Give(result.msg, 1, Following(msg))
    BY DEF ReadBasic
  <1>5. \/ AtEndOfArray(msg) /\ result.r = 0 /\ result.msg = msg
        \/ /\ ~AtEnd(msg) /\ Following(msg).type = Wanted.wire
           /\ result.r = 1 /\ result.msg = Skip(msg)
        \/ /\ ~AtEndOfArray(msg) /\ ~(~AtEnd(msg) /\ Following(msg).type = Wanted.wire)
           /\ result.r = -1 /\ result.msg = msg
    BY <1>3 DEF SdReadBasic, Result, AtEndOfArray
  <1>. HIDE DEF result
  <1>6. CASE result.r < 0 /\ Throw
    <2>1. ~AtEndOfArray(msg) /\ ~Fits(Expected(Innermost), msg)
      BY <1>2, <1>5, <1>6 DEF Fits
    <2>. QED
      BY <1>2, <1>6, <2>1 DEF Throws, Throw
  <1>7. CASE result.r = 0 /\ Give(msg, 0, NoValue)
    <2>1. AtEnd(msg)
      BY <1>5, <1>7 DEF AtEndOfArray
    <2>. QED
      BY <1>2, <1>7, <2>1 DEF Gives, Give
  <1>8. CASE reader' = "crashed" /\ UNCHANGED <<msg, scopes>>
    BY <1>8 DEF Crashes
  <1>9. CASE result.r > 0 /\ Give(result.msg, 1, Following(msg))
    <2>1. ~AtEnd(msg) /\ Following(msg).type = Wanted.wire /\ result.msg = Skip(msg)
      BY <1>5, <1>9
    <2>2. Takes(Following(msg), Expected(Innermost), Following(msg))
      BY <1>2, <2>1 DEF Takes
    <2>3. ByProxy \/ Following(msg).type.kind # "variant"
      BY <1>2, <2>1 DEF Peek
    <2>. QED
      BY <1>2, <1>9, <2>1, <2>2, <2>3 DEF Gives, Give
  <1>. QED
    BY <1>4, <1>6, <1>7, <1>8, <1>9

\* message_variant::assign always gives a value.
LEMMA ReadVariantStep ==
    ASSUME ReaderInv, ReadVariant
    PROVE  Gives
  <1>1. Reads({"variant"})
    BY DEF ReadVariant
  <1>2. /\ Innermost.open /\ Innermost.kind \notin {"rows", "entries"}
        /\ Wanted = Expected(Innermost) /\ Wanted \in CxxTypes /\ Wanted.kind = "variant"
        /\ ByProxy \/ Peek(msg) # "variant"
    BY <1>1, ReadsFacts
  <1>3. Wanted = Variant
    BY <1>2, TypeParts
  <1>4. Expected(Innermost).kind # "basic"
    BY <1>2
  <1>5. CASE Peek(msg) = "variant"
    <2>1. ~AtEnd(msg) /\ Following(msg).type.kind = "variant"
      BY <1>5 DEF Peek
    <2>2. /\ CopiedInto(Enter(msg, "variant").msg) = Following(msg).items
          /\ Following(msg) = Value(VariantType, Following(msg).items)
      BY <2>1, EnteredVariant DEF ReaderInv
    <2>3. Give(Skip(msg), 1, Following(msg))
      BY <1>5, <2>2 DEF ReadVariant
    <2>4. Takes(Following(msg), Expected(Innermost), Following(msg))
      BY <1>2, <1>3, <2>1 DEF Takes
    <2>. QED
      BY <1>2, <1>4, <1>5, <2>1, <2>3, <2>4 DEF Gives, Give
  <1>6. CASE Peek(msg) = "end"
    <2>1. AtEnd(msg)
      BY <1>6, PeekFacts DEF ReaderInv
    <2>2. Give(msg, 0, Value(VariantType, <<>>))
      BY <1>6 DEF ReadVariant
    <2>. QED
      BY <1>2, <2>1, <2>2 DEF Gives, Give
  <1>7. CASE Peek(msg) \notin {"variant", "end"}
    <2>1. ~AtEnd(msg) /\ Following(msg).type.kind # "variant"
      BY <1>7 DEF Peek
    <2>2. CopiedInto(msg) = <<Following(msg)>>
      BY <2>1, CopiedFacts DEF ReaderInv
    <2>3. Give(Skip(msg), 0, Wrapped(Following(msg)))
      BY <1>7, <2>2 DEF ReadVariant, Wrapped
    <2>4. Takes(Wrapped(Following(msg)), Expected(Innermost), Following(msg))
      BY <1>2, <1>3, <2>1 DEF Takes
    <2>. QED
      BY <1>2, <1>4, <2>1, <2>3, <2>4 DEF Gives, Give
  <1>. QED
    BY <1>5, <1>6, <1>7

\* A vector enters an array, or throws.
LEMMA OpenVectorStep ==
    ASSUME ReaderInv, OpenVector
    PROVE  Enters \/ Throws
  <1>. DEFINE kind == IF Wanted.of[1].kind = "vector" THEN "rows" ELSE "elements"
  <1>1. /\ Reads({"vector"})
        /\ IF Peek(msg) = "array"
           THEN Open(Enter(msg, "array").msg, Scope(kind, Wanted))
           ELSE Throw
    BY DEF OpenVector
  <1>2. /\ scopes # <<>> /\ Innermost.open /\ Innermost.kind \notin {"rows", "entries"}
        /\ Wanted = Expected(Innermost) /\ Wanted \in CxxTypes /\ Wanted.kind = "vector"
        /\ ByProxy \/ Peek(msg) # "variant"
    BY <1>1, ReadsFacts
  <1>3. CASE Peek(msg) = "array"
    <2>1. ~AtEnd(msg) /\ Following(msg).type.kind = "array"
      BY <1>3 DEF Peek
    <2>2. Enter(msg, "array").msg = Pushed(msg)
      BY <2>1, EnterFacts DEF ReaderInv, ContainerKinds, AtEndOfArray, Result, Peek
    <2>3. /\ kind \in {"elements", "rows"}
          /\ kind = "rows" => Wanted.of[1].kind = "vector"
          /\ kind = "elements" => Wanted.of[1].kind # "vector"
      OBVIOUS
    <2>4. msg' = Pushed(msg) /\ scopes' = Append(scopes, Scope(kind, Wanted))
      BY <1>1, <1>3, <2>2 DEF Open
    <2>. HIDE DEF kind
    <2>5. IsScope(Scope(kind, Wanted))
      BY <1>2, <2>3, NewScope
    <2>6. Calls(Innermost, Scope(kind, Wanted))
      BY <1>2, <2>3, MayCall
    <2>7. kind \in DOMAIN FrameOf /\ FrameOf[kind] = "array"
      BY <2>3 DEF FrameOf
    <2>. QED
      BY <1>2, <2>1, <2>4, <2>5, <2>6, <2>7 DEF Enters, OpensScope
  <1>4. CASE Peek(msg) # "array"
    <2>1. ~Fits(Expected(Innermost), msg)
      BY <1>2, <1>4 DEF Fits, Peek
    <2>. QED
      BY <1>1, <1>2, <1>4, <2>1 DEF Throws, Throw
  <1>. QED
    BY <1>3, <1>4

\* Structures and dictionaries are entered without looking.
LEMMA EnterUnseen ==
    ASSUME ReaderInv, scopes # <<>>, Innermost.open,
           Innermost.kind \notin {"rows", "entries"},
           ByProxy \/ Peek(msg) # "variant",
           NEW kind \in {"fields", "entries"},
           LET T == Expected(Innermost)
               e == Enter(msg, FrameOf[kind])
           IN  /\ T \in CxxTypes
               /\ kind = "fields" => T.kind = "tuple"
               /\ kind = "entries" => T.kind \in {"map", "dictionary"}
               /\ IF e.r < 0 THEN Throw ELSE Open(e.msg, Scope(kind, T))
    PROVE  Enters \/ Pretends \/ Throws
  <1>. DEFINE T == Expected(Innermost)
              frame == FrameOf[kind]
              e == Enter(msg, frame)
  <1>1. /\ frame = IF kind = "fields" THEN "struct" ELSE "array"
        /\ kind \in DOMAIN FrameOf
    BY DEF FrameOf
  <1>2. \/ AtEndOfArray(msg) /\ e.r = 0 /\ e.msg = msg
        \/ /\ ~AtEnd(msg) /\ Following(msg).type.kind = frame
           /\ e.r = 1 /\ e.msg = Pushed(msg)
        \/ ~AtEndOfArray(msg) /\ Peek(msg) # frame /\ e.r = -1
    <2>1. frame \in ContainerKinds
      BY <1>1 DEF ContainerKinds
    <2>. HIDE DEF frame
    <2>. QED
      BY <2>1, EnterFacts DEF ReaderInv, Result
  <1>3. /\ T \in CxxTypes
        /\ kind = "fields" => T.kind = "tuple"
        /\ kind = "entries" => T.kind \in {"map", "dictionary"}
        /\ IF e.r < 0 THEN Throw ELSE Open(e.msg, Scope(kind, T))
    OBVIOUS
  <1>. HIDE DEF e, frame, T
  <1>4. IsScope(Scope(kind, T))
    BY <1>3, NewScope, NewFields
  <1>5. Calls(Innermost, Scope(kind, T))
    BY MayCall DEF T
  <1>7. CASE AtEndOfArray(msg) /\ e.r = 0 /\ e.msg = msg
    BY <1>3, <1>4, <1>5, <1>7 DEF Pretends, OpensScope, Open
  <1>8. CASE /\ ~AtEnd(msg) /\ Following(msg).type.kind = frame
             /\ e.r = 1 /\ e.msg = Pushed(msg)
    <2>1. msg' = Pushed(msg) /\ scopes' = Append(scopes, Scope(kind, T))
      BY <1>3, <1>8 DEF Open
    <2>. QED
      BY <1>1, <1>3, <1>4, <1>5, <1>8, <2>1 DEF Enters, OpensScope, frame
  <1>9. CASE ~AtEndOfArray(msg) /\ Peek(msg) # frame /\ e.r = -1
    <2>1. Throw
      BY <1>3, <1>9
    <2>2. ~Fits(T, msg)
      BY <1>1, <1>3, <1>9 DEF Fits, Peek
    <2>. QED
      BY <1>9, <2>1, <2>2 DEF Throws, Throw, T
  <1>. QED
    BY <1>2, <1>7, <1>8, <1>9

\* A tuple enters a structure, pretends to at the end of an array, or throws.
LEMMA OpenTupleStep ==
    ASSUME ReaderInv, OpenTuple
    PROVE  Enters \/ Pretends \/ Throws
  <1>1. /\ Reads({"tuple"})
        /\ IF Enter(msg, "struct").r < 0
           THEN Throw ELSE Open(Enter(msg, "struct").msg, Scope("fields", Wanted))
    BY DEF OpenTuple
  <1>2. /\ scopes # <<>> /\ Innermost.open /\ Innermost.kind \notin {"rows", "entries"}
        /\ Wanted = Expected(Innermost) /\ Wanted \in CxxTypes /\ Wanted.kind = "tuple"
        /\ ByProxy \/ Peek(msg) # "variant"
    BY <1>1, ReadsFacts
  <1>3. FrameOf["fields"] = "struct"
    BY DEF FrameOf
  <1>. QED
    BY <1>1, <1>2, <1>3, EnterUnseen

\* A map enters an array, pretends to at the end of an array, or throws.
LEMMA OpenMapStep ==
    ASSUME ReaderInv, OpenMap
    PROVE  Enters \/ Pretends \/ Throws
  <1>1. /\ Reads({"map", "dictionary"})
        /\ IF Enter(msg, "array").r < 0
           THEN Throw ELSE Open(Enter(msg, "array").msg, Scope("entries", Wanted))
    BY DEF OpenMap
  <1>2. /\ scopes # <<>> /\ Innermost.open /\ Innermost.kind \notin {"rows", "entries"}
        /\ Wanted = Expected(Innermost) /\ Wanted \in CxxTypes
        /\ Wanted.kind \in {"map", "dictionary"}
        /\ ByProxy \/ Peek(msg) # "variant"
    BY <1>1, ReadsFacts
  <1>3. FrameOf["entries"] = "array"
    BY DEF FrameOf
  <1>. QED
    BY <1>1, <1>2, <1>3, EnterUnseen

\* The loop over the rows enters an array or ends.
LEMMA OpenRowStep ==
    ASSUME ReaderInv, OpenRow
    PROVE  Enters \/ Closes
  <1>. DEFINE T == Innermost.type.of[1]
  <1>1. /\ scopes # <<>> /\ Innermost.open /\ Innermost.kind = "rows"
        /\ IF Enter(msg, "array").r <= 0
           THEN CloseInnermost
           ELSE Open(Enter(msg, "array").msg, Scope("elements", T))
    BY DEF OpenRow, InScope
  <1>2. IsScope(Innermost)
    BY <1>1, InnermostFacts
  <1>3. T \in CxxTypes /\ T.kind = "vector" /\ T = Expected(Innermost)
    BY <1>1, <1>2, ExpectedIsType DEF IsScope, Expected
  <1>4. CASE ~AtEnd(msg) /\ Following(msg).type.kind = "array"
    <2>1. Enter(msg, "array") = Result(1, Pushed(msg))
      BY <1>4, EnterFacts DEF ReaderInv, ContainerKinds, AtEndOfArray, Peek
    <2>2. msg' = Pushed(msg) /\ scopes' = Append(scopes, Scope("elements", T))
      BY <1>1, <2>1 DEF Result, Open
    <2>3. IsScope(Scope("elements", T))
      BY <1>3, NewScope
    <2>4. Calls(Innermost, Scope("elements", T))
      BY <1>1, <1>3 DEF Calls, Scope
    <2>. QED
      BY <1>1, <1>3, <1>4, <2>2, <2>3, <2>4 DEF Enters, OpensScope, FrameOf
  <1>5. CASE ~(~AtEnd(msg) /\ Following(msg).type.kind = "array")
    <2>1. Enter(msg, "array").r \in {0, -1}
      BY <1>5, EnterFacts DEF ReaderInv, ContainerKinds, Result
    <2>2. CloseInnermost
      BY <1>1, <2>1
    <2>. QED
      BY <1>1, <1>5, <2>2 DEF Closes, CloseInnermost
  <1>. QED
    BY <1>4, <1>5

\* The loop over the entries enters one, ends or throws.
LEMMA OpenEntryStep ==
    ASSUME ReaderInv, OpenEntry
    PROVE  Enters \/ Closes \/ Throws
  <1>. DEFINE T == Innermost.type
              e == Enter(msg, "entry")
  <1>1. /\ scopes # <<>> /\ Innermost.open /\ Innermost.kind = "entries"
        /\ CASE e.r < 0 -> Throw
             [] e.r = 0 -> CloseInnermost
             [] OTHER   -> Open(e.msg, Scope("entry", T))
    BY DEF OpenEntry, InScope
  <1>2. IsScope(Innermost)
    BY <1>1, InnermostFacts
  <1>3. T \in CxxTypes /\ T.kind \in {"map", "dictionary"}
    BY <1>1, <1>2 DEF IsScope
  <1>4. \/ AtEndOfArray(msg) /\ e.r = 0
        \/ /\ ~AtEnd(msg) /\ Following(msg).type.kind = "entry"
           /\ e.r = 1 /\ e.msg = Pushed(msg)
        \/ ~AtEndOfArray(msg) /\ Peek(msg) # "entry" /\ e.r = -1
    BY EnterFacts DEF ReaderInv, ContainerKinds, Result
  <1>. HIDE DEF e
  <1>5. CASE AtEndOfArray(msg) /\ e.r = 0
    BY <1>1, <1>5 DEF Closes, CloseInnermost, AtEndOfArray
  <1>6. CASE /\ ~AtEnd(msg) /\ Following(msg).type.kind = "entry"
             /\ e.r = 1 /\ e.msg = Pushed(msg)
    <2>1. msg' = Pushed(msg) /\ scopes' = Append(scopes, Scope("entry", T))
      BY <1>1, <1>6 DEF Open
    <2>2. IsScope(Scope("entry", T))
      BY <1>3, NewFields
    <2>3. Calls(Innermost, Scope("entry", T))
      BY <1>1 DEF Calls, Scope
    <2>. QED
      BY <1>1, <1>3, <1>6, <2>1, <2>2, <2>3 DEF Enters, OpensScope, FrameOf
  <1>7. CASE ~AtEndOfArray(msg) /\ Peek(msg) # "entry" /\ e.r = -1
    <2>1. Throw
      BY <1>1, <1>7
    <2>. QED
      BY <1>1, <1>7, <2>1 DEF Throws, Throw
  <1>. QED
    BY <1>4, <1>5, <1>6, <1>7

\* A function that has read everything leaves its container, or throws.
LEMMA LeaveScopeStep ==
    ASSUME ReaderInv, LeaveScope
    PROVE  Leaves \/ Throws
  <1>1. /\ Len(scopes) > 1 /\ ~Innermost.open
        /\ IF Exit(msg).r < 0
           THEN Throw
           ELSE /\ msg' = Exit(msg).msg
                /\ scopes' = Delivered(Front(scopes), ResultOf(Innermost, Exit(msg).msg),
                                       BuiltBy(Innermost))
    BY DEF LeaveScope, Left
  <1>2. CASE AtEnd(msg) /\ Len(msg) > 1
    <2>1. Exit(msg) = Result(1, Front(msg))
      BY <1>2 DEF Exit
    <2>2. Exit(msg).r = 1 /\ Exit(msg).msg = Front(msg)
      BY <2>1 DEF Result
    <2>. QED
      BY <1>1, <1>2, <2>2 DEF Leaves
  <1>3. CASE ~(AtEnd(msg) /\ Len(msg) > 1)
    <2>1. Exit(msg) = Result(-1, msg)
      BY <1>3 DEF Exit
    <2>2. Exit(msg).r < 0
      BY <2>1 DEF Result
    <2>. QED
      BY <1>1, <1>3, <2>2 DEF Throws, Throw
  <1>. QED
    BY <1>2, <1>3

\* Every step of the reader is one of these.
LEMMA StepKinds ==
    ASSUME ReaderInv, ReaderStep
    PROVE  Enters \/ Pretends \/ Gives \/ Closes \/ Leaves \/ Throws \/ Crashes
  BY UnpackVariantStep, ReadBasicStep, ReadVariantStep, OpenVectorStep, OpenTupleStep,
     OpenMapStep, OpenRowStep, OpenEntryStep, LeaveScopeStep
  DEF ReaderStep

-----------------------------------------------------------------------------
(* A step keeps the message a message and the scopes scopes, and changes  *)
(* only the innermost of each, or adds or takes one.                      *)

\* The scopes after a function was called.
LEMMA OpensScopeFacts ==
    ASSUME ReaderInv, scopes # <<>>, NEW kind, NEW T, OpensScope(kind, T)
    PROVE  /\ AreScopes(scopes')
           /\ Len(scopes') = Len(scopes) + 1
           /\ \A i \in 1 .. Len(scopes) : scopes'[i] = scopes[i]
           /\ scopes'[Len(scopes) + 1] = Scope(kind, T)
           /\ scopes' # <<>>
  BY PushScope DEF ReaderInv, OpensScope, Innermost

StepOrStutter ==
    Enters \/ Pretends \/ Gives \/ Closes \/ Leaves \/ UNCHANGED <<msg, scopes>>

\* Messages and scopes stay well formed.
LEMMA ReaderInvKept ==
    ASSUME ReaderInv, scopes # <<>>,
           StepOrStutter
    PROVE  ReaderInv' /\ scopes' # <<>>
  <1>1. CASE Enters
    <2>1. PICK kind \in DOMAIN FrameOf, T \in CxxTypes :
             /\ OpensScope(kind, T)
             /\ ~AtEnd(msg) /\ Following(msg).type.kind = FrameOf[kind]
             /\ msg' = Pushed(msg)
      BY <1>1 DEF Enters
    <2>2. FrameOf[kind] \in ContainerKinds
      BY DEF FrameOf, ContainerKinds
    <2>3. IsMessage(msg')
      BY <2>1, <2>2, PushFacts DEF ReaderInv
    <2>. QED
      BY <2>1, <2>3, OpensScopeFacts DEF ReaderInv
  <1>2. CASE Pretends
    BY <1>2, OpensScopeFacts DEF ReaderInv, Pretends
  <1>3. CASE Gives
    <2>1. PICK r, v : /\ scopes' = Delivered(scopes, r, v)
                      /\ (~AtEnd(msg) /\ msg' = Skip(msg)) \/ msg' = msg
      BY <1>3 DEF Gives
    <2>2. AreScopes(scopes') /\ scopes' # <<>>
      BY <1>3, <2>1, DeliverScope DEF ReaderInv, Gives, Innermost
    <2>3. IsMessage(msg')
      BY <2>1, SkipFacts DEF ReaderInv
    <2>. QED
      BY <2>2, <2>3 DEF ReaderInv
  <1>4. CASE Closes
    <2>1. /\ Innermost.open /\ Innermost.kind \in {"rows", "entries"}
          /\ scopes' = [scopes EXCEPT ![Len(scopes)].open = FALSE]
          /\ msg' = msg
      BY <1>4 DEF Closes
    <2>. QED
      BY <2>1, CloseScope DEF ReaderInv, Innermost
  <1>5. CASE Leaves
    <2>1. /\ Len(scopes) > 1 /\ Len(msg) > 1 /\ msg' = Front(msg)
          /\ \E r, v : scopes' = Delivered(Front(scopes), r, v)
      BY <1>5 DEF Leaves
    <2>2. AreScopes(Front(scopes)) /\ Front(scopes) # <<>> /\ Last(Front(scopes)).open
      BY <2>1, PopScope DEF ReaderInv
    <2>3. AreScopes(scopes') /\ scopes' # <<>>
      BY <2>1, <2>2, DeliverScope
    <2>4. IsMessage(msg')
      BY <2>1, PopFacts DEF ReaderInv
    <2>. QED
      BY <2>3, <2>4 DEF ReaderInv
  <1>6. CASE UNCHANGED <<msg, scopes>>
    BY <1>6 DEF ReaderInv
  <1>. QED
    BY <1>1, <1>2, <1>3, <1>4, <1>5, <1>6 DEF StepOrStutter

\* The lengths, the outermost container and the outermost scope after a step.
LEMMA StepShapes ==
    ASSUME ReaderInv, scopes # <<>>, StepOrStutter
    PROVE  /\ Len(msg) \in Nat \ {0} /\ Len(scopes) \in Nat \ {0}
           /\ msg'[1].kind = msg[1].kind /\ msg'[1].all = msg[1].all
           /\ scopes'[1].kind = scopes[1].kind /\ scopes'[1].type = scopes[1].type
           /\ \/ Len(msg') = Len(msg) /\ Len(scopes') = Len(scopes)
              \/ Len(msg') = Len(msg) + 1 /\ Len(scopes') = Len(scopes) + 1
              \/ Len(msg') = Len(msg) /\ Len(scopes') = Len(scopes) + 1
              \/ /\ Len(msg') = Len(msg) - 1 /\ Len(scopes') = Len(scopes) - 1
                 /\ Len(scopes) > 1 /\ Len(msg) > 1
  <1>1. Len(msg) \in Nat \ {0} /\ Len(scopes) \in Nat \ {0}
    BY TopIsFrame, InnermostFacts DEF ReaderInv
  <1>2. msg[1] \in Frames
    BY TopIsFrame DEF ReaderInv
  <1>. DEFINE f == [msg[Len(msg)] EXCEPT !.pos = @ + 1]
  <1>3. f.kind = msg[Len(msg)].kind /\ f.all = msg[Len(msg)].all
    <2>1. msg[Len(msg)] \in Frames
      BY TopIsFrame DEF ReaderInv
    <2>. QED
      BY <2>1 DEF Frames
  <1>. HIDE DEF f
  <1>4. CASE Enters
    <2>1. PICK kind \in DOMAIN FrameOf, T \in CxxTypes :
             /\ OpensScope(kind, T)
             /\ ~AtEnd(msg) /\ Following(msg).type.kind = FrameOf[kind]
             /\ msg' = Pushed(msg)
      BY <1>4 DEF Enters
    <2>2. FrameOf[kind] \in ContainerKinds
      BY DEF FrameOf, ContainerKinds
    <2>3. /\ Len(msg') = Len(msg) + 1
          /\ \A i \in 1 .. Len(msg) - 1 : msg'[i] = msg[i]
          /\ msg'[Len(msg)] = f
      BY <2>1, <2>2, PushFacts DEF ReaderInv, f
    <2>4. msg'[1].kind = msg[1].kind /\ msg'[1].all = msg[1].all
      <3>1. CASE Len(msg) = 1
        BY <1>3, <2>3, <3>1
      <3>2. CASE Len(msg) > 1
        BY <1>1, <2>3, <3>2
      <3>. QED
        BY <1>1, <3>1, <3>2
    <2>5. Len(scopes') = Len(scopes) + 1 /\ scopes'[1] = scopes[1]
      BY <1>1, <2>1, OpensScopeFacts
    <2>. QED
      BY <1>1, <2>3, <2>4, <2>5
  <1>5. CASE Pretends
    <2>1. Len(scopes') = Len(scopes) + 1 /\ scopes'[1] = scopes[1] /\ msg' = msg
      BY <1>1, <1>5, OpensScopeFacts DEF Pretends
    <2>. QED
      BY <1>1, <2>1
  <1>6. CASE Gives
    <2>1. PICK r, v : /\ scopes' = Delivered(scopes, r, v)
                      /\ (~AtEnd(msg) /\ msg' = Skip(msg)) \/ msg' = msg
      BY <1>6 DEF Gives
    <2>2. /\ Len(scopes') = Len(scopes)
          /\ \A i \in 1 .. Len(scopes) - 1 : scopes'[i] = scopes[i]
          /\ scopes'[Len(scopes)] = Receives(Innermost, r, v)
      BY <1>6, <2>1, DeliverScope DEF ReaderInv, Gives, Innermost
    <2>3. /\ Receives(Innermost, r, v).kind = Innermost.kind
          /\ Receives(Innermost, r, v).type = Innermost.type
      BY <1>6, InnermostFacts, ReceivesFacts DEF Gives
    <2>4. scopes'[1].kind = scopes[1].kind /\ scopes'[1].type = scopes[1].type
      BY <1>1, <2>2, <2>3 DEF Innermost, Last
    <2>5. CASE ~AtEnd(msg) /\ msg' = Skip(msg)
      <3>1. /\ Len(msg') = Len(msg)
            /\ \A i \in 1 .. Len(msg) - 1 : msg'[i] = msg[i]
            /\ msg'[Len(msg)] = f
        BY <2>5, SkipFacts DEF ReaderInv, f
      <3>2. msg'[1].kind = msg[1].kind /\ msg'[1].all = msg[1].all
        <4>1. CASE Len(msg) = 1
          BY <1>3, <3>1, <4>1
        <4>2. CASE Len(msg) > 1
          BY <1>1, <3>1, <4>2
        <4>3. Len(msg) = 1 \/ Len(msg) > 1
          BY <1>1, OneOrMore
        <4>. QED
          BY <4>1, <4>2, <4>3
      <3>. QED
        BY <1>1, <2>2, <2>4, <3>1, <3>2
    <2>6. CASE msg' = msg
      BY <1>1, <2>2, <2>4, <2>6
    <2>. QED
      BY <2>1, <2>5, <2>6
  <1>7. CASE Closes
    <2>1. /\ Len(scopes') = Len(scopes)
          /\ \A i \in 1 .. Len(scopes) - 1 : scopes'[i] = scopes[i]
          /\ scopes'[Len(scopes)] = [Innermost EXCEPT !.open = FALSE]
          /\ msg' = msg
      BY <1>7, CloseScope DEF ReaderInv, Closes, Innermost
    <2>2. /\ [Innermost EXCEPT !.open = FALSE].kind = Innermost.kind
          /\ [Innermost EXCEPT !.open = FALSE].type = Innermost.type
      BY InnermostFacts DEF IsScope
    <2>3. scopes'[1].kind = scopes[1].kind /\ scopes'[1].type = scopes[1].type
      <3>1. CASE Len(scopes) = 1
        BY <2>1, <2>2, <3>1 DEF Innermost, Last
      <3>2. CASE Len(scopes) > 1
        BY <1>1, <2>1, <3>2
      <3>3. Len(scopes) = 1 \/ Len(scopes) > 1
        BY <1>1, OneOrMore
      <3>. QED
        BY <3>1, <3>2, <3>3
    <2>. QED
      BY <1>1, <2>1, <2>3
  <1>8. CASE Leaves
    <2>1. /\ Len(scopes) > 1 /\ Len(msg) > 1 /\ msg' = Front(msg)
          /\ \E r, v : scopes' = Delivered(Front(scopes), r, v)
      BY <1>8 DEF Leaves
    <2>2. PICK r, v : scopes' = Delivered(Front(scopes), r, v)
      BY <2>1
    <2>. DEFINE t == Front(scopes)
    <2>3. /\ AreScopes(t) /\ t # <<>> /\ Last(t).open
          /\ Len(t) = Len(scopes) - 1
          /\ \A i \in 1 .. Len(scopes) - 1 : t[i] = scopes[i]
      BY <2>1, PopScope DEF ReaderInv
    <2>. HIDE DEF t
    <2>4. /\ Len(scopes') = Len(t)
          /\ \A i \in 1 .. Len(t) - 1 : scopes'[i] = t[i]
          /\ scopes'[Len(t)] = Receives(Last(t), r, v)
          /\ Len(t) \in Nat \ {0}
      BY <2>2, <2>3, DeliverScope DEF t
    <2>5. IsScope(Last(t))
      BY <2>3, <2>4 DEF AreScopes, Last
    <2>6. /\ Receives(Last(t), r, v).kind = Last(t).kind
          /\ Receives(Last(t), r, v).type = Last(t).type
      BY <2>3, <2>5, ReceivesFacts
    <2>7. scopes'[1].kind = scopes[1].kind /\ scopes'[1].type = scopes[1].type
      BY <1>1, <2>3, <2>4, <2>6 DEF Last
    <2>8. Len(msg') = Len(msg) - 1 /\ msg'[1] = msg[1]
      BY <1>1, <2>1, PopFacts DEF ReaderInv
    <2>. QED
      BY <1>1, <2>1, <2>3, <2>4, <2>7, <2>8
  <1>9. CASE UNCHANGED <<msg, scopes>>
    BY <1>1, <1>9
  <1>. QED
    BY <1>4, <1>5, <1>6, <1>7, <1>8, <1>9 DEF StepOrStutter

\* Each kind of step, in the parts of the message and of the scopes.
LEMMA EntersFacts ==
    ASSUME ReaderInv, scopes # <<>>, Enters
    PROVE  \E kind \in DOMAIN FrameOf, T \in CxxTypes :
              /\ Innermost.open /\ ~AtEnd(msg)
              /\ IsScope(Scope(kind, T)) /\ Calls(Innermost, Scope(kind, T))
              /\ Following(msg).type.kind = FrameOf[kind]
              /\ FrameOf[kind] \in ContainerKinds
              /\ Len(msg') = Len(msg) + 1
              /\ \A i \in 1 .. Len(msg) - 1 : msg'[i] = msg[i]
              /\ msg'[Len(msg)] = [msg[Len(msg)] EXCEPT !.pos = @ + 1]
              /\ msg'[Len(msg) + 1] = Frame(FrameOf[kind], Following(msg).items)
              /\ Len(scopes') = Len(scopes) + 1
              /\ \A i \in 1 .. Len(scopes) : scopes'[i] = scopes[i]
              /\ scopes'[Len(scopes) + 1] = Scope(kind, T)
  <1>1. PICK kind \in DOMAIN FrameOf, T \in CxxTypes :
           /\ OpensScope(kind, T)
           /\ ~AtEnd(msg) /\ Following(msg).type.kind = FrameOf[kind]
           /\ msg' = Pushed(msg)
    BY DEF Enters
  <1>2. FrameOf[kind] \in ContainerKinds
    BY DEF FrameOf, ContainerKinds
  <1>3. /\ Len(msg') = Len(msg) + 1
        /\ \A i \in 1 .. Len(msg) - 1 : msg'[i] = msg[i]
        /\ msg'[Len(msg)] = [msg[Len(msg)] EXCEPT !.pos = @ + 1]
        /\ msg'[Len(msg) + 1] = Frame(FrameOf[kind], Following(msg).items)
    BY <1>1, <1>2, PushFacts DEF ReaderInv
  <1>4. /\ Len(scopes') = Len(scopes) + 1
        /\ \A i \in 1 .. Len(scopes) : scopes'[i] = scopes[i]
        /\ scopes'[Len(scopes) + 1] = Scope(kind, T)
    BY <1>1, OpensScopeFacts
  <1>. QED
    BY <1>1, <1>2, <1>3, <1>4 DEF OpensScope

\* A step that gives a value, in the parts of the message and of the scopes.
LEMMA GivesFacts ==
    ASSUME ReaderInv, scopes # <<>>, Gives
    PROVE  /\ Innermost.open /\ Innermost.kind \notin {"rows", "entries"}
           /\ Len(msg') = Len(msg)
           /\ \A i \in 1 .. Len(msg) - 1 : msg'[i] = msg[i]
           /\ Len(scopes') = Len(scopes)
           /\ \A i \in 1 .. Len(scopes) - 1 : scopes'[i] = scopes[i]
           /\ \E r, v :
                 /\ scopes'[Len(scopes)] = Receives(Innermost, r, v)
                 /\ \/ /\ ~AtEnd(msg)
                       /\ msg'[Len(msg)] = [msg[Len(msg)] EXCEPT !.pos = @ + 1]
                       /\ Takes(v, Expected(Innermost), Following(msg))
                       /\ ByProxy \/ Following(msg).type.kind # "variant"
                       /\ Expected(Innermost).kind = "basic" => r = 1
                    \/ AtEnd(msg) /\ msg' = msg /\ r = 0
  <1>1. PICK r, v :
           /\ scopes' = Delivered(scopes, r, v)
           /\ \/ /\ ~AtEnd(msg) /\ msg' = Skip(msg)
                 /\ Takes(v, Expected(Innermost), Following(msg))
                 /\ ByProxy \/ Following(msg).type.kind # "variant"
                 /\ Expected(Innermost).kind = "basic" => r = 1
              \/ AtEnd(msg) /\ msg' = msg /\ r = 0
    BY DEF Gives
  <1>2. /\ Len(scopes') = Len(scopes)
        /\ \A i \in 1 .. Len(scopes) - 1 : scopes'[i] = scopes[i]
        /\ scopes'[Len(scopes)] = Receives(Innermost, r, v)
    BY <1>1, DeliverScope DEF ReaderInv, Gives, Innermost
  <1>3. CASE ~AtEnd(msg) /\ msg' = Skip(msg)
    <2>1. /\ Len(msg') = Len(msg)
          /\ \A i \in 1 .. Len(msg) - 1 : msg'[i] = msg[i]
          /\ msg'[Len(msg)] = [msg[Len(msg)] EXCEPT !.pos = @ + 1]
      BY <1>3, SkipFacts DEF ReaderInv
    <2>. QED
      BY <1>1, <1>2, <1>3, <2>1 DEF Gives
  <1>4. CASE AtEnd(msg)
    BY <1>1, <1>2, <1>4 DEF Gives
  <1>. QED
    BY <1>1, <1>3, <1>4

\* The same of one that leaves a container.
LEMMA LeavesFacts ==
    ASSUME ReaderInv, scopes # <<>>, Leaves
    PROVE  LET below == scopes[Len(scopes) - 1]
           IN  /\ Len(scopes) > 1 /\ ~Innermost.open
               /\ Len(msg) > 1 /\ AtEnd(msg)
               /\ Len(msg') = Len(msg) - 1
               /\ \A i \in 1 .. Len(msg) - 1 : msg'[i] = msg[i]
               /\ Len(scopes') = Len(scopes) - 1
               /\ \A i \in 1 .. Len(scopes) - 2 : scopes'[i] = scopes[i]
               /\ scopes'[Len(scopes) - 1] =
                     Receives(below, ResultOf(Innermost, msg'), BuiltBy(Innermost))
               /\ IsScope(below) /\ below.open /\ Calls(below, Innermost)
  <1>. DEFINE t == Front(scopes)
  <1>1. /\ Len(scopes) > 1 /\ ~Innermost.open
        /\ Len(msg) > 1 /\ AtEnd(msg) /\ msg' = Front(msg)
        /\ scopes' = Delivered(t, ResultOf(Innermost, msg'), BuiltBy(Innermost))
    BY DEF Leaves
  <1>2. /\ AreScopes(t) /\ t # <<>> /\ Last(t).open
        /\ Len(t) = Len(scopes) - 1
        /\ \A i \in 1 .. Len(scopes) - 1 : t[i] = scopes[i]
        /\ Last(t) = scopes[Len(scopes) - 1]
        /\ Calls(Last(t), Innermost)
    BY <1>1, PopScope DEF ReaderInv, Innermost
  <1>. HIDE DEF t
  <1>3. /\ Len(scopes') = Len(t)
        /\ \A i \in 1 .. Len(t) - 1 : scopes'[i] = t[i]
        /\ scopes'[Len(t)] = Receives(Last(t), ResultOf(Innermost, msg'), BuiltBy(Innermost))
        /\ Len(t) \in Nat \ {0}
    BY <1>1, <1>2, DeliverScope
  <1>4. IsScope(Last(t))
    BY <1>2, <1>3 DEF AreScopes, Last
  <1>5. Len(msg') = Len(msg) - 1 /\ \A i \in 1 .. Len(msg) - 1 : msg'[i] = msg[i]
    BY <1>1, PopFacts DEF ReaderInv
  <1>6. \A i \in 1 .. Len(scopes) - 2 : scopes'[i] = scopes[i]
    BY <1>2, <1>3
  <1>. QED
    BY <1>1, <1>2, <1>3, <1>4, <1>5, <1>6

-----------------------------------------------------------------------------
(* Where the outermost container is read. *)

\* As long as no scope has only pretended to enter a container, the outermost scope
\* takes exactly one value of the outermost container, the one after start others.
Placed(start) ==
    Len(msg) = Len(scopes) =>
        /\ Len(scopes) > 1 \/ ~scopes[1].open => msg[1].pos = start + 1
        /\ Len(scopes) = 1 /\ scopes[1].open => msg[1].pos = start

\* A read stays placed: every container it has entered is a scope of its own.
LEMMA PlacedKept ==
    ASSUME ReaderInv, scopes # <<>>, StepOrStutter, scopes[1].kind = "value",
           Len(msg) <= Len(scopes),
           NEW start \in Nat, start < Len(msg[1].all), Placed(start)
    PROVE  Len(msg') <= Len(scopes') /\ Placed(start)'
  <1>1. Len(msg) \in Nat \ {0} /\ Len(scopes) \in Nat \ {0}
    BY TopIsFrame, InnermostFacts DEF ReaderInv
  <1>2. Len(msg') <= Len(scopes')
    BY <1>1, StepShapes
  <1>3. IsScope(Innermost) /\ (Len(scopes) = 1 => Innermost = scopes[1])
    BY InnermostFacts DEF Innermost, Last
  <1>4. msg[1] \in Frames /\ msg[1].pos \in Nat
    BY TopIsFrame DEF ReaderInv, Frames
  <1>. DEFINE f == [msg[Len(msg)] EXCEPT !.pos = @ + 1]
  <1>5. Len(msg) = 1 => f.pos = msg[1].pos + 1
    BY <1>4 DEF Frames
  <1>. HIDE DEF f
  <1>6. CASE Enters
    <2>1. /\ Innermost.open
          /\ Len(msg') = Len(msg) + 1 /\ Len(scopes') = Len(scopes) + 1
          /\ \A i \in 1 .. Len(msg) - 1 : msg'[i] = msg[i]
          /\ msg'[Len(msg)] = f
      BY <1>6, EntersFacts DEF f
    <2>2. ASSUME Len(msg) = Len(scopes)
          PROVE  msg'[1].pos = start + 1
      <3>1. CASE Len(msg) = 1
        <4>1. scopes[1].open /\ ~(Len(scopes) > 1)
          BY <1>3, <2>1, <2>2, <3>1
        <4>2. msg[1].pos = start /\ f.pos = start + 1
          BY <1>1, <1>5, <2>2, <3>1, <4>1 DEF Placed
        <4>3. msg'[1] = f
          BY <2>1, <3>1
        <4>. QED
          BY <4>2, <4>3
      <3>2. CASE Len(msg) > 1
        BY <1>1, <2>1, <2>2, <3>2 DEF Placed
      <3>3. Len(msg) = 1 \/ Len(msg) > 1
        BY <1>1, OneOrMore
      <3>. QED
        BY <3>1, <3>2, <3>3
    <2>. QED
      BY <1>1, <1>2, <2>1, <2>2 DEF Placed
  <1>7. CASE Pretends
    <2>1. Len(scopes') = Len(scopes) + 1 /\ msg' = msg
      BY <1>7, OpensScopeFacts DEF Pretends
    <2>. QED
      BY <1>1, <1>2, <2>1 DEF Placed
  <1>8. CASE Gives
    <2>1. /\ Innermost.open /\ Len(msg') = Len(msg) /\ Len(scopes') = Len(scopes)
          /\ \A i \in 1 .. Len(msg) - 1 : msg'[i] = msg[i]
      BY <1>8, GivesFacts
    <2>2. PICK r, v :
             /\ scopes'[Len(scopes)] = Receives(Innermost, r, v)
             /\ (~AtEnd(msg) /\ msg'[Len(msg)] = f) \/ AtEnd(msg)
      BY <1>8, GivesFacts DEF f
    <2>3. ASSUME Len(msg) = Len(scopes), Len(msg) = 1
          PROVE  msg'[1].pos = start + 1 /\ ~scopes'[1].open
      <3>1. msg[1].pos = start
        BY <1>3, <2>1, <2>3 DEF Placed
      <3>2. ~AtEnd(msg)
        BY <2>3, <3>1, TopIsFrame DEF ReaderInv
      <3>3. Receives(Innermost, r, v).open = FALSE
        BY <1>3, <2>3 DEF Receives, IsScope
      <3>. QED
        BY <1>5, <2>2, <2>3, <3>1, <3>2, <3>3
    <2>. QED
      BY <1>1, <1>2, <2>1, <2>3 DEF Placed
  <1>9. CASE Closes
    <2>1. Len(scopes') = Len(scopes) /\ msg' = msg /\ Innermost.kind \in {"rows", "entries"}
      BY <1>9, CloseScope DEF ReaderInv, Closes, Innermost
    <2>. QED
      BY <1>1, <1>2, <1>3, <2>1 DEF Placed
  <1>10. CASE Leaves
    <2>. DEFINE below == scopes[Len(scopes) - 1]
                r == ResultOf(Innermost, msg')
                v == BuiltBy(Innermost)
    <2>1. /\ Len(scopes) > 1 /\ Len(msg) > 1
          /\ Len(msg') = Len(msg) - 1 /\ Len(scopes') = Len(scopes) - 1
          /\ \A i \in 1 .. Len(msg) - 1 : msg'[i] = msg[i]
          /\ scopes'[Len(scopes) - 1] = Receives(below, r, v)
          /\ IsScope(below)
      BY <1>10, LeavesFacts
    <2>. HIDE DEF r, v
    <2>2. msg'[1] = msg[1]
      BY <1>1, <2>1
    <2>3. ASSUME Len(scopes) = 2
          PROVE  ~scopes'[1].open
      <3>1. below.kind = "value"
        BY <2>3
      <3>2. ~Receives(below, r, v).open
        BY <2>1, <3>1 DEF Receives, IsScope
      <3>. QED
        BY <2>1, <2>3, <3>2
    <2>4. ASSUME Len(msg) = Len(scopes)
          PROVE  msg'[1].pos = start + 1
      BY <2>1, <2>2, <2>4 DEF Placed
    <2>5. Len(msg') = Len(scopes') => Len(msg) = Len(scopes)
      BY <1>1, <2>1
    <2>6. ~(Len(scopes') = 1 /\ scopes'[1].open)
      BY <1>1, <2>1, <2>3
    <2>. QED
      BY <1>2, <2>4, <2>5, <2>6 DEF Placed
  <1>11. CASE UNCHANGED <<msg, scopes>>
    <2>1. msg' = msg /\ scopes' = scopes
      BY <1>11
    <2>. QED
      BY <1>2, <2>1 DEF Placed
  <1>. QED
    BY <1>6, <1>7, <1>8, <1>9, <1>10, <1>11 DEF StepOrStutter

-----------------------------------------------------------------------------
(* What is read is of the type that was asked for. *)

\* A variant has taken one value.
Suits(v, T) ==
    /\ v.type = T.wire
    /\ T.wire = VariantType => v.items \in Seq(Values) /\ Len(v.items) = 1

\* What unpack_variant calls finds the value that the variant wraps.
UnpackReady ==
    (scopes # <<>> /\ Innermost.open /\ Innermost.kind = "unpack") =>
        Top(msg).kind = "variant" /\ Top(msg).pos = 0

Suited(kinds) ==
    \A i \in 1 .. Len(scopes) :
        scopes[i].kind \in kinds /\ ~scopes[i].open =>
            Suits(scopes[i].got[1], scopes[i].type)

\* A scope that reads one value is closed by it.
LEMMA ReceivedOne ==
    ASSUME NEW s, IsScope(s), s.kind \in {"value", "unpack"}, NEW r, NEW v
    PROVE  /\ Receives(s, r, v).got = <<v>>
           /\ Receives(s, r, v).r = r
           /\ ~Receives(s, r, v).open
           /\ Receives(s, r, v).kind = s.kind
           /\ Receives(s, r, v).type = s.type
  BY DEF Receives, IsScope

\* A scope that unpacks a variant has its value before it, or has read it.
LEMMA UnpackReadyKept ==
    ASSUME ReaderInv, scopes # <<>>, StepOrStutter, UnpackReady
    PROVE  UnpackReady'
  <1>1. Len(msg) \in Nat \ {0} /\ Len(scopes) \in Nat \ {0}
    BY TopIsFrame, InnermostFacts DEF ReaderInv
  <1>2. IsScope(Innermost)
    BY InnermostFacts
  <1>3. CASE Enters
    <2>1. PICK kind \in DOMAIN FrameOf, T \in CxxTypes :
             /\ Len(msg') = Len(msg) + 1
             /\ msg'[Len(msg) + 1] = Frame(FrameOf[kind], Following(msg).items)
             /\ Len(scopes') = Len(scopes) + 1
             /\ scopes'[Len(scopes) + 1] = Scope(kind, T)
      BY <1>3, EntersFacts
    <2>2. Innermost'.kind = kind
      BY <2>1 DEF Innermost, Last, Scope
    <2>3. Top(msg').kind = FrameOf[kind] /\ Top(msg').pos = 0
      BY <2>1 DEF Top, Last, Frame
    <2>4. FrameOf["unpack"] = "variant"
      BY DEF FrameOf
    <2>. QED
      BY <2>2, <2>3, <2>4 DEF UnpackReady
  <1>4. CASE Pretends
    <2>1. PICK kind \in {"fields", "entries"}, T \in CxxTypes : OpensScope(kind, T)
      BY <1>4 DEF Pretends
    <2>2. /\ Len(scopes') = Len(scopes) + 1
          /\ scopes'[Len(scopes) + 1] = Scope(kind, T)
      BY <2>1, OpensScopeFacts
    <2>3. Innermost'.kind = kind
      BY <2>2 DEF Innermost, Last, Scope
    <2>. QED
      BY <2>1, <2>3 DEF UnpackReady
  <1>5. CASE Gives
    <2>1. PICK r, v : /\ Innermost.open /\ Len(scopes') = Len(scopes)
                      /\ scopes'[Len(scopes)] = Receives(Innermost, r, v)
      BY <1>5, GivesFacts
    <2>2. Innermost' = Receives(Innermost, r, v)
      BY <2>1 DEF Innermost, Last
    <2>. QED
      BY <1>2, <2>1, <2>2, ReceivesFacts, ReceivedOne DEF UnpackReady
  <1>6. CASE Closes
    <2>1. /\ Len(scopes') = Len(scopes) /\ Innermost.kind \in {"rows", "entries"}
          /\ scopes'[Len(scopes)] = [Innermost EXCEPT !.open = FALSE]
      BY <1>6, CloseScope DEF ReaderInv, Closes, Innermost
    <2>2. Innermost'.kind = Innermost.kind
      BY <1>2, <2>1 DEF Innermost, Last, IsScope
    <2>. QED
      BY <2>1, <2>2 DEF UnpackReady
  <1>7. CASE Leaves
    <2>. DEFINE below == scopes[Len(scopes) - 1]
                r == ResultOf(Innermost, msg')
                v == BuiltBy(Innermost)
    <2>1. /\ Len(scopes') = Len(scopes) - 1
          /\ scopes'[Len(scopes) - 1] = Receives(below, r, v)
          /\ IsScope(below) /\ below.open
      BY <1>7, LeavesFacts
    <2>. HIDE DEF below, r, v
    <2>2. Innermost' = Receives(below, r, v)
      BY <2>1 DEF Innermost, Last
    <2>. QED
      BY <2>1, <2>2, ReceivesFacts, ReceivedOne DEF UnpackReady
  <1>8. CASE UNCHANGED <<msg, scopes>>
    BY <1>8 DEF UnpackReady, Innermost
  <1>. QED
    BY <1>3, <1>4, <1>5, <1>6, <1>7, <1>8 DEF StepOrStutter

\* So it never meets the end of a container.
LEMMA UnpackNotAtEnd ==
    ASSUME ReaderInv, scopes # <<>>, UnpackReady, Innermost.open, Innermost.kind = "unpack"
    PROVE  ~AtEnd(msg)
  <1>1. Top(msg) \in Frames /\ Top(msg).kind = "variant" /\ Top(msg).pos = 0
    BY TopIsFrame DEF ReaderInv, UnpackReady
  <1>2. Len(Top(msg).all) = 1
    BY <1>1 DEF Frames
  <1>. QED
    BY <1>1, <1>2 DEF AtEnd

\* What a type takes is of that type.
LEMMA TakenSuits ==
    ASSUME NEW T \in CxxTypes, NEW w \in Values, NEW v, Takes(v, T, w)
    PROVE  Suits(v, T)
  <1>1. CASE T.kind = "basic" /\ w.type = T.wire /\ v = w
    <2>1. T.wire # VariantType
      BY <1>1, TypeParts DEF Basic, Cxx, BasicType, VariantType, Type
    <2>. QED
      BY <1>1, <2>1 DEF Suits
  <1>2. CASE T = Variant /\ w.type.kind = "variant" /\ v = w
    <2>1. w.type = VariantType /\ w.items \in Seq(Values) /\ Len(w.items) = 1
      BY <1>2, ValuesAssumption
    <2>. QED
      BY <1>2, <2>1 DEF Suits, Variant, Cxx
  <1>3. CASE T = Variant /\ v = Wrapped(w)
    <2>1. v.type = VariantType /\ v.items = <<w>>
      BY <1>3 DEF Wrapped, Value
    <2>2. <<w>> \in Seq(Values) /\ Len(<<w>>) = 1
      OBVIOUS
    <2>. QED
      BY <1>3, <2>1, <2>2 DEF Suits, Variant, Cxx
  <1>. QED
    BY <1>1, <1>2, <1>3 DEF Takes

\* What a scope builds is of the type it was called for.
LEMMA BuiltSuits ==
    ASSUME ReaderInv, scopes # <<>>, ~Innermost.open, Suited({"unpack"}),
           Innermost.kind \notin {"value", "entry"}
    PROVE  Suits(BuiltBy(Innermost), Innermost.type)
  <1>1. IsScope(Innermost) /\ Len(scopes) \in Nat \ {0}
    BY InnermostFacts
  <1>. DEFINE T == Innermost.type
  <1>2. CASE Innermost.kind = "unpack"
    <2>1. Len(scopes) \in 1 .. Len(scopes)
      BY <1>1
    <2>2. Suits(Innermost.got[1], T)
      BY <1>2, <2>1 DEF Suited, Innermost, Last
    <2>. QED
      BY <1>2, <2>2 DEF BuiltBy
  <1>3. CASE Innermost.kind # "unpack"
    <2>1. BuiltBy(Innermost) = Value(T.wire, Innermost.got)
      BY <1>3 DEF BuiltBy
    <2>2. T \in CxxTypes /\ T.kind \in {"vector", "tuple", "map", "dictionary"}
      BY <1>1, <1>3 DEF IsScope, ScopeKinds
    <2>3. T.wire # VariantType
      <3>1. /\ T.kind = "vector" => T.wire.kind = "array"
            /\ T.kind = "tuple" => T.wire.kind = "struct"
            /\ T.kind = "map" => T.wire.kind = "array"
            /\ T.kind = "dictionary" => T.wire.kind = "array"
        BY <2>2, TypeParts
        DEF Vector, Tuple, Map, VariantDictionary, Cxx, Array, Struct, Type
      <3>. QED
        BY <2>2, <3>1 DEF VariantType, Type
    <2>. QED
      BY <2>1, <2>3 DEF Suits, Value
  <1>. QED
    BY <1>2, <1>3

\* A value that a read ends with suits its type unless the read began at the end.
LEMMA SuitedKept ==
    ASSUME ReaderInv, scopes # <<>>, StepOrStutter, UnpackReady, Suited({"unpack"}),
           NEW kinds \in SUBSET {"value", "unpack"}, Suited(kinds),
           Innermost.open /\ Innermost.kind \in kinds => ~AtEnd(msg)
    PROVE  Suited(kinds)'
  <1>1. Len(msg) \in Nat \ {0} /\ Len(scopes) \in Nat \ {0}
    BY TopIsFrame, InnermostFacts DEF ReaderInv
  <1>2. IsScope(Innermost)
    BY InnermostFacts
  <1>3. CASE Enters
    <2>1. PICK kind \in DOMAIN FrameOf, T \in CxxTypes :
             /\ Len(scopes') = Len(scopes) + 1
             /\ \A i \in 1 .. Len(scopes) : scopes'[i] = scopes[i]
             /\ scopes'[Len(scopes) + 1] = Scope(kind, T)
      BY <1>3, EntersFacts
    <2>2. Scope(kind, T).open
      BY DEF Scope
    <2>. QED
      BY <1>1, <2>1, <2>2 DEF Suited
  <1>4. CASE Pretends
    <2>1. PICK kind \in {"fields", "entries"}, T \in CxxTypes : OpensScope(kind, T)
      BY <1>4 DEF Pretends
    <2>2. /\ Len(scopes') = Len(scopes) + 1
          /\ \A i \in 1 .. Len(scopes) : scopes'[i] = scopes[i]
          /\ scopes'[Len(scopes) + 1] = Scope(kind, T)
      BY <2>1, OpensScopeFacts
    <2>3. Scope(kind, T).open
      BY DEF Scope
    <2>. QED
      BY <1>1, <2>2, <2>3 DEF Suited
  <1>5. CASE Gives
    <2>1. /\ Innermost.open /\ Innermost.kind \notin {"rows", "entries"}
          /\ Len(scopes') = Len(scopes)
          /\ \A i \in 1 .. Len(scopes) - 1 : scopes'[i] = scopes[i]
      BY <1>5, GivesFacts
    <2>2. PICK r, v :
             /\ scopes'[Len(scopes)] = Receives(Innermost, r, v)
             /\ \/ ~AtEnd(msg) /\ Takes(v, Expected(Innermost), Following(msg))
                \/ AtEnd(msg)
      BY <1>5, GivesFacts
    <2>. DEFINE s == scopes'[Len(scopes)]
    <2>3. ASSUME s.kind \in kinds, ~s.open
          PROVE  Suits(s.got[1], s.type)
      <3>1. Innermost.kind \in kinds
        BY <1>2, <2>1, <2>2, <2>3, ReceivesFacts
      <3>2. Takes(v, Expected(Innermost), Following(msg)) /\ ~AtEnd(msg)
        BY <2>1, <2>2, <3>1
      <3>3. Expected(Innermost) = Innermost.type /\ Innermost.type \in CxxTypes
        BY <1>2, <3>1 DEF Expected, IsScope
      <3>4. Suits(v, Innermost.type)
        BY <3>2, <3>3, FollowingIsValue, TakenSuits DEF ReaderInv
      <3>5. Innermost.kind \in {"value", "unpack"} /\ s = Receives(Innermost, r, v)
        BY <2>2, <3>1
      <3>. HIDE DEF s
      <3>6. s.got = <<v>> /\ s.type = Innermost.type
        BY <1>2, <3>5, ReceivedOne
      <3>. QED
        BY <3>4, <3>6
    <2>. HIDE DEF s
    <2>. QED
      BY <1>1, <2>1, <2>3 DEF Suited, s
  <1>6. CASE Closes
    <2>1. /\ Len(scopes') = Len(scopes) /\ Innermost.kind \in {"rows", "entries"}
          /\ \A i \in 1 .. Len(scopes) - 1 : scopes'[i] = scopes[i]
          /\ scopes'[Len(scopes)] = [Innermost EXCEPT !.open = FALSE]
      BY <1>6, CloseScope DEF ReaderInv, Closes, Innermost
    <2>2. scopes'[Len(scopes)].kind \notin kinds
      BY <1>2, <2>1 DEF IsScope
    <2>3. ASSUME NEW i \in 1 .. Len(scopes'), scopes'[i].kind \in kinds
          PROVE  scopes'[i] = scopes[i] /\ i \in 1 .. Len(scopes)
      <3>1. /\ Len(scopes') = Len(scopes)
            /\ \A j \in 1 .. Len(scopes) - 1 : scopes'[j] = scopes[j]
        BY <2>1
      <3>2. i # Len(scopes)
        BY <2>2, <2>3
      <3>. QED
        BY <1>1, <3>1, <3>2
    <2>4. ASSUME NEW i \in 1 .. Len(scopes'), scopes'[i].kind \in kinds, ~scopes'[i].open
          PROVE  Suits(scopes'[i].got[1], scopes'[i].type)
      <3>1. scopes'[i] = scopes[i] /\ i \in 1 .. Len(scopes)
        BY <2>3, <2>4
      <3>. QED
        BY <2>4, <3>1 DEF Suited
    <2>. QED
      BY <2>4 DEF Suited
  <1>7. CASE Leaves
    <2>. DEFINE below == scopes[Len(scopes) - 1]
                r == ResultOf(Innermost, msg')
                v == BuiltBy(Innermost)
                s == scopes'[Len(scopes) - 1]
    <2>1. /\ Len(scopes) > 1 /\ Len(scopes') = Len(scopes) - 1
          /\ \A i \in 1 .. Len(scopes) - 2 : scopes'[i] = scopes[i]
          /\ s = Receives(below, r, v)
          /\ IsScope(below) /\ below.open /\ ~Innermost.open
          /\ Calls(below, Innermost)
      BY <1>7, LeavesFacts
    <2>2. ASSUME s.kind \in kinds, ~s.open
          PROVE  Suits(s.got[1], s.type)
      <3>. HIDE DEF r, below
      <3>. HIDE DEF s, v
      <3>1. below.kind \in {"value", "unpack"}
        <4>1. s.kind = below.kind
          BY <2>1, ReceivesFacts
        <4>2. kinds \subseteq {"value", "unpack"}
          OBVIOUS
        <4>. QED
          BY <2>2, <4>1, <4>2
      <3>2. Innermost.type = below.type /\ Innermost.kind \notin {"value", "entry"}
        BY <2>1, <3>1 DEF Calls, Expected
      <3>3. Suits(v, below.type)
        BY <2>1, <3>2, BuiltSuits DEF v
      <3>4. s.got = <<v>> /\ s.type = below.type
        BY <2>1, <3>1, ReceivedOne
      <3>. QED
        BY <3>3, <3>4
    <2>. HIDE DEF s, below, r, v
    <2>. QED
      BY <1>1, <2>1, <2>2 DEF Suited, s
  <1>8. CASE UNCHANGED <<msg, scopes>>
    BY <1>8 DEF Suited
  <1>. QED
    BY <1>3, <1>4, <1>5, <1>6, <1>7, <1>8 DEF StepOrStutter

\* A parameter that is read has a value of its own left.
LEMMA ValueNotAtEnd ==
    ASSUME ReaderInv, scopes # <<>>, Len(msg) <= Len(scopes),
           NEW start \in Nat, start < Len(msg[1].all), Placed(start),
           Innermost.open, Innermost.kind = "value"
    PROVE  ~AtEnd(msg) /\ Len(scopes) = 1
  <1>1. Len(msg) \in Nat \ {0} /\ Len(scopes) \in Nat \ {0}
    BY TopIsFrame, InnermostFacts DEF ReaderInv
  <1>2. Len(scopes) = 1
    <2>1. ASSUME Len(scopes) > 1
          PROVE  FALSE
      <3>1. Calls(Last(Front(scopes)), Innermost)
        BY <2>1, PopScope DEF ReaderInv, Innermost
      <3>. QED
        BY <3>1 DEF Calls
    <2>2. Len(scopes) = 1 \/ Len(scopes) > 1
      BY <1>1, OneOrMore
    <2>. QED
      BY <2>1, <2>2
  <1>3. Len(msg) = 1 /\ scopes[1].open
    <2>1. Len(msg) <= 1 /\ Len(msg) \in Nat \ {0}
      BY <1>1, <1>2
    <2>2. Len(msg) = 1
      BY <2>1, AtMostOne
    <2>. QED
      BY <1>2, <2>2 DEF Innermost, Last
  <1>4. msg[1].pos = start
    BY <1>2, <1>3 DEF Placed
  <1>. QED
    BY <1>2, <1>3, <1>4, TopIsFrame DEF ReaderInv

-----------------------------------------------------------------------------
(* A read from its beginning to its end. *)

\* What holds of the reader between its steps.
Reader == ReaderInv /\ UnpackReady /\ Suited({"unpack"})

\* Nothing is wrong with scopes when there are none.
LEMMA NoScopes ==
    ASSUME IsMessage(msg'), scopes' = <<>>
    PROVE  Reader'
  <1>1. IsSeq(<<>>) /\ Len(<<>>) = 0
    BY EmptySeq, SeqIsSeq
  <1>2. AreScopes(<<>>)
    BY <1>1 DEF AreScopes
  <1>3. ReaderInv'
    BY <1>2 DEF ReaderInv
  <1>4. UnpackReady' /\ Suited({"unpack"})'
    BY <1>1 DEF UnpackReady, Suited
  <1>. QED
    BY <1>3, <1>4 DEF Reader

\* A read begins with one scope, which has received nothing.
LEMMA BeginReadFacts ==
    ASSUME NEW T \in CxxTypes, NEW m, IsMessage(m), BeginRead(T, m)
    PROVE  /\ Reader' /\ Suited({"value"})'
           /\ msg' = m /\ reader' = reader
           /\ scopes' # <<>> /\ Len(scopes') = 1
           /\ scopes'[1] = Scope("value", T)
           /\ scopes'[1].kind = "value" /\ scopes'[1].type = T /\ scopes'[1].open
  <1>. DEFINE s == Scope("value", T)
  <1>1. msg' = m /\ scopes' = <<s>> /\ reader' = reader
    BY DEF BeginRead
  <1>2. s.kind = "value" /\ s.type = T /\ s.open
    BY DEF Scope
  <1>3. IsScope(s)
    BY NewScope
  <1>. HIDE DEF s
  <1>4. <<s>> \in Seq({s}) /\ Len(<<s>>) = 1 /\ <<s>>[1] = s /\ <<s>> # <<>>
    OBVIOUS
  <1>5. IsSeq(<<s>>)
    BY <1>4, SeqIsSeq
  <1>6. AreScopes(<<s>>)
    BY <1>3, <1>4, <1>5 DEF AreScopes
  <1>7. ReaderInv'
    BY <1>1, <1>6 DEF ReaderInv
  <1>8. /\ scopes' # <<>> /\ Len(scopes') = 1 /\ scopes'[1] = s
        /\ scopes'[1].kind = "value" /\ scopes'[1].type = T /\ scopes'[1].open
    BY <1>1, <1>2, <1>4
  <1>9. UnpackReady'
    BY <1>8 DEF UnpackReady, Innermost, Last
  <1>10. Suited({"unpack"})' /\ Suited({"value"})'
    BY <1>8 DEF Suited
  <1>. QED
    BY <1>1, <1>7, <1>8, <1>9, <1>10 DEF Reader, s

\* A step is one of a function that has not returned, and no exception was thrown.
LEMMA ReadingGoesOn ==
    ASSUME ReaderInv, ReaderStep
    PROVE  scopes # <<>> /\ reader = "fine" /\ reader' \in {"fine", "threw", "crashed"}
  <1>1. Len(scopes) > 1 => scopes # <<>>
    BY IsSeqFacts DEF ReaderInv, AreScopes
  <1>2. CASE UnpackVariant
    BY <1>2 DEF UnpackVariant, InScope, Open
  <1>3. CASE ReadBasic
    BY <1>3 DEF ReadBasic, Reads, InScope, Throw, Give
  <1>4. CASE ReadVariant
    BY <1>4 DEF ReadVariant, Reads, InScope, Give
  <1>5. CASE OpenVector
    BY <1>5 DEF OpenVector, Reads, InScope, Throw, Open
  <1>6. CASE OpenTuple
    BY <1>6 DEF OpenTuple, Reads, InScope, Throw, Open
  <1>7. CASE OpenMap
    BY <1>7 DEF OpenMap, Reads, InScope, Throw, Open
  <1>8. CASE OpenRow
    BY <1>8 DEF OpenRow, InScope, CloseInnermost, Open
  <1>9. CASE OpenEntry
    BY <1>9 DEF OpenEntry, InScope, CloseInnermost, Throw, Open
  <1>10. CASE LeaveScope
    BY <1>1, <1>10 DEF LeaveScope, Throw
  <1>. QED
    BY <1>2, <1>3, <1>4, <1>5, <1>6, <1>7, <1>8, <1>9, <1>10 DEF ReaderStep

\* Every step of a reader keeps its invariant.
LEMMA ReaderKept ==
    ASSUME Reader, ReaderStep
    PROVE  Reader' /\ scopes' # <<>> /\ StepOrStutter
  <1>1. ReaderInv /\ scopes # <<>>
    BY ReadingGoesOn DEF Reader
  <1>2. StepOrStutter
    BY <1>1, StepKinds DEF StepOrStutter, Throws, Crashes
  <1>3. ReaderInv' /\ scopes' # <<>>
    BY <1>1, <1>2, ReaderInvKept
  <1>4. UnpackReady'
    BY <1>1, <1>2, UnpackReadyKept DEF Reader
  <1>5. Suited({"unpack"})'
    <2>1. Innermost.open /\ Innermost.kind \in {"unpack"} => ~AtEnd(msg)
      BY <1>1, UnpackNotAtEnd DEF Reader
    <2>. QED
      BY <1>1, <1>2, <2>1, SuitedKept DEF Reader
  <1>. QED
    BY <1>2, <1>3, <1>4, <1>5 DEF Reader

=============================================================================

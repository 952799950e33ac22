-------------------------- MODULE Readables_proofs --------------------------
(***************************************************************************)
(* That what is readable arrives: a message::read of a type that can be    *)
(* read, of a plain value of that type, gives that value, whatever the     *)
(* types and values are made of.                                           *)
(***************************************************************************)
EXTENDS Messages_proofs

-----------------------------------------------------------------------------
(* Types that can be read. *)

\* The type of D-Bus of a type of C++.
LEMMA WireKinds ==
    ASSUME NEW T \in CxxTypes
    PROVE  /\ T.kind = "basic" => T.wire.kind = "basic"
           /\ T.kind = "variant" <=> T.wire.kind = "variant"
           /\ T.kind = "tuple" <=> T.wire.kind = "struct"
           /\ T.kind \in {"vector", "map", "dictionary"} <=> T.wire.kind = "array"
           /\ T.kind = "vector" => T.wire = Array(T.of[1].wire)
           /\ T.kind \in {"map", "dictionary"} =>
                 T.wire = Array(Entry(T.of[1].wire, T.of[2].wire))
           /\ T.kind = "tuple" => T.wire = Struct([i \in DOMAIN T.of |-> T.of[i].wire])
           /\ T.kind = "dictionary" => T.of[1].kind = "basic" /\ T.of[2].kind = "variant"
           /\ T.kind = "variant" <=> T = Variant
           /\ T.wire = VariantType <=> T = Variant
  <1>1. T.kind \in {"basic", "variant", "vector", "tuple", "map", "dictionary"}
    BY TypeParts
  <1>2. /\ T.kind = "basic" => T.wire = BasicType(T.wire.char)
        /\ T.kind = "vector" => T.wire = Array(T.of[1].wire)
        /\ T.kind = "map" => T.wire = Array(Entry(T.of[1].wire, T.of[2].wire))
        /\ T.kind = "tuple" => T.wire = Struct([i \in DOMAIN T.of |-> T.of[i].wire])
    BY TypeParts DEF Basic, Vector, Map, Tuple, Cxx
  <1>3. T.kind = "variant" => T = Variant /\ T.wire = VariantType
    BY TypeParts DEF Variant, Cxx
  <1>4. T.kind = "dictionary" =>
           /\ T.of = <<Basic("s"), Variant>>
           /\ T.wire = Array(Entry(BasicType("s"), VariantType))
    BY TypeParts DEF VariantDictionary, Cxx
  <1>5. /\ Basic("s").wire = BasicType("s") /\ Basic("s").kind = "basic"
        /\ Variant.wire = VariantType /\ Variant.kind = "variant"
    BY DEF Basic, Variant, Cxx
  <1>6. T.kind = "dictionary" =>
           /\ T.of[1] = Basic("s") /\ T.of[2] = Variant
           /\ T.wire = Array(Entry(T.of[1].wire, T.of[2].wire))
           /\ T.of[1].kind = "basic" /\ T.of[2].kind = "variant"
    BY <1>4, <1>5
  <1>7. /\ VariantType.kind = "variant"
        /\ \A c : BasicType(c).kind = "basic"
        /\ \A E : Array(E).kind = "array"
        /\ \A Es : Struct(Es).kind = "struct"
    BY DEF VariantType, BasicType, Array, Struct, Type
  <1>8. /\ T.kind = "basic" => T.wire.kind = "basic"
        /\ T.kind = "variant" => T.wire.kind = "variant"
        /\ T.kind = "tuple" => T.wire.kind = "struct"
        /\ T.kind \in {"vector", "map", "dictionary"} => T.wire.kind = "array"
    BY <1>2, <1>3, <1>6, <1>7
  <1>9. /\ T.kind = "variant" <=> T.wire.kind = "variant"
        /\ T.kind = "tuple" <=> T.wire.kind = "struct"
        /\ T.kind \in {"vector", "map", "dictionary"} <=> T.wire.kind = "array"
    BY <1>1, <1>8
  <1>10. T.kind = "variant" <=> T = Variant
    BY <1>3, <1>5
  <1>11. T.wire = VariantType <=> T = Variant
    BY <1>5, <1>7, <1>9, <1>10
  <1>. QED
    BY <1>2, <1>6, <1>8, <1>9, <1>10, <1>11

\* A type that can be read, or a part of one.
Good(T) ==
    \/ T \in Readables
    \/ T.kind \in {"basic", "variant"}
    \/ T.kind = "vector" /\ T.of[1].kind = "basic"

\* A good type is made of good types, and a vector of what a loop can read.
LEMMA GoodParts ==
    ASSUME NEW T \in CxxTypes, Good(T)
    PROVE  /\ T.kind = "vector" =>
                 \/ T.of[1].kind = "basic"
                 \/ T.of[1].kind = "vector" /\ T.of[1].of[1].kind = "basic"
           /\ \A i \in 1 .. Len(T.of) : Good(T.of[i])
  <1>1. DOMAIN T.of = 1 .. Len(T.of)
    BY TypeParts, IsSeqFacts
  <1>2. T.kind = "vector" =>
           \/ T.of[1].kind = "basic"
           \/ T.of[1].kind = "vector" /\ T.of[1].of[1].kind = "basic"
    BY ReadablesAssumption DEF Good
  <1>3. ASSUME NEW i \in 1 .. Len(T.of)
        PROVE  Good(T.of[i])
    <2>1. CASE T.kind \in {"tuple", "map"}
      BY <1>1, <2>1, ReadablesAssumption DEF Good
    <2>2. CASE T.kind = "vector"
      BY <1>2, <2>2, TypeParts DEF Good
    <2>3. CASE T.kind = "dictionary"
      <3>1. T.of[1].kind = "basic" /\ T.of[2].kind = "variant" /\ Len(T.of) = 2
        BY <2>3, WireKinds, TypeParts
      <3>2. i = 1 \/ i = 2
        BY <3>1
      <3>. QED
        BY <3>1, <3>2 DEF Good
    <2>4. CASE T.kind = "basic"
      <3>1. T.of = <<>>
        BY <2>4, TypeParts DEF Basic, Cxx
      <3>. QED
        BY <3>1
    <2>5. CASE T.kind = "variant"
      <3>1. T.of = <<>>
        BY <2>5, TypeParts DEF Variant, Cxx
      <3>. QED
        BY <3>1
    <2>. QED
      BY <2>1, <2>2, <2>3, <2>4, <2>5, TypeParts
  <1>. QED
    BY <1>2, <1>3

-----------------------------------------------------------------------------
(* What a scope reads. *)

\* A type can be read from a value, and what that gives.
CanBe(T, w) == w \in Plains /\ Good(T) /\ (w.type = T.wire \/ T = Variant)
Content(T, w) == IF T = Variant /\ w.type.kind # "variant" THEN Wrapped(w) ELSE w

\* A value is one, or a variant of one, that a type can be read from.
Given(T, v, w) == CanBe(T, w) /\ (v = w \/ v = Wrapped(w))

\* A scope was opened for a value.
OpenedFor(s, v) ==
    /\ v \in Values
    /\ CASE s.kind = "unpack" -> v.type.kind = "variant" /\ CanBe(s.type, v.items[1])
         [] s.kind = "entry"  -> v \in Plains /\ Good(s.type) /\ v.type = s.type.wire.of[1]
         [] OTHER             -> v \in Plains /\ Good(s.type) /\ v.type = s.type.wire
    /\ s.kind = "elements" => s.type.of[1].kind = "basic"
    /\ s.kind = "rows" => s.type.of[1].of[1].kind = "basic"

\* A scope has received the first n of the values of its container.
Received(s, all, n) ==
    /\ n \in 0 .. Len(all)
    /\ Len(s.got) = n
    /\ ~s.open => n = Len(all)
    /\ \A i \in 1 .. n :
          s.got[i] = IF s.kind = "unpack" THEN Content(s.type, all[i]) ELSE all[i]

\* What the container of a scope holds.
LEMMA HeldByScope ==
    ASSUME NEW s, IsScope(s), s.kind # "value", NEW v, OpenedFor(s, v)
    PROVE  /\ v.items \in Seq(Values) /\ Len(v.items) \in Nat
           /\ v = Value(v.type, v.items)
           /\ v.type.kind = FrameOf[s.kind]
           /\ \A i \in 1 .. Len(v.items) : v.items[i] \in Plains /\ v.items[i] \in Values
           /\ s.kind \in {"elements", "rows"} =>
                 \A i \in 1 .. Len(v.items) : v.items[i].type = s.type.of[1].wire
           /\ s.kind \in {"fields", "entry"} =>
                 /\ Len(v.items) = Len(s.type.of)
                 /\ \A i \in 1 .. Len(v.items) : v.items[i].type = s.type.of[i].wire
           /\ s.kind = "entries" =>
                 \A i, j \in 1 .. Len(v.items) :
                    /\ v.items[i].type = s.type.wire.of[1]
                    /\ v.items[i].items[1] = v.items[j].items[1] => i = j
           /\ s.kind = "unpack" => Len(v.items) = 1
  <1>. DEFINE T == s.type
              items == v.items
  <1>1. T \in CxxTypes /\ v \in Values /\ s.kind \in DOMAIN FrameOf
    BY DEF IsScope, OpenedFor, ScopeKinds, FrameOf
  <1>2. /\ s.kind = "unpack" => v.type.kind = "variant"
        /\ s.kind = "entry" => v.type = Entry(T.of[1].wire, T.of[2].wire) /\ Len(T.of) = 2
        /\ s.kind = "entries" =>
              v.type = T.wire /\ T.wire = Array(Entry(T.of[1].wire, T.of[2].wire))
        /\ s.kind = "fields" =>
              v.type = Struct([i \in DOMAIN T.of |-> T.of[i].wire])
        /\ s.kind \in {"elements", "rows"} => v.type = Array(T.of[1].wire)
    <2>1. s.kind = "unpack" => v.type.kind = "variant"
      BY DEF OpenedFor
    <2>2. ASSUME s.kind = "entry"
          PROVE  v.type = Entry(T.of[1].wire, T.of[2].wire) /\ Len(T.of) = 2
      <3>1. T.kind \in {"map", "dictionary"} /\ v.type = T.wire.of[1]
        BY <2>2 DEF OpenedFor, IsScope
      <3>2. T.wire = Array(Entry(T.of[1].wire, T.of[2].wire)) /\ Len(T.of) = 2
        BY <1>1, <3>1, WireKinds, TypeParts
      <3>3. T.wire.of = <<Entry(T.of[1].wire, T.of[2].wire)>>
        BY <3>2 DEF Array, Type
      <3>. QED
        BY <3>1, <3>2, <3>3
    <2>3. ASSUME s.kind \in {"entries", "fields", "elements", "rows"}
          PROVE  v.type = T.wire
      BY <2>3 DEF OpenedFor
    <2>4. /\ s.kind = "entries" => T.wire = Array(Entry(T.of[1].wire, T.of[2].wire))
          /\ s.kind = "fields" => T.wire = Struct([i \in DOMAIN T.of |-> T.of[i].wire])
          /\ s.kind \in {"elements", "rows"} => T.wire = Array(T.of[1].wire)
      BY <1>1, WireKinds DEF IsScope
    <2>. QED
      BY <2>1, <2>2, <2>3, <2>4
  <1>3. /\ \A E : Array(E).kind = "array" /\ Array(E).of = <<E>>
        /\ \A Es : Struct(Es).kind = "struct" /\ Struct(Es).of = Es
        /\ \A K, E : Entry(K, E).kind = "entry" /\ Entry(K, E).of = <<K, E>>
    BY DEF Array, Struct, Entry, Type
  <1>4. v.type.kind = FrameOf[s.kind]
    <2>1. /\ FrameOf["unpack"] = "variant" /\ FrameOf["entry"] = "entry"
          /\ FrameOf["entries"] = "array" /\ FrameOf["fields"] = "struct"
          /\ FrameOf["elements"] = "array" /\ FrameOf["rows"] = "array"
      BY DEF FrameOf
    <2>. QED
      BY <1>1, <1>2, <1>3, <2>1 DEF FrameOf
  <1>5. v.type.kind \in {"variant", "array", "struct", "entry"}
    BY <1>1, <1>4 DEF FrameOf
  <1>6. /\ v = Value(v.type, items)
        /\ items \in Seq(Values)
        /\ v.type.kind = "variant" => Len(items) = 1
        /\ v.type.kind = "array" => \A i \in DOMAIN items : items[i].type = v.type.of[1]
        /\ v.type.kind \in {"struct", "entry"} =>
              Len(items) = Len(v.type.of) /\ \A i \in DOMAIN items : items[i].type = v.type.of[i]
    BY <1>1, <1>5, ValuesAssumption
  <1>7. /\ Len(items) \in Nat /\ DOMAIN items = 1 .. Len(items)
        /\ \A i \in 1 .. Len(items) : items[i] \in Values
    BY <1>6, LenProperties, ElementOfSeq
  <1>8. \A i \in 1 .. Len(items) : items[i] \in Plains
    <2>1. CASE s.kind = "unpack"
      <3>1. Len(items) = 1 /\ items[1] \in Plains
        BY <1>4, <1>6, <2>1 DEF OpenedFor, CanBe, FrameOf
      <3>. QED
        BY <3>1
    <2>2. CASE s.kind # "unpack"
      <3>1. v \in Plains
        BY <2>2 DEF OpenedFor
      <3>. QED
        BY <1>5, <1>7, <3>1, PlainsAssumption
    <2>. QED
      BY <2>1, <2>2
  <1>9. s.kind \in {"elements", "rows"} =>
           \A i \in 1 .. Len(items) : items[i].type = T.of[1].wire
    BY <1>2, <1>3, <1>6, <1>7
  <1>10. ASSUME s.kind = "fields"
         PROVE  /\ Len(items) = Len(T.of)
                /\ \A i \in 1 .. Len(items) : items[i].type = T.of[i].wire
    <2>. DEFINE Es == [i \in DOMAIN T.of |-> T.of[i].wire]
    <2>1. Len(items) = Len(Es) /\ \A i \in DOMAIN items : items[i].type = Es[i]
      BY <1>2, <1>3, <1>6, <1>10
    <2>2. DOMAIN T.of = 1 .. Len(T.of) /\ Len(T.of) \in Nat
      BY <1>1, TypeParts, IsSeqFacts
    <2>3. Len(Es) = Len(T.of)
      <3>. DEFINE W == {T.of[i].wire : i \in DOMAIN T.of}
      <3>1. Es \in [1 .. Len(T.of) -> W]
        BY <2>2
      <3>. HIDE DEF Es, W
      <3>2. Es \in Seq(W) /\ DOMAIN Es = 1 .. Len(T.of)
        BY <2>2, <3>1
      <3>3. Len(Es) \in Nat /\ 1 .. Len(Es) = 1 .. Len(T.of)
        BY <3>2, LenProperties
      <3>. QED
        BY <2>2, <3>3
    <2>. QED
      BY <1>7, <2>1, <2>2, <2>3
  <1>11. ASSUME s.kind = "entry"
         PROVE  /\ Len(items) = Len(T.of)
                /\ \A i \in 1 .. Len(items) : items[i].type = T.of[i].wire
    <2>1. v.type.of = <<T.of[1].wire, T.of[2].wire>> /\ Len(T.of) = 2
      BY <1>2, <1>3, <1>11
    <2>2. Len(items) = 2 /\ \A i \in 1 .. 2 : items[i].type = v.type.of[i]
      BY <1>2, <1>3, <1>6, <1>7, <1>11, <2>1
    <2>3. items[1].type = T.of[1].wire /\ items[2].type = T.of[2].wire
      BY <2>1, <2>2
    <2>4. \A i \in 1 .. 2 : i = 1 \/ i = 2
      OBVIOUS
    <2>. QED
      BY <2>1, <2>2, <2>3, <2>4
  <1>12. ASSUME s.kind = "entries"
         PROVE  \A i, j \in 1 .. Len(items) :
                   /\ items[i].type = T.wire.of[1]
                   /\ items[i].items[1] = items[j].items[1] => i = j
    <2>1. v.type = T.wire /\ v.type.kind = "array" /\ v.type.of[1].kind = "entry"
      BY <1>2, <1>3, <1>12
    <2>2. v \in Plains
      BY <1>12 DEF OpenedFor
    <2>3. \A i, j \in DOMAIN items : items[i].items[1] = items[j].items[1] => i = j
      BY <2>1, <2>2, PlainsAssumption
    <2>. QED
      BY <1>6, <1>7, <2>1, <2>3
  <1>13. s.kind = "unpack" => Len(items) = 1
    BY <1>2, <1>6
  <1>. QED
    BY <1>4, <1>6, <1>7, <1>8, <1>9, <1>10, <1>11, <1>12, <1>13

\* A value is what a scope may read next.
MayRead(s, x) ==
    /\ x \in Plains
    /\ CASE s.kind = "unpack"  -> CanBe(s.type, x)
         [] s.kind = "entries" -> Good(s.type) /\ x.type = s.type.wire.of[1]
         [] OTHER              -> Good(Expected(s)) /\ x.type = Expected(s).wire
    /\ s.kind = "elements" => Expected(s).kind = "basic"
    /\ s.kind = "rows" => Expected(s).of[1].kind = "basic"

\* What follows in the container of an open scope is what the scope is there for.
LEMMA NextMayBeRead ==
    ASSUME NEW s, IsScope(s), s.kind # "value", s.open,
           NEW v, OpenedFor(s, v),
           NEW n, Received(s, v.items, n), n < Len(v.items)
    PROVE  MayRead(s, v.items[n + 1])
  <1>. DEFINE T == s.type
              x == v.items[n + 1]
  <1>1. n + 1 \in 1 .. Len(v.items)
    BY HeldByScope DEF Received
  <1>2. x \in Plains /\ T \in CxxTypes
    BY <1>1, HeldByScope DEF IsScope
  <1>3. CASE s.kind = "unpack"
    <2>1. n + 1 = 1
      BY <1>1, <1>3, HeldByScope
    <2>. QED
      BY <1>2, <1>3, <2>1 DEF OpenedFor, MayRead
  <1>4. CASE s.kind = "entries"
    BY <1>1, <1>2, <1>4, HeldByScope DEF OpenedFor, MayRead
  <1>5. CASE s.kind \in {"elements", "rows"}
    <2>1. Expected(s) = T.of[1] /\ x.type = T.of[1].wire /\ Good(T)
      BY <1>1, <1>5, HeldByScope DEF Expected, OpenedFor
    <2>2. Len(T.of) = 1
      BY <1>2, <1>5, TypeParts DEF IsScope
    <2>3. Good(T.of[1])
      BY <1>2, <2>1, <2>2, GoodParts
    <2>. QED
      BY <1>2, <1>5, <2>1, <2>3 DEF OpenedFor, MayRead
  <1>6. CASE s.kind \in {"fields", "entry"}
    <2>1. Len(v.items) = Len(T.of) /\ x.type = T.of[n + 1].wire /\ Good(T)
      BY <1>1, <1>6, HeldByScope DEF OpenedFor
    <2>2. Expected(s) = T.of[n + 1]
      BY <1>6 DEF Expected, Received
    <2>3. Good(T.of[n + 1])
      BY <1>1, <1>2, <2>1, GoodParts
    <2>. QED
      BY <1>2, <1>6, <2>1, <2>2, <2>3 DEF MayRead
  <1>. QED
    BY <1>3, <1>4, <1>5, <1>6 DEF IsScope, ScopeKinds

\* What is neither an array nor at its end goes on.
LEMMA MoreToRead ==
    ASSUME NEW s, IsScope(s), s.kind \in {"unpack", "fields", "entry"},
           NEW v, OpenedFor(s, v), NEW n, Received(s, v.items, n)
    PROVE  s.open <=> n < Len(v.items)
  <1>1. Len(v.items) \in Nat /\ n \in 0 .. Len(v.items) /\ Len(s.got) = n
    BY HeldByScope DEF Received
  <1>2. CASE s.kind = "unpack"
    <2>1. Len(v.items) = 1
      BY <1>2, HeldByScope
    <2>2. Len(s.got) = IF s.open THEN 0 ELSE 1
      BY <1>2 DEF IsScope
    <2>. QED
      BY <1>1, <2>1, <2>2
  <1>3. CASE s.kind \in {"fields", "entry"}
    BY <1>1, <1>3, HeldByScope DEF IsScope
  <1>. QED
    BY <1>2, <1>3

-----------------------------------------------------------------------------
(* What a scope gives. *)

\* What a scope gives when it is left: what was read from a variant, or its value.
WillGive(s, v) == IF s.kind = "unpack" THEN Content(s.type, v.items[1]) ELSE v

\* Two sequences of the same length and the same elements are the same.
LEMMA SameSeq ==
    ASSUME NEW a, IsSeq(a), NEW b, IsSeq(b), Len(a) = Len(b),
           \A i \in 1 .. Len(a) : a[i] = b[i]
    PROVE  a = b
  <1>. DEFINE S == Range(a) \cup Range(b)
  <1>1. a \in Seq(S) /\ b \in Seq(S)
    BY SeqMonotonic DEF IsSeq
  <1>. HIDE DEF S
  <1>. QED
    BY <1>1, SeqEqual

\* A scope that has received everything builds what it was opened to give.
LEMMA BuiltIsGiven ==
    ASSUME NEW s, IsScope(s), s.kind # "value", ~s.open,
           NEW v, OpenedFor(s, v), NEW n, Received(s, v.items, n)
    PROVE  BuiltBy(s) = WillGive(s, v)
  <1>1. /\ v.items \in Seq(Values) /\ Len(v.items) \in Nat
        /\ v = Value(v.type, v.items)
        /\ s.kind = "unpack" => Len(v.items) = 1
    BY HeldByScope
  <1>2. /\ n = Len(v.items) /\ Len(s.got) = n
        /\ \A i \in 1 .. n :
              s.got[i] = IF s.kind = "unpack" THEN Content(s.type, v.items[i]) ELSE v.items[i]
    BY DEF Received
  <1>3. CASE s.kind = "unpack"
    <2>1. s.got[1] = Content(s.type, v.items[1])
      BY <1>1, <1>2, <1>3
    <2>. QED
      BY <1>3, <2>1 DEF BuiltBy, WillGive
  <1>4. CASE s.kind # "unpack"
    <2>1. IsSeq(s.got) /\ IsSeq(v.items)
      BY <1>1, SeqIsSeq DEF IsScope
    <2>2. s.got = v.items
      BY <1>2, <1>4, <2>1, SameSeq
    <2>3. v.type = IF s.kind = "entry" THEN s.type.wire.of[1] ELSE s.type.wire
      BY <1>4 DEF OpenedFor
    <2>4. BuiltBy(s) = Value(v.type, s.got)
      BY <1>4, <2>3 DEF BuiltBy
    <2>. QED
      BY <1>1, <1>4, <2>2, <2>4 DEF WillGive
  <1>. QED
    BY <1>3, <1>4

\* The keys of a dictionary are all kept.
LEMMA AllEmplaced ==
    ASSUME NEW s, IsScope(s), s.kind = "entries",
           NEW v, OpenedFor(s, v), NEW n, Received(s, v.items, n), n < Len(v.items)
    PROVE  Emplace(s.got, v.items[n + 1]) = Append(s.got, v.items[n + 1])
  <1>1. Len(v.items) \in Nat /\ n \in 0 .. Len(v.items) /\ Len(s.got) = n
    BY HeldByScope DEF Received
  <1>2. \A i \in 1 .. n : s.got[i] = v.items[i]
    BY DEF Received
  <1>3. \A i, j \in 1 .. Len(v.items) : v.items[i].items[1] = v.items[j].items[1] => i = j
    BY HeldByScope
  <1>4. DOMAIN s.got = 1 .. n
    BY <1>1, IsSeqFacts DEF IsScope
  <1>5. \A i \in DOMAIN s.got : s.got[i].items[1] # v.items[n + 1].items[1]
    BY <1>1, <1>2, <1>3, <1>4
  <1>. QED
    BY <1>5 DEF Emplace

\* What a scope makes of a value that it reads, or of one that is read for it.
Made(s, x) == IF s.kind = "unpack" THEN Content(s.type, x) ELSE x

\* A scope that receives what is next has received one more.
LEMMA ReceivedNext ==
    ASSUME NEW s, IsScope(s), s.kind # "value", s.open,
           NEW v, OpenedFor(s, v),
           NEW n, Received(s, v.items, n), n < Len(v.items),
           NEW r, s.kind \in {"elements", "rows"} => r # 0
    PROVE  Received(Receives(s, r, Made(s, v.items[n + 1])), v.items, n + 1)
  <1>. DEFINE u == Made(s, v.items[n + 1])
              t == Receives(s, r, u)
              all == v.items
  <1>1. Len(all) \in Nat /\ n \in 0 .. Len(all) /\ Len(s.got) = n /\ n + 1 \in 0 .. Len(all)
    BY HeldByScope DEF Received
  <1>2. \A i \in 1 .. n : s.got[i] = Made(s, all[i])
    BY DEF Received, Made
  <1>3. IsScope(t) /\ t.kind = s.kind /\ t.type = s.type
    BY ReceivesFacts
  <1>4. t.got = Append(s.got, u)
    <2>1. s = [kind |-> s.kind, type |-> s.type, got |-> s.got, r |-> s.r, open |-> s.open]
      BY DEF IsScope
    <2>2. CASE s.kind = "unpack"
      <3>1. t.got = <<u>>
        BY <2>2, ReceivedOne
      <3>2. Len(s.got) = 0
        BY <2>2 DEF IsScope
      <3>3. s.got = <<>>
        BY <3>2, IsSeqFacts DEF IsScope
      <3>. HIDE DEF t, u
      <3>. QED
        BY <3>1, <3>3
    <2>3. CASE s.kind \in {"elements", "rows"}
      BY <2>1, <2>3 DEF Receives
    <2>4. CASE s.kind \in {"fields", "entry"}
      <3>. HIDE DEF u
      <3>. DEFINE open == Len(s.got) + 1 < Len(s.type.of)
      <3>1. t = [s EXCEPT !.got = Append(@, u), !.r = @ + r, !.open = open]
        BY <2>4 DEF Receives
      <3>. HIDE DEF open
      <3>2. [s EXCEPT !.got = Append(@, u), !.r = @ + r, !.open = open].got = Append(s.got, u)
        BY <2>1
      <3>. QED
        BY <3>1, <3>2
    <2>5. CASE s.kind = "entries"
      <3>1. u = all[n + 1]
        BY <2>5 DEF Made
      <3>2. Emplace(s.got, u) = Append(s.got, u)
        BY <2>5, <3>1, AllEmplaced
      <3>. HIDE DEF u
      <3>3. t = [s EXCEPT !.got = Emplace(@, u)]
        BY <2>5 DEF Receives
      <3>. QED
        BY <2>1, <3>2, <3>3
    <2>. QED
      BY <2>2, <2>3, <2>4, <2>5 DEF IsScope, ScopeKinds
  <1>5. IsSeq(s.got)
    BY DEF IsScope
  <1>. HIDE DEF u
  <1>6. /\ Len(t.got) = n + 1
        /\ \A i \in 1 .. n : t.got[i] = s.got[i]
        /\ t.got[n + 1] = u
    BY <1>1, <1>4, <1>5, AppendFacts
  <1>. HIDE DEF t
  <1>7. \A i \in 1 .. n + 1 : t.got[i] = Made(s, all[i])
    BY <1>1, <1>2, <1>6 DEF u
  <1>8. ~t.open => n + 1 = Len(all)
    <2>1. CASE s.kind = "unpack"
      BY <1>1, <2>1, HeldByScope
    <2>2. CASE s.kind \in {"fields", "entry"}
      <3>1. Len(all) = Len(s.type.of)
        BY <2>2, HeldByScope
      <3>2. t.open <=> Len(t.got) < Len(t.type.of)
        BY <1>3, <2>2 DEF IsScope
      <3>. QED
        BY <1>1, <1>3, <1>6, <3>1, <3>2
    <2>3. CASE s.kind \in {"elements", "rows", "entries"}
      <3>1. s = [kind |-> s.kind, type |-> s.type, got |-> s.got, r |-> s.r, open |-> s.open]
        BY DEF IsScope
      <3>2. \/ t = [s EXCEPT !.got = Append(@, u)]
            \/ t = [s EXCEPT !.got = Emplace(@, u)]
        BY <2>3 DEF Receives, t
      <3>3. t.open = s.open
        BY <3>1, <3>2
      <3>. QED
        BY <3>3
    <2>. QED
      BY <2>1, <2>2, <2>3 DEF IsScope, ScopeKinds
  <1>9. Received(t, all, n + 1)
    BY <1>1, <1>3, <1>6, <1>7, <1>8 DEF Received, Made
  <1>. QED
    BY <1>9 DEF t, u

-----------------------------------------------------------------------------
(* What a scope reads next. *)

\* A plain variant holds a plain value that is no variant.
LEMMA PlainVariant ==
    ASSUME NEW x \in Plains, x.type.kind = "variant"
    PROVE  /\ x.items[1] \in Plains /\ x.items[1].type.kind # "variant"
           /\ x = Wrapped(x.items[1]) /\ x.type = VariantType
  <1>1. x \in Values
    BY PlainsAssumption
  <1>2. /\ x = Value(x.type, x.items) /\ x.type = VariantType
        /\ x.items \in Seq(Values) /\ Len(x.items) = 1
    BY <1>1, ValuesAssumption
  <1>3. DOMAIN x.items = 1 .. 1 /\ x.items[1] \in Values
    BY <1>2, LenProperties, ElementOfSeq
  <1>4. x.items[1] \in Plains /\ x.items[1].type.kind # "variant"
    BY <1>3, PlainsAssumption
  <1>5. x.items = <<x.items[1]>>
    <2>1. <<x.items[1]>> \in Seq(Values) /\ Len(<<x.items[1]>>) = 1
      BY <1>3
    <2>. QED
      BY <1>2, <2>1, SingletonEqual
  <1>6. x = Wrapped(x.items[1])
    BY <1>2, <1>5 DEF Wrapped
  <1>. QED
    BY <1>2, <1>4, <1>6

\* The value within a wrapper.
LEMMA WrappedFacts ==
    ASSUME NEW w
    PROVE  Wrapped(w).type.kind = "variant" /\ Wrapped(w).items[1] = w
  BY DEF Wrapped, Value, VariantType, Type

\* A container that is no variant is opened for its own type.
LEMMA OpenedForContainer ==
    ASSUME NEW x \in Plains, NEW c, IsScope(c), Good(c.type),
           x.type = c.type.wire \/ c.type = Variant,
           c.kind \in {"elements", "rows", "fields", "entries"},
           c.kind = "elements" => c.type.of[1].kind # "vector"
    PROVE  OpenedFor(c, x) /\ WillGive(c, x) = x
  <1>1. /\ c.type \in CxxTypes
        /\ c.kind \in {"elements", "rows"} => c.type.kind = "vector"
        /\ c.kind = "rows" => c.type.of[1].kind = "vector"
        /\ c.type.kind \in {"vector", "tuple", "map", "dictionary"}
    BY DEF IsScope
  <1>2. c.type # Variant
    BY <1>1 DEF Variant, Cxx
  <1>3. /\ c.kind = "elements" => c.type.of[1].kind = "basic"
        /\ c.kind = "rows" => c.type.of[1].of[1].kind = "basic"
    BY <1>1, GoodParts
  <1>4. OpenedFor(c, x)
    BY <1>2, <1>3, PlainsAssumption DEF OpenedFor
  <1>. QED
    BY <1>4 DEF WillGive

\* The variant of a type that takes variants is opened for what it holds.
LEMMA OpenedForVariant ==
    ASSUME NEW x \in Plains, x.type.kind = "variant",
           NEW c, c.kind = "unpack", c.type = Variant
    PROVE  OpenedFor(c, x) /\ WillGive(c, x) = x
  <1>1. /\ x.items[1] \in Plains /\ x.items[1].type.kind # "variant"
        /\ x = Wrapped(x.items[1])
    BY PlainVariant
  <1>2. Variant.kind = "variant"
    BY DEF Variant, Cxx
  <1>3. OpenedFor(c, x)
    BY <1>1, <1>2, PlainsAssumption DEF OpenedFor, CanBe, Good
  <1>4. Content(Variant, x.items[1]) = x
    BY <1>1 DEF Content
  <1>. QED
    BY <1>3, <1>4 DEF WillGive

\* A function that a scope calls is opened for the value that follows, and will give
\* it.
LEMMA OpenedForNext ==
    ASSUME NEW s, IsScope(s), s.kind # "value", s.open, NEW x, MayRead(s, x),
           NEW c, IsScope(c), Calls(s, c), x.type.kind = FrameOf[c.kind]
    PROVE  OpenedFor(c, x) /\ WillGive(c, x) = x
  <1>1. x \in Plains /\ x \in Values
    BY PlainsAssumption DEF MayRead
  <1>. DEFINE E == Expected(s)
  <1>2. CASE s.kind = "entries"
    <2>1. c.kind = "entry" /\ c.type = s.type
      BY <1>2 DEF Calls
    <2>2. Good(s.type) /\ x.type = s.type.wire.of[1]
      BY <1>2 DEF MayRead
    <2>. QED
      BY <1>1, <2>1, <2>2 DEF OpenedFor, WillGive
  <1>3. CASE s.kind # "entries"
    <2>1. E \in CxxTypes
      BY <1>3, ExpectedIsType
    <2>2. c.type = E /\ c.kind \in {"unpack", "elements", "rows", "fields", "entries"}
      BY <1>3 DEF Calls, IsScope, ScopeKinds
    <2>3. Good(E) /\ (x.type = E.wire \/ E = Variant)
      BY <1>3 DEF MayRead, CanBe, Expected
    <2>4. CASE c.kind = "unpack"
      <3>1. x.type.kind = "variant" /\ s.kind # "unpack"
        BY <1>3, <2>4 DEF Calls, FrameOf
      <3>2. E = Variant
        <4>. HIDE DEF E
        <4>1. E.wire.kind = "variant" => E = Variant
          BY <2>1, WireKinds
        <4>. QED
          BY <2>3, <3>1, <4>1
      <3>. QED
        BY <1>1, <2>2, <2>4, <3>1, <3>2, OpenedForVariant
    <2>5. CASE c.kind # "unpack"
      <3>1. c.kind = "elements" => s.kind = "rows" \/ E.of[1].kind # "vector"
        BY <1>3, <2>2 DEF Calls
      <3>2. s.kind = "rows" => E.of[1].kind = "basic"
        BY DEF MayRead
      <3>3. c.kind = "elements" => c.type.of[1].kind # "vector"
        BY <2>2, <3>1, <3>2
      <3>. QED
        BY <1>1, <2>2, <2>3, <2>5, <3>3, OpenedForContainer
    <2>. QED
      BY <2>4, <2>5
  <1>. QED
    BY <1>2, <1>3

\* So is the first function that is called, which will give the content of what is
\* read.
LEMMA OpenedForFirst ==
    ASSUME NEW s, IsScope(s), s.kind = "value", NEW x, NEW w, Given(s.type, x, w),
           NEW c, IsScope(c), Calls(s, c), x.type.kind = FrameOf[c.kind], x \in Values
    PROVE  OpenedFor(c, x) /\ WillGive(c, x) = Content(s.type, w)
  <1>. DEFINE T == s.type
  <1>1. /\ c.type = T /\ c.kind \in {"unpack", "elements", "rows", "fields", "entries"}
        /\ c.kind = "elements" => c.type.of[1].kind # "vector"
    BY DEF Calls, Expected, IsScope, ScopeKinds
  <1>2. w \in Plains /\ Good(T) /\ (w.type = T.wire \/ T = Variant) /\ T \in CxxTypes
    BY DEF Given, CanBe, IsScope
  <1>3. CASE c.kind = "unpack"
    <2>1. x.type.kind = "variant"
      BY <1>3 DEF FrameOf
    <2>2. CASE x = Wrapped(w)
      <3>1. x.items[1] = w
        BY <2>2, WrappedFacts
      <3>. QED
        BY <1>1, <1>3, <2>1, <3>1 DEF OpenedFor, WillGive, Given
    <2>3. CASE x = w
      <3>1. T = Variant
        BY <1>2, <2>1, <2>3, WireKinds
      <3>2. OpenedFor(c, x) /\ WillGive(c, x) = x
        BY <1>1, <1>2, <1>3, <2>1, <2>3, <3>1, OpenedForVariant
      <3>. QED
        BY <2>1, <2>3, <3>2 DEF Content
    <2>. QED
      BY <2>2, <2>3 DEF Given
  <1>4. CASE c.kind # "unpack"
    <2>1. x.type.kind # "variant"
      BY <1>1, <1>4 DEF FrameOf
    <2>2. x = w
      BY <2>1, WrappedFacts DEF Given
    <2>3. OpenedFor(c, x) /\ WillGive(c, x) = x
      BY <1>1, <1>2, <1>4, <2>2, OpenedForContainer
    <2>4. T # Variant
      BY <1>1, <1>4 DEF IsScope, Variant, Cxx
    <2>. QED
      BY <2>2, <2>3, <2>4 DEF Content
  <1>. QED
    BY <1>3, <1>4

\* A proxy that needs no scope takes what is next for what it is.
LEMMA TakenIsMade ==
    ASSUME NEW s, IsScope(s), s.kind \notin {"value", "rows", "entries"}, s.open,
           NEW x, MayRead(s, x), NEW v, Takes(v, Expected(s), x)
    PROVE  v = Made(s, x)
  <1>. DEFINE E == Expected(s)
  <1>1. E \in CxxTypes
    BY ExpectedIsType
  <1>2. E.kind = "basic" => E # Variant
    BY DEF Variant, Cxx
  <1>3. CASE s.kind = "unpack"
    <2>1. s.type = E
      BY <1>3 DEF Expected
    <2>. QED
      BY <1>2, <1>3, <2>1 DEF Takes, Made, Content
  <1>4. CASE s.kind # "unpack"
    <2>1. x.type = E.wire
      BY <1>4 DEF MayRead
    <2>2. E = Variant => x.type.kind = "variant"
      BY <2>1 DEF Variant, Cxx, VariantType, Type
    <2>. QED
      BY <1>4, <2>2 DEF Takes, Made
  <1>. QED
    BY <1>3, <1>4

\* What is read without any scope is its content.
LEMMA TakenIsContent ==
    ASSUME NEW T \in CxxTypes, NEW x, NEW w, Given(T, x, w), x.type.kind # "variant",
           NEW v, Takes(v, T, x)
    PROVE  v = Content(T, w)
  <1>1. x = w
    BY WrappedFacts DEF Given
  <1>2. T.kind = "basic" => T # Variant
    BY DEF Variant, Cxx
  <1>. QED
    BY <1>1, <1>2 DEF Takes, Content

\* What is next can be read.
LEMMA NextFits ==
    ASSUME NEW s, IsScope(s), s.kind \notin {"value", "rows", "entries"}, s.open,
           NEW m, ~AtEnd(m), MayRead(s, Following(m))
    PROVE  Fits(Expected(s), m)
  <1>. DEFINE E == Expected(s)
  <1>1. E \in CxxTypes
    BY ExpectedIsType
  <1>2. Following(m).type = E.wire \/ E = Variant
    BY DEF MayRead, CanBe, Expected
  <1>3. Variant.kind = "variant"
    BY DEF Variant, Cxx
  <1>. HIDE DEF E
  <1>4. /\ E.kind = "tuple" => E.wire.kind = "struct"
        /\ E.kind \in {"vector", "map", "dictionary"} => E.wire.kind = "array"
    BY <1>1, WireKinds
  <1>5. Fits(E, m)
    BY <1>2, <1>3, <1>4 DEF Fits
  <1>. QED
    BY <1>5 DEF E

\* What is read fits its type.
LEMMA FirstFits ==
    ASSUME NEW T \in CxxTypes, NEW m, ~AtEnd(m), NEW w, Given(T, Following(m), w),
           Following(m).type.kind # "variant"
    PROVE  Fits(T, m)
  <1>1. Following(m) = w
    BY WrappedFacts DEF Given
  <1>2. Following(m).type = T.wire \/ T = Variant
    BY <1>1 DEF Given, CanBe
  <1>3. Variant.kind = "variant"
    BY DEF Variant, Cxx
  <1>. QED
    BY <1>2, <1>3, WireKinds DEF Fits

-----------------------------------------------------------------------------
(* A read that is under way. *)

\* The value of the container below that the kth scope was opened for, and how many
\* of its values that scope has received.
Here(k) == msg[k - 1].all[msg[k - 1].pos]
Taken(k) == IF k = Len(scopes) THEN msg[k].pos ELSE msg[k].pos - 1

Nested(k, w) ==
    /\ OpenedFor(scopes[k], Here(k))
    /\ msg[k].kind = Here(k).type.kind
    /\ msg[k].all = Here(k).items
    /\ Received(scopes[k], msg[k].all, Taken(k))
    /\ WillGive(scopes[k], Here(k)) = IF k = 2 THEN Content(scopes[1].type, w) ELSE Here(k)

\* What is read, after start others, is w or a variant of it, and every scope that
\* was opened has its own part of it.
Whole(start, w) ==
    /\ Len(msg) = Len(scopes)
    /\ scopes[1].kind = "value"
    /\ start < Len(msg[1].all)
    /\ Given(scopes[1].type, msg[1].all[start + 1], w)
    /\ msg[1].pos = IF Len(scopes) = 1 /\ scopes[1].open THEN start ELSE start + 1
    /\ ~scopes[1].open => scopes[1].got[1] = Content(scopes[1].type, w)
    /\ \A k \in 2 .. Len(scopes) : Nested(k, w)

\* The parts of a well formed message and of its scopes.
LEMMA ReaderFacts ==
    ASSUME ReaderInv, scopes # <<>>
    PROVE  /\ Len(scopes) \in Nat \ {0} /\ Len(msg) \in Nat \ {0}
           /\ \A k \in 1 .. Len(scopes) : IsScope(scopes[k])
           /\ \A k \in 1 .. Len(msg) :
                 /\ msg[k] \in Frames /\ msg[k].all \in Seq(Values)
                 /\ msg[k].pos \in 0 .. Len(msg[k].all) /\ Len(msg[k].all) \in Nat
           /\ \A k \in 2 .. Len(scopes) :
                 /\ scopes[k - 1].open /\ Calls(scopes[k - 1], scopes[k])
                 /\ scopes[k].kind # "value"
           /\ Innermost = scopes[Len(scopes)] /\ Top(msg) = msg[Len(msg)]
  <1>1. Len(scopes) \in Nat \ {0} /\ Len(msg) \in Nat \ {0} /\ msg \in Seq(Frames)
    BY TopIsFrame, InnermostFacts DEF ReaderInv, IsMessage
  <1>2. ASSUME NEW k \in 1 .. Len(msg)
        PROVE  /\ msg[k] \in Frames /\ msg[k].all \in Seq(Values)
               /\ msg[k].pos \in 0 .. Len(msg[k].all) /\ Len(msg[k].all) \in Nat
    <2>1. msg[k] \in Frames
      BY <1>1, ElementOfSeq
    <2>2. msg[k].all \in Seq(Values) /\ msg[k].pos \in Nat /\ msg[k].pos <= Len(msg[k].all)
      BY <2>1 DEF Frames
    <2>3. Len(msg[k].all) \in Nat
      BY <2>2, LenProperties
    <2>. QED
      BY <2>1, <2>2, <2>3
  <1>3. ASSUME NEW k \in 2 .. Len(scopes)
        PROVE  /\ scopes[k - 1].open /\ Calls(scopes[k - 1], scopes[k])
               /\ scopes[k].kind # "value"
    <2>1. k - 1 \in 1 .. Len(scopes) - 1 /\ k - 1 + 1 = k
      BY <1>1
    <2>2. scopes[k - 1].open /\ Calls(scopes[k - 1], scopes[k - 1 + 1])
      BY <2>1 DEF ReaderInv, AreScopes
    <2>. QED
      BY <2>1, <2>2 DEF Calls
  <1>. QED
    BY <1>1, <1>2, <1>3 DEF ReaderInv, AreScopes, Innermost, Top, Last

\* The scope that reads a value within what is read.
LEMMA InnerFacts ==
    ASSUME ReaderInv, scopes # <<>>, NEW start \in Nat, NEW w, Whole(start, w),
           Len(scopes) > 1
    PROVE  LET n == Len(scopes)
               v == Here(n)
               p == msg[n].pos
           IN  /\ n \in 2 .. Len(scopes) /\ n \in Nat
               /\ IsScope(Innermost) /\ Innermost.kind # "value" /\ Innermost = scopes[n]
               /\ v \in Values
               /\ OpenedFor(Innermost, v)
               /\ msg[n].all = v.items /\ msg[n].kind = FrameOf[Innermost.kind]
               /\ p \in Nat /\ Received(Innermost, v.items, p)
               /\ WillGive(Innermost, v) = IF n = 2 THEN Content(scopes[1].type, w) ELSE v
               /\ AtEnd(msg) <=> p = Len(v.items)
               /\ ~AtEnd(msg) => Following(msg) = v.items[p + 1] /\ p < Len(v.items)
               /\ ~AtEnd(msg) /\ Innermost.open => MayRead(Innermost, Following(msg))
               /\ Innermost.open /\ Innermost.kind \in {"unpack", "fields", "entry"} =>
                     ~AtEnd(msg)
               /\ AtEnd(msg) /\ Innermost.kind \in {"elements", "rows", "entries"} =>
                     AtEndOfArray(msg)
  <1>. DEFINE n == Len(scopes)
              v == Here(n)
              p == msg[n].pos
  <1>1. /\ n \in Nat \ {0} /\ n \in 2 .. Len(scopes) /\ Len(msg) = n
        /\ IsScope(Innermost) /\ Innermost.kind # "value" /\ Innermost = scopes[n]
        /\ p \in 0 .. Len(msg[n].all) /\ Len(msg[n].all) \in Nat
        /\ Top(msg) = msg[n]
    BY ReaderFacts DEF Whole
  <1>2. Nested(n, w)
    BY <1>1 DEF Whole
  <1>3. /\ OpenedFor(Innermost, v) /\ msg[n].all = v.items /\ msg[n].kind = v.type.kind
        /\ Received(Innermost, v.items, p)
        /\ WillGive(Innermost, v) = IF n = 2 THEN Content(scopes[1].type, w) ELSE v
    BY <1>1, <1>2 DEF Nested, Taken
  <1>4. v \in Values
    BY <1>3 DEF OpenedFor
  <1>5. v.type.kind = FrameOf[Innermost.kind]
    BY <1>1, <1>3, HeldByScope
  <1>6. /\ AtEnd(msg) <=> p = Len(v.items)
        /\ Following(msg) = v.items[p + 1]
        /\ p \in Nat
    BY <1>1, <1>3 DEF AtEnd, Following
  <1>7. ~AtEnd(msg) => p < Len(v.items)
    BY <1>1, <1>3, <1>6
  <1>. HIDE DEF v, p
  <1>8. ~AtEnd(msg) /\ Innermost.open => MayRead(Innermost, Following(msg))
    BY <1>1, <1>3, <1>6, <1>7, NextMayBeRead
  <1>9. Innermost.open /\ Innermost.kind \in {"unpack", "fields", "entry"} => ~AtEnd(msg)
    <2>. SUFFICES ASSUME Innermost.open, Innermost.kind \in {"unpack", "fields", "entry"}
                  PROVE  ~AtEnd(msg)
      OBVIOUS
    <2>1. p < Len(v.items)
      BY <1>1, <1>3, MoreToRead
    <2>2. Len(v.items) \in Nat
      BY <1>1, <1>3
    <2>. QED
      BY <1>6, <2>1, <2>2
  <1>10. AtEnd(msg) /\ Innermost.kind \in {"elements", "rows", "entries"} => AtEndOfArray(msg)
    BY <1>1, <1>3, <1>5 DEF AtEndOfArray, FrameOf
  <1>. QED
    BY <1>1, <1>3, <1>4, <1>5, <1>6, <1>7, <1>8, <1>9, <1>10 DEF v, p

\* The scope of message::read, before it has read anything.
LEMMA FirstFacts ==
    ASSUME ReaderInv, scopes # <<>>, NEW start \in Nat, NEW w, Whole(start, w),
           Len(scopes) = 1
    PROVE  /\ Innermost = scopes[1] /\ IsScope(Innermost) /\ Innermost.kind = "value"
           /\ Innermost.open =>
                 /\ ~AtEnd(msg) /\ Following(msg) = msg[1].all[start + 1]
                 /\ Given(Innermost.type, Following(msg), w)
                 /\ Following(msg) \in Values
  <1>1. /\ Innermost = scopes[1] /\ IsScope(Innermost) /\ Len(msg) = 1
        /\ Top(msg) = msg[1] /\ Len(msg[1].all) \in Nat
        /\ Innermost.kind = "value"
    BY ReaderFacts DEF Whole
  <1>2. ASSUME Innermost.open
        PROVE  /\ ~AtEnd(msg) /\ Following(msg) = msg[1].all[start + 1]
               /\ Given(Innermost.type, Following(msg), w)
               /\ Following(msg) \in Values
    <2>1. msg[1].pos = start /\ start < Len(msg[1].all)
      BY <1>1, <1>2 DEF Whole
    <2>2. ~AtEnd(msg) /\ Following(msg) = msg[1].all[start + 1]
      BY <1>1, <2>1 DEF AtEnd, Following
    <2>. QED
      BY <1>1, <2>2, FollowingIsValue DEF Whole, ReaderInv
  <1>. QED
    BY <1>1, <1>2

-----------------------------------------------------------------------------
(* A read that is under way goes on. *)

\* What is readable is read without an exception.
LEMMA NoThrows ==
    ASSUME ReaderInv, scopes # <<>>, NEW start \in Nat, NEW w, Whole(start, w)
    PROVE  ~Throws
  <1>. DEFINE s == Innermost
              x == Following(msg)
  <1>1. Len(scopes) \in Nat \ {0} /\ Len(msg) = Len(scopes)
    BY ReaderFacts DEF Whole
  <1>2. Len(scopes) = 1 \/ Len(scopes) > 1
    BY <1>1, OneOrMore
  <1>3. ASSUME s.open, s.kind \notin {"rows", "entries"},
               ~Fits(Expected(s), msg),
               ByProxy \/ Peek(msg) # "variant",
               AtEndOfArray(msg) => Expected(s).kind = "vector"
        PROVE  FALSE
    <2>1. CASE Len(scopes) = 1
      <3>1. /\ s.kind = "value" /\ IsScope(s) /\ ~AtEnd(msg) /\ Given(s.type, x, w)
        BY <1>3, <2>1, FirstFacts
      <3>2. ~ByProxy
        BY <3>1 DEF ByProxy
      <3>3. x.type.kind # "variant"
        BY <1>3, <3>1, <3>2 DEF Peek
      <3>4. s.type \in CxxTypes /\ Expected(s) = s.type
        BY <3>1 DEF IsScope, Expected
      <3>. QED
        BY <1>3, <3>1, <3>3, <3>4, FirstFits
    <2>2. CASE Len(scopes) > 1
      <3>1. /\ IsScope(s) /\ s.kind # "value"
            /\ ~AtEnd(msg) => MayRead(s, x)
            /\ s.kind \in {"unpack", "fields", "entry"} => ~AtEnd(msg)
            /\ AtEnd(msg) /\ s.kind = "elements" => AtEndOfArray(msg)
            /\ OpenedFor(s, Here(Len(scopes)))
        BY <1>3, <2>2, InnerFacts
      <3>2. CASE ~AtEnd(msg)
        BY <1>3, <3>1, <3>2, NextFits
      <3>3. CASE AtEnd(msg)
        <4>1. s.kind = "elements"
          BY <1>3, <3>1, <3>3 DEF IsScope, ScopeKinds
        <4>2. Expected(s).kind = "basic"
          BY <3>1, <4>1 DEF OpenedFor, Expected
        <4>. QED
          BY <1>3, <3>1, <3>3, <4>1, <4>2
      <3>. QED
        BY <3>2, <3>3
    <2>. QED
      BY <1>2, <2>1, <2>2
  <1>4. ASSUME s.open, s.kind = "entries", ~AtEndOfArray(msg), Peek(msg) # "entry"
        PROVE  FALSE
    <2>1. Len(scopes) > 1
      BY <1>2, <1>4, FirstFacts
    <2>2. IsScope(s) /\ ~AtEnd(msg) /\ MayRead(s, x)
      BY <1>4, <2>1, InnerFacts
    <2>3. x.type = s.type.wire.of[1]
      BY <1>4, <2>2 DEF MayRead
    <2>4. /\ s.type \in CxxTypes /\ s.type.kind \in {"map", "dictionary"}
      BY <1>4, <2>2 DEF IsScope
    <2>5. s.type.wire = Array(Entry(s.type.of[1].wire, s.type.of[2].wire))
      BY <2>4, WireKinds
    <2>6. \A E, F : Array(Entry(E, F)).of[1].kind = "entry"
      BY DEF Array, Entry, Type
    <2>7. x.type.kind = "entry"
      BY <2>3, <2>5, <2>6
    <2>. QED
      BY <1>4, <2>2, <2>7 DEF Peek
  <1>5. ASSUME Len(scopes) > 1, ~s.open, ~(AtEnd(msg) /\ Len(msg) > 1)
        PROVE  FALSE
    <2>. DEFINE v == Here(Len(scopes))
                p == msg[Len(scopes)].pos
    <2>1. Received(s, v.items, p) /\ (AtEnd(msg) <=> p = Len(v.items))
      BY <1>5, InnerFacts
    <2>2. AtEnd(msg)
      BY <1>5, <2>1 DEF Received
    <2>. QED
      BY <1>1, <1>5, <2>2
  <1>. QED
    BY <1>3, <1>4, <1>5 DEF Throws

\* No container of what is readable is looked for at the end of an array.
LEMMA NoPretence ==
    ASSUME ReaderInv, scopes # <<>>, NEW start \in Nat, NEW w, Whole(start, w)
    PROVE  ~Pretends
  <1>. SUFFICES ASSUME Pretends
                PROVE  FALSE
    OBVIOUS
  <1>1. PICK kind \in {"fields", "entries"}, T \in CxxTypes :
           OpensScope(kind, T) /\ AtEndOfArray(msg)
    BY DEF Pretends
  <1>. DEFINE s == Innermost
              c == Scope(kind, T)
  <1>2. /\ s.open /\ IsScope(c) /\ Calls(s, c) /\ AtEnd(msg)
        /\ c.kind = kind /\ c.type = T
    BY <1>1 DEF OpensScope, AtEndOfArray, Scope
  <1>3. Len(scopes) = 1 \/ Len(scopes) > 1
    BY ReaderFacts, OneOrMore
  <1>4. Len(scopes) > 1
    BY <1>2, <1>3, FirstFacts
  <1>5. /\ IsScope(s) /\ s.kind # "value" /\ OpenedFor(s, Here(Len(scopes)))
        /\ s.kind \notin {"unpack", "fields", "entry"}
    BY <1>2, <1>4, InnerFacts
  <1>. HIDE DEF c
  <1>6. CASE s.kind = "elements"
    <2>1. T.kind = "basic"
      BY <1>2, <1>5, <1>6 DEF OpenedFor, Calls, Expected
    <2>. QED
      BY <1>2, <2>1 DEF IsScope
  <1>7. CASE s.kind \in {"rows", "entries"}
    BY <1>2, <1>7 DEF Calls
  <1>. QED
    BY <1>5, <1>6, <1>7 DEF IsScope, ScopeKinds

\* A scope below the ones that a step changes.
LEMMA NestedKept ==
    ASSUME NEW k, NEW w, Nested(k, w),
           scopes'[k] = scopes[k], scopes'[1].type = scopes[1].type,
           msg'[k].kind = msg[k].kind, msg'[k].all = msg[k].all,
           Taken(k)' = Taken(k), Here(k)' = Here(k)
    PROVE  Nested(k, w)'
  BY DEF Nested

\* A function that enters a container is opened for the part of the value that is
\* there.
LEMMA EntersWhole ==
    ASSUME ReaderInv, scopes # <<>>, NEW start \in Nat, NEW w, Whole(start, w), Enters
    PROVE  Whole(start, w)'
  <1>. DEFINE n == Len(scopes)
              x == Following(msg)
  <1>1. PICK kind \in DOMAIN FrameOf, T \in CxxTypes :
           /\ Innermost.open /\ ~AtEnd(msg)
           /\ IsScope(Scope(kind, T)) /\ Calls(Innermost, Scope(kind, T))
           /\ x.type.kind = FrameOf[kind]
           /\ Len(msg') = Len(msg) + 1
           /\ \A i \in 1 .. Len(msg) - 1 : msg'[i] = msg[i]
           /\ msg'[Len(msg)] = [msg[Len(msg)] EXCEPT !.pos = @ + 1]
           /\ msg'[Len(msg) + 1] = Frame(FrameOf[kind], x.items)
           /\ Len(scopes') = Len(scopes) + 1
           /\ \A i \in 1 .. Len(scopes) : scopes'[i] = scopes[i]
           /\ scopes'[Len(scopes) + 1] = Scope(kind, T)
    BY EntersFacts
  <1>2. /\ n \in Nat \ {0} /\ Len(msg) = n /\ msg[n] \in Frames
        /\ Innermost = scopes[n] /\ IsScope(Innermost)
        /\ Top(msg) = msg[n]
        /\ msg[n].pos \in Nat
    BY ReaderFacts DEF Whole
  <1>. DEFINE f == [msg[n] EXCEPT !.pos = @ + 1]
              c == Scope(kind, T)
  <1>3. f.pos = msg[n].pos + 1 /\ f.all = msg[n].all /\ f.kind = msg[n].kind
    BY <1>2 DEF Frames
  <1>. HIDE DEF f
  <1>4. msg'[n].pos = msg[n].pos + 1 /\ msg'[n].all = msg[n].all /\ msg'[n].kind = msg[n].kind
    BY <1>1, <1>2, <1>3 DEF f
  <1>5. x = msg[n].all[msg[n].pos + 1] /\ x \in Values
    BY <1>1, <1>2, FollowingIsValue DEF Following, ReaderInv
  <1>6. c.kind = kind /\ c.type = T /\ c.got = <<>> /\ c.open
    BY DEF Scope
  <1>7. n = 1 \/ n > 1
    BY <1>2, OneOrMore
  <1>8. OpenedFor(c, x) /\ WillGive(c, x) = IF n = 1 THEN Content(scopes[1].type, w) ELSE x
    <2>. HIDE DEF c, x
    <2>1. CASE n = 1
      <3>1. Innermost.kind = "value" /\ Innermost = scopes[1] /\ Given(Innermost.type, x, w)
        BY <1>1, <2>1, FirstFacts DEF x
      <3>2. OpenedFor(c, x) /\ WillGive(c, x) = Content(Innermost.type, w)
        <4>1. IsScope(c) /\ Calls(Innermost, c) /\ x.type.kind = FrameOf[c.kind]
          BY <1>1, <1>6 DEF c, x
        <4>2. IsScope(Innermost) /\ x \in Values
          BY <1>2, <1>5 DEF x
        <4>. QED
          BY <3>1, <4>1, <4>2, OpenedForFirst
      <3>. QED
        BY <2>1, <3>1, <3>2
    <2>2. CASE n > 1
      <3>1. Innermost.kind # "value" /\ MayRead(Innermost, x)
        BY <1>1, <2>2, InnerFacts DEF x
      <3>2. n # 1
        BY <1>2, <2>2
      <3>3. OpenedFor(c, x) /\ WillGive(c, x) = x
        BY <1>1, <1>2, <1>6, <3>1, OpenedForNext DEF c, x
      <3>. QED
        BY <3>2, <3>3
    <2>. QED
      BY <1>7, <2>1, <2>2
  <1>9. scopes'[1] = scopes[1] /\ msg'[1].all = msg[1].all
    <2>1. CASE n = 1
      BY <1>1, <1>4, <2>1
    <2>2. CASE n > 1
      <3>1. 1 \in 1 .. n /\ 1 \in 1 .. n - 1
        BY <1>2, <2>2
      <3>. QED
        BY <1>1, <1>2, <3>1
    <2>. QED
      BY <1>7, <2>1, <2>2
  <1>10. msg'[1].pos = start + 1
    <2>1. CASE n = 1
      <3>1. scopes[1].open /\ msg[1].pos = start
        BY <1>1, <1>2, <2>1 DEF Whole
      <3>. QED
        BY <1>4, <2>1, <3>1
    <2>2. CASE n > 1
      <3>1. 1 \in 1 .. n - 1 /\ n # 1
        BY <1>2, <2>2
      <3>2. msg[1].pos = start + 1
        BY <3>1 DEF Whole
      <3>. QED
        BY <1>1, <1>2, <3>1, <3>2
    <2>. QED
      BY <1>7, <2>1, <2>2
  <1>11. ASSUME NEW k \in 2 .. n
         PROVE  Nested(k, w)'
    <2>1. k \in 1 .. n /\ k - 1 \in 1 .. n - 1 /\ k \in Nat
      BY <1>2
    <2>2. Nested(k, w)
      BY DEF Whole
    <2>3. scopes'[k] = scopes[k] /\ msg'[k - 1] = msg[k - 1]
      BY <1>1, <1>2, <2>1
    <2>4. msg'[k].kind = msg[k].kind /\ msg'[k].all = msg[k].all
      BY <1>1, <1>2, <1>4, <2>1
    <2>5. Here(k)' = Here(k)
      BY <2>3 DEF Here
    <2>6. Taken(k)' = Taken(k)
      <3>1. k # Len(scopes')
        BY <1>1, <1>2, <2>1
      <3>2. CASE k = n
        BY <1>2, <1>4, <3>1, <3>2 DEF Taken
      <3>3. CASE k # n
        <4>1. k \in 1 .. n - 1
          BY <1>2, <2>1, <3>3
        <4>2. msg'[k] = msg[k]
          BY <1>1, <1>2, <4>1
        <4>. QED
          BY <3>1, <3>3, <4>2 DEF Taken
      <3>. QED
        BY <3>2, <3>3
    <2>. QED
      BY <1>9, <2>2, <2>3, <2>4, <2>5, <2>6, NestedKept
  <1>12. ASSUME NEW k, k = n + 1
         PROVE  Nested(k, w)'
    <2>. HIDE DEF c, x
    <2>1. k - 1 = n /\ k = Len(scopes')
      BY <1>1, <1>2, <1>12
    <2>2. Here(k)' = x
      BY <1>4, <1>5, <2>1 DEF Here
    <2>3. /\ scopes'[k] = c
          /\ msg'[k].kind = x.type.kind /\ msg'[k].all = x.items
          /\ msg'[k].pos = 0
      BY <1>1, <1>2, <1>12 DEF Frame, c, x
    <2>4. Taken(k)' = 0
      BY <2>1, <2>3 DEF Taken
    <2>5. c.kind # "value" /\ IsScope(c)
      BY <1>1, <1>6 DEF FrameOf, c
    <2>6. Received(c, x.items, 0)
      <3>1. Len(x.items) \in Nat
        BY <1>8, <2>5, HeldByScope
      <3>2. Len(c.got) = 0
        BY <1>6
      <3>. QED
        BY <1>6, <3>1, <3>2 DEF Received
    <2>7. WillGive(c, x) = IF k = 2 THEN Content(scopes'[1].type, w) ELSE x
      BY <1>2, <1>8, <1>9, <1>12
    <2>. QED
      BY <1>8, <2>2, <2>3, <2>4, <2>6, <2>7 DEF Nested
  <1>13. ASSUME NEW k \in 2 .. Len(scopes')
         PROVE  Nested(k, w)'
    <2>1. k \in 2 .. n \/ k = n + 1
      BY <1>1, <1>2
    <2>. QED
      BY <1>11, <1>12, <2>1
  <1>14. Len(scopes') # 1 /\ Len(msg') = Len(scopes')
    BY <1>1, <1>2
  <1>15. scopes'[1].open
    <2>1. CASE n = 1
      BY <1>1, <1>2, <1>9, <2>1
    <2>2. CASE n > 1
      <3>1. 2 \in 2 .. n
        BY <1>2, <2>2
      <3>. QED
        BY <1>9, <3>1, ReaderFacts
    <2>. QED
      BY <1>7, <2>1, <2>2
  <1>. QED
    BY <1>9, <1>10, <1>13, <1>14, <1>15 DEF Whole

\* The scopes and containers that a step leaves alone.
LEMMA LowerKept ==
    ASSUME ReaderInv, scopes # <<>>, NEW start \in Nat, NEW w, Whole(start, w),
           NEW k \in 2 .. Len(scopes), k # Len(scopes), k # Len(scopes'),
           \A i \in 1 .. k : scopes'[i] = scopes[i] /\ msg'[i] = msg[i]
    PROVE  Nested(k, w)'
  <1>1. k \in 1 .. k /\ k - 1 \in 1 .. k /\ 1 \in 1 .. k
    BY ReaderFacts
  <1>2. /\ scopes'[k] = scopes[k] /\ scopes'[1] = scopes[1]
        /\ msg'[k] = msg[k] /\ msg'[k - 1] = msg[k - 1]
    BY <1>1
  <1>3. Taken(k)' = Taken(k) /\ Here(k)' = Here(k)
    BY <1>2 DEF Taken, Here
  <1>. QED
    BY <1>2, <1>3, NestedKept DEF Whole

\* The innermost of them has received some more.
LEMMA InnerKept ==
    ASSUME NEW k, NEW w, Nested(k, w), k = Len(scopes'),
           msg'[k - 1] = msg[k - 1],
           msg'[k].kind = msg[k].kind, msg'[k].all = msg[k].all,
           scopes'[k].kind = scopes[k].kind, scopes'[k].type = scopes[k].type,
           scopes'[1].type = scopes[1].type,
           Received(scopes'[k], msg[k].all, msg'[k].pos)
    PROVE  Nested(k, w)'
  <1>1. Here(k)' = Here(k)
    BY DEF Here
  <1>2. Taken(k)' = msg'[k].pos
    BY DEF Taken
  <1>3. OpenedFor(scopes'[k], Here(k))
    BY DEF Nested, OpenedFor
  <1>4. WillGive(scopes'[k], Here(k)) = WillGive(scopes[k], Here(k))
    BY DEF WillGive
  <1>. QED
    BY <1>1, <1>2, <1>3, <1>4 DEF Nested

\* A scope that is not left reads on, or is at its end.
LEMMA InnerWhole ==
    ASSUME ReaderInv, scopes # <<>>, NEW start \in Nat, NEW w, Whole(start, w),
           Len(scopes) > 1,
           Len(scopes') = Len(scopes), Len(msg') = Len(msg),
           \A i \in 1 .. Len(scopes) - 1 : scopes'[i] = scopes[i] /\ msg'[i] = msg[i],
           msg'[Len(scopes)].kind = msg[Len(scopes)].kind,
           msg'[Len(scopes)].all = msg[Len(scopes)].all,
           scopes'[Len(scopes)].kind = Innermost.kind,
           scopes'[Len(scopes)].type = Innermost.type,
           Received(scopes'[Len(scopes)], msg[Len(scopes)].all, msg'[Len(scopes)].pos)
    PROVE  Whole(start, w)'
  <1>1. /\ Len(scopes) \in Nat \ {0} /\ Len(msg) = Len(scopes)
        /\ Innermost = scopes[Len(scopes)]
    BY ReaderFacts DEF Whole
  <1>2. 1 \in 1 .. Len(scopes) - 1 /\ Len(scopes) # 1
    BY <1>1
  <1>3. scopes'[1] = scopes[1] /\ msg'[1] = msg[1]
    BY <1>2
  <1>4. ASSUME NEW k \in 2 .. Len(scopes')
        PROVE  Nested(k, w)'
    <2>1. Nested(k, w)
      BY DEF Whole
    <2>2. CASE k = Len(scopes)
      <3>1. k - 1 \in 1 .. Len(scopes) - 1
        BY <1>1, <2>2
      <3>2. msg'[k - 1] = msg[k - 1]
        BY <3>1
      <3>. QED
        BY <1>1, <1>3, <2>1, <2>2, <3>2, InnerKept
    <2>3. CASE k # Len(scopes)
      <3>1. \A i \in 1 .. k : i \in 1 .. Len(scopes) - 1
        BY <1>1, <2>3
      <3>2. \A i \in 1 .. k : scopes'[i] = scopes[i] /\ msg'[i] = msg[i]
        BY <3>1
      <3>. QED
        BY <2>3, <3>2, LowerKept
    <2>. QED
      BY <2>2, <2>3
  <1>. QED
    BY <1>1, <1>2, <1>3, <1>4 DEF Whole

\* A scope that has received all there is may be closed.
LEMMA ClosedAtEnd ==
    ASSUME NEW s, IsScope(s), NEW all, NEW n, Received(s, all, n), n = Len(all)
    PROVE  Received([s EXCEPT !.open = FALSE], all, n)
  <1>. DEFINE t == [s EXCEPT !.open = FALSE]
  <1>1. s = [kind |-> s.kind, type |-> s.type, got |-> s.got, r |-> s.r, open |-> s.open]
    BY DEF IsScope
  <1>2. ASSUME NEW e
        PROVE  LET u == [s EXCEPT !.open = e]
               IN  u.kind = s.kind /\ u.type = s.type /\ u.got = s.got
    BY <1>1
  <1>3. t.kind = s.kind /\ t.type = s.type /\ t.got = s.got
    BY <1>2
  <1>. HIDE DEF t
  <1>4. Received(t, all, n)
    BY <1>3 DEF Received
  <1>. QED
    BY <1>4 DEF t

\* A value that is given is the part that comes next.
LEMMA GivesWhole ==
    ASSUME ReaderInv, scopes # <<>>, NEW start \in Nat, NEW w, Whole(start, w), Gives
    PROVE  Whole(start, w)'
  <1>. DEFINE n == Len(scopes)
              x == Following(msg)
  <1>1. /\ n \in Nat \ {0} /\ Len(msg) = n /\ msg[n] \in Frames
        /\ Innermost = scopes[n] /\ IsScope(Innermost)
        /\ msg[n].pos \in Nat
    BY ReaderFacts DEF Whole
  <1>2. PICK r, v :
           /\ scopes'[n] = Receives(Innermost, r, v)
           /\ \/ /\ ~AtEnd(msg)
                 /\ msg'[n] = [msg[n] EXCEPT !.pos = @ + 1]
                 /\ Takes(v, Expected(Innermost), x)
                 /\ ByProxy \/ x.type.kind # "variant"
                 /\ Expected(Innermost).kind = "basic" => r = 1
              \/ AtEnd(msg) /\ msg' = msg /\ r = 0
    BY <1>1, GivesFacts
  <1>3. /\ Innermost.open /\ Innermost.kind \notin {"rows", "entries"}
        /\ Len(msg') = n /\ Len(scopes') = n
        /\ \A i \in 1 .. n - 1 : msg'[i] = msg[i] /\ scopes'[i] = scopes[i]
    BY <1>1, GivesFacts
  <1>4. /\ IsScope(Receives(Innermost, r, v))
        /\ Receives(Innermost, r, v).kind = Innermost.kind
        /\ Receives(Innermost, r, v).type = Innermost.type
    BY <1>1, <1>3, ReceivesFacts
  <1>. DEFINE f == [msg[n] EXCEPT !.pos = @ + 1]
  <1>5. f.pos = msg[n].pos + 1 /\ f.all = msg[n].all /\ f.kind = msg[n].kind
    BY <1>1 DEF Frames
  <1>. HIDE DEF f
  <1>6. CASE n = 1
    <2>1. /\ Innermost = scopes[1] /\ Innermost.kind = "value"
          /\ ~AtEnd(msg) /\ Given(Innermost.type, x, w)
      BY <1>3, <1>6, FirstFacts
    <2>2. ~ByProxy
      BY <2>1 DEF ByProxy
    <2>3. /\ msg'[1] = f /\ Takes(v, Innermost.type, x) /\ x.type.kind # "variant"
      BY <1>2, <1>6, <2>1, <2>2 DEF Expected, f
    <2>4. v = Content(Innermost.type, w)
      BY <1>1, <2>1, <2>3, TakenIsContent DEF IsScope
    <2>5. /\ scopes'[1].got = <<v>> /\ ~scopes'[1].open
          /\ scopes'[1].kind = "value" /\ scopes'[1].type = scopes[1].type
      BY <1>1, <1>2, <1>6, <2>1, ReceivedOne
    <2>6. msg[1].pos = start /\ msg'[1].all = msg[1].all /\ msg'[1].pos = start + 1
      BY <1>3, <1>5, <1>6, <2>1, <2>3 DEF Whole
    <2>7. scopes'[1].got[1] = Content(scopes'[1].type, w)
      BY <2>1, <2>4, <2>5
    <2>8. \A k \in 2 .. Len(scopes') : FALSE
      BY <1>3, <1>6
    <2>9. Len(msg') = Len(scopes')
      BY <1>3
    <2>. QED
      BY <2>5, <2>6, <2>7, <2>8, <2>9 DEF Whole
  <1>7. CASE n > 1
    <2>. DEFINE u == Here(n)
                p == msg[n].pos
    <2>1. /\ Innermost.kind # "value" /\ OpenedFor(Innermost, u)
          /\ msg[n].all = u.items /\ p \in Nat /\ Received(Innermost, u.items, p)
          /\ AtEnd(msg) <=> p = Len(u.items)
          /\ ~AtEnd(msg) => x = u.items[p + 1] /\ p < Len(u.items) /\ MayRead(Innermost, x)
          /\ Innermost.kind \in {"unpack", "fields", "entry"} => ~AtEnd(msg)
      BY <1>3, <1>7, InnerFacts
    <2>. HIDE DEF u, p
    <2>2. CASE ~AtEnd(msg)
      <3>1. v = Made(Innermost, x)
        BY <1>1, <1>2, <1>3, <2>1, <2>2, TakenIsMade
      <3>2. Innermost.kind \in {"elements", "rows"} => r # 0
        <4>1. Innermost.kind = "elements" => Expected(Innermost).kind = "basic"
          BY <2>1, <2>2 DEF MayRead
        <4>. QED
          BY <1>2, <1>3, <2>2, <4>1
      <3>3. Received(Receives(Innermost, r, v), u.items, p + 1)
        BY <1>1, <1>3, <2>1, <2>2, <3>1, <3>2, ReceivedNext
      <3>4. msg'[n] = f
        BY <1>2, <2>2 DEF f
      <3>5. msg'[n].kind = msg[n].kind /\ msg'[n].all = msg[n].all /\ msg'[n].pos = p + 1
        BY <1>5, <3>4 DEF p
      <3>6. Received(scopes'[n], msg[n].all, msg'[n].pos)
        BY <1>2, <2>1, <3>3, <3>5
      <3>. QED
        BY <1>1, <1>2, <1>3, <1>4, <1>7, <3>5, <3>6, InnerWhole
    <2>3. CASE AtEnd(msg)
      <3>1. Innermost.kind = "elements" /\ msg' = msg /\ r = 0
        BY <1>1, <1>2, <1>3, <2>1, <2>3 DEF IsScope, ScopeKinds
      <3>2. scopes'[n] = [Innermost EXCEPT !.open = FALSE]
        BY <1>2, <3>1 DEF Receives
      <3>3. Received([Innermost EXCEPT !.open = FALSE], u.items, p)
        BY <1>1, <2>1, <2>3, ClosedAtEnd
      <3>. QED
        BY <1>1, <1>2, <1>3, <1>4, <1>7, <2>1, <3>1, <3>2, <3>3, InnerWhole DEF p
    <2>. QED
      BY <2>2, <2>3
  <1>. QED
    BY <1>1, <1>6, <1>7, OneOrMore

\* A loop ends when everything was received.
LEMMA ClosesWhole ==
    ASSUME ReaderInv, scopes # <<>>, NEW start \in Nat, NEW w, Whole(start, w), Closes
    PROVE  Whole(start, w)'
  <1>. DEFINE n == Len(scopes)
              v == Here(n)
              p == msg[n].pos
              c == [Innermost EXCEPT !.open = FALSE]
  <1>1. /\ n \in Nat \ {0} /\ Len(msg) = n
        /\ Innermost = scopes[n] /\ IsScope(Innermost)
    BY ReaderFacts DEF Whole
  <1>2. /\ Len(scopes') = n
        /\ \A i \in 1 .. n - 1 : scopes'[i] = scopes[i]
        /\ scopes'[n] = c
        /\ msg' = msg
    BY CloseScope DEF ReaderInv, Closes, Innermost
  <1>3. /\ Innermost.open /\ Innermost.kind \in {"rows", "entries"}
        /\ AtEnd(msg) \/ (Innermost.kind = "rows" /\ Following(msg).type.kind # "array")
    BY DEF Closes
  <1>4. n > 1
    <2>1. Innermost.kind # "value"
      BY <1>3
    <2>. QED
      BY <1>1, <2>1, FirstFacts, OneOrMore
  <1>5. /\ Innermost.kind # "value"
        /\ msg[n].all = v.items /\ p \in Nat /\ Received(Innermost, v.items, p)
        /\ AtEnd(msg) <=> p = Len(v.items)
        /\ ~AtEnd(msg) => MayRead(Innermost, Following(msg))
    BY <1>3, <1>4, InnerFacts
  <1>6. AtEnd(msg)
    <2>1. ASSUME Innermost.kind = "rows", MayRead(Innermost, Following(msg))
          PROVE  Following(msg).type.kind = "array"
      <3>1. /\ Innermost.type \in CxxTypes /\ Innermost.type.kind = "vector"
            /\ Expected(Innermost) = Innermost.type.of[1]
            /\ Expected(Innermost).kind = "vector"
        BY <1>1, <2>1 DEF IsScope, Expected
      <3>2. Expected(Innermost) \in CxxTypes
        BY <1>1, <1>3, <2>1, ExpectedIsType
      <3>3. Expected(Innermost).wire.kind = "array"
        BY <3>1, <3>2, WireKinds
      <3>. QED
        BY <2>1, <3>3 DEF MayRead
    <2>. QED
      BY <1>3, <1>5, <2>1
  <1>7. c.kind = Innermost.kind /\ c.type = Innermost.type
    <2>1. Innermost = [kind |-> Innermost.kind, type |-> Innermost.type,
                       got |-> Innermost.got, r |-> Innermost.r, open |-> Innermost.open]
      BY <1>1 DEF IsScope
    <2>2. \A e : LET u == [Innermost EXCEPT !.open = e]
                 IN  u.kind = Innermost.kind /\ u.type = Innermost.type
      BY <2>1
    <2>. QED
      BY <2>2
  <1>8. Received(c, v.items, p)
    BY <1>1, <1>5, <1>6, ClosedAtEnd
  <1>. HIDE DEF v, p, c
  <1>9. Received(scopes'[n], msg[n].all, msg'[n].pos)
    BY <1>2, <1>5, <1>8 DEF p
  <1>. QED
    BY <1>1, <1>2, <1>4, <1>7, <1>9, InnerWhole

\* A function that returns gives what it was opened to give.
LEMMA LeavesWhole ==
    ASSUME ReaderInv, scopes # <<>>, NEW start \in Nat, NEW w, Whole(start, w), Leaves
    PROVE  Whole(start, w)'
  <1>. DEFINE n == Len(scopes)
              below == scopes[n - 1]
              v == Here(n)
              r == ResultOf(Innermost, msg')
  <1>1. /\ n \in Nat \ {0} /\ Len(msg) = n /\ n > 1
        /\ Innermost = scopes[n] /\ IsScope(Innermost)
        /\ ~Innermost.open /\ AtEnd(msg)
        /\ Len(msg') = n - 1 /\ Len(scopes') = n - 1
        /\ \A i \in 1 .. n - 1 : msg'[i] = msg[i]
        /\ \A i \in 1 .. n - 2 : scopes'[i] = scopes[i]
        /\ scopes'[n - 1] = Receives(below, r, BuiltBy(Innermost))
        /\ IsScope(below) /\ below.open /\ Calls(below, Innermost)
    BY ReaderFacts, LeavesFacts DEF Whole
  <1>2. /\ Innermost.kind # "value" /\ OpenedFor(Innermost, v)
        /\ Received(Innermost, v.items, msg[n].pos)
        /\ WillGive(Innermost, v) = IF n = 2 THEN Content(scopes[1].type, w) ELSE v
    BY <1>1, InnerFacts
  <1>3. BuiltBy(Innermost) = IF n = 2 THEN Content(scopes[1].type, w) ELSE v
    <2>. HIDE DEF v
    <2>1. BuiltBy(Innermost) = WillGive(Innermost, v)
      BY <1>1, <1>2, BuiltIsGiven
    <2>. QED
      BY <1>2, <2>1
  <1>4. /\ IsScope(Receives(below, r, BuiltBy(Innermost)))
        /\ Receives(below, r, BuiltBy(Innermost)).kind = below.kind
        /\ Receives(below, r, BuiltBy(Innermost)).type = below.type
    BY <1>1, ReceivesFacts
  <1>. HIDE DEF v, r
  <1>5. CASE n = 2
    <2>1. below = scopes[1] /\ scopes[1].kind = "value" /\ Len(scopes') = 1 /\ Len(msg') = 1
      BY <1>1, <1>5 DEF Whole
    <2>2. /\ scopes'[1].got = <<BuiltBy(Innermost)>> /\ ~scopes'[1].open
          /\ scopes'[1].kind = "value" /\ scopes'[1].type = scopes[1].type
      BY <1>1, <1>5, <2>1, ReceivedOne
    <2>3. scopes'[1].got[1] = Content(scopes'[1].type, w)
      BY <1>3, <1>5, <2>2
    <2>4. msg'[1] = msg[1]
      BY <1>1, <1>5
    <2>5. msg[1].pos = start + 1
      BY <1>5 DEF Whole
    <2>. QED
      BY <2>1, <2>2, <2>3, <2>4, <2>5 DEF Whole
  <1>6. CASE n > 2
    <2>. DEFINE j == n - 1
                q == msg[j].pos - 1
    <2>1. /\ j \in Nat /\ j \in 2 .. n /\ j \in 1 .. n /\ j # n /\ j = Len(scopes')
          /\ below.kind # "value" /\ msg[j].pos \in Nat
      BY <1>1, <1>6, ReaderFacts
    <2>2. Nested(j, w)
      BY <2>1 DEF Whole
    <2>. DEFINE u == Here(j)
    <2>3. /\ OpenedFor(below, u) /\ msg[j].all = u.items
          /\ Received(below, u.items, q)
      BY <2>1, <2>2 DEF Nested, Taken
    <2>4. q \in Nat /\ msg[j].pos = q + 1 /\ msg[j].pos <= Len(u.items) /\ Len(u.items) \in Nat
      <3>1. msg[j].pos \in 0 .. Len(msg[j].all) /\ Len(msg[j].all) \in Nat
        BY <1>1, <2>1, ReaderFacts
      <3>2. q \in 0 .. Len(u.items)
        BY <2>3 DEF Received
      <3>. QED
        BY <2>3, <3>1, <3>2
    <2>5. v = u.items[q + 1]
      BY <2>3, <2>4 DEF v, Here
    <2>. HIDE DEF u, q
    <2>6. q < Len(u.items)
      BY <2>4
    <2>7. MayRead(below, v)
      BY <1>1, <2>1, <2>3, <2>5, <2>6, NextMayBeRead
    <2>8. Made(below, v) = v
      <3>1. CASE below.kind = "unpack"
        <4>1. Innermost.type = below.type /\ Innermost.kind \notin {"unpack", "entry", "value"}
          BY <1>1, <3>1 DEF Calls, Expected
        <4>2. below.type # Variant
          BY <1>1, <4>1 DEF IsScope, ScopeKinds, Variant, Cxx
        <4>. QED
          BY <4>2 DEF Made, Content
      <3>. QED
        BY <3>1 DEF Made
    <2>9. below.kind \in {"elements", "rows"} => r # 0
      <3>1. CASE below.kind = "rows"
        <4>1. Innermost.kind = "elements"
          BY <1>1, <3>1 DEF Calls
        <4>2. r = 1
          BY <4>1 DEF r, ResultOf
        <4>. QED
          BY <4>2
      <3>2. CASE below.kind = "elements"
        <4>1. Expected(below).kind = "basic" /\ v.type = Expected(below).wire
          BY <2>7, <3>2 DEF MayRead
        <4>2. Innermost.type = Expected(below) /\ Innermost.kind \notin {"value", "entry"}
          BY <1>1, <3>2 DEF Calls
        <4>3. Innermost.kind = "unpack"
          BY <1>1, <4>1, <4>2 DEF IsScope, ScopeKinds
        <4>4. v.type.kind = "variant"
          BY <1>2, <4>3 DEF OpenedFor
        <4>5. Innermost.type \in CxxTypes
          BY <1>1 DEF IsScope
        <4>. QED
          BY <4>1, <4>2, <4>4, <4>5, WireKinds
      <3>. QED
        BY <3>1, <3>2
    <2>10. BuiltBy(Innermost) = v
      BY <1>1, <1>3, <1>6
    <2>11. Received(Receives(below, r, v), u.items, q + 1)
      BY <1>1, <2>1, <2>3, <2>5, <2>6, <2>8, <2>9, ReceivedNext
    <2>12. /\ scopes'[j] = Receives(below, r, v)
           /\ scopes'[j].kind = scopes[j].kind /\ scopes'[j].type = scopes[j].type
      BY <1>1, <1>4, <2>10
    <2>13. msg'[j] = msg[j] /\ msg'[j - 1] = msg[j - 1] /\ msg'[1] = msg[1]
      BY <1>1, <1>6
    <2>14. scopes'[1] = scopes[1]
      BY <1>1, <1>6
    <2>15. Received(scopes'[j], msg[j].all, msg'[j].pos)
      BY <2>3, <2>4, <2>11, <2>12, <2>13
    <2>16. ASSUME NEW k \in 2 .. Len(scopes')
           PROVE  Nested(k, w)'
      <3>. HIDE DEF j
      <3>1. CASE k = j
        BY <2>1, <2>2, <2>12, <2>13, <2>14, <2>15, <3>1, InnerKept
      <3>2. CASE k # j
        <4>1. k \in 2 .. n /\ k # n /\ k # Len(scopes')
          BY <1>1, <2>1, <3>2 DEF j
        <4>2. \A i \in 1 .. k : i \in 1 .. n - 2 /\ i \in 1 .. n - 1
          BY <1>1, <2>1, <3>2 DEF j
        <4>3. \A i \in 1 .. k : scopes'[i] = scopes[i] /\ msg'[i] = msg[i]
          BY <1>1, <4>2
        <4>. QED
          BY <4>1, <4>3, LowerKept
      <3>. QED
        BY <3>1, <3>2
    <2>17. Len(scopes') # 1 /\ Len(scopes) # 1 /\ Len(msg') = Len(scopes')
      BY <1>1, <1>6
    <2>. HIDE DEF j
    <2>. QED
      BY <2>13, <2>14, <2>16, <2>17 DEF Whole
  <1>7. n = 2 \/ n > 2
    BY <1>1
  <1>. QED
    BY <1>5, <1>6, <1>7

\* Every step of a read leaves it whole.
LEMMA WholeKept ==
    ASSUME ReaderInv, scopes # <<>>, StepOrStutter,
           NEW start \in Nat, NEW w, Whole(start, w)
    PROVE  Whole(start, w)'
  <1>1. CASE UNCHANGED <<msg, scopes>>
    BY <1>1 DEF Whole, Nested, Taken, Here
  <1>. QED
    BY <1>1, EntersWhole, NoPretence, GivesWhole, ClosesWhole, LeavesWhole
    DEF StepOrStutter

\* A read begins whole.
LEMMA WholeBegins ==
    ASSUME NEW T \in CxxTypes, NEW m, IsMessage(m), Len(m) = 1, BeginRead(T, m),
           m[1].pos < Len(m[1].all), NEW w, Given(T, m[1].all[m[1].pos + 1], w)
    PROVE  Whole(m[1].pos, w)'
  <1>1. /\ msg' = m /\ Len(scopes') = 1
        /\ scopes'[1].kind = "value" /\ scopes'[1].type = T /\ scopes'[1].open
    BY BeginReadFacts
  <1>. QED
    BY <1>1 DEF Whole

\* What a read ends with.
LEMMA WholeEnds ==
    ASSUME ReaderInv, scopes # <<>>, Finished, NEW start \in Nat, NEW w, Whole(start, w)
    PROVE  scopes[1].got = <<Content(scopes[1].type, w)>>
  <1>1. Len(scopes) = 1 /\ ~scopes[1].open /\ IsScope(scopes[1]) /\ scopes[1].kind = "value"
    BY ReaderFacts DEF Finished, Whole
  <1>2. IsSeq(scopes[1].got) /\ Len(scopes[1].got) = 1
    BY <1>1 DEF IsScope
  <1>3. scopes[1].got[1] = Content(scopes[1].type, w)
    BY <1>1 DEF Whole
  <1>. DEFINE c == Content(scopes[1].type, w)
  <1>. HIDE DEF c
  <1>4. IsSeq(<<c>>) /\ Len(<<c>>) = 1 /\ <<c>>[1] = c
    <2>1. <<c>> \in Seq({c}) /\ Len(<<c>>) = 1 /\ <<c>>[1] = c
      OBVIOUS
    <2>. QED
      BY <2>1, SeqIsSeq
  <1>5. scopes[1].got = <<c>>
    BY <1>2, <1>3, <1>4, SameSeq DEF c
  <1>. QED
    BY <1>5 DEF c

-----------------------------------------------------------------------------
(* Exceptions. *)

\* What a scope receives changes it.
LEMMA ReceivesChanges ==
    ASSUME NEW s, IsScope(s), s.open, s.kind # "entries", NEW r, NEW v
    PROVE  Receives(s, r, v) # s
  <1>. DEFINE t == Receives(s, r, v)
  <1>1. s = [kind |-> s.kind, type |-> s.type, got |-> s.got, r |-> s.r, open |-> s.open]
    BY DEF IsScope
  <1>2. Len(Append(s.got, v)) # Len(s.got)
    BY AppendFacts, IsSeqFacts DEF IsScope
  <1>3. CASE s.kind \in {"value", "unpack"}
    BY <1>3, ReceivedOne
  <1>4. CASE s.kind \in {"elements", "rows"}
    <2>1. CASE r = 0
      <3>1. t = [s EXCEPT !.open = FALSE]
        BY <1>4, <2>1 DEF Receives
      <3>2. \A e : [s EXCEPT !.open = e].open = e
        BY <1>1
      <3>. QED
        BY <3>1, <3>2
    <2>2. CASE r # 0
      <3>1. t = [s EXCEPT !.got = Append(@, v)]
        BY <1>4, <2>2 DEF Receives
      <3>2. t.got = Append(s.got, v)
        BY <1>1, <3>1
      <3>. QED
        BY <1>2, <3>2
    <2>. QED
      BY <2>1, <2>2
  <1>5. CASE s.kind \in {"fields", "entry"}
    <2>. DEFINE open == Len(s.got) + 1 < Len(s.type.of)
    <2>1. t = [s EXCEPT !.got = Append(@, v), !.r = @ + r, !.open = open]
      BY <1>5 DEF Receives
    <2>. HIDE DEF open
    <2>2. t.got = Append(s.got, v)
      BY <1>1, <2>1
    <2>. QED
      BY <1>2, <2>2
  <1>. QED
    BY <1>3, <1>4, <1>5 DEF IsScope, ScopeKinds

\* An exception leaves the message and the scopes where they are.
LEMMA ThrownAlone ==
    ASSUME ReaderStep, reader' = "threw"
    PROVE  UNCHANGED <<msg, scopes>>
  <1>1. CASE UnpackVariant
    BY <1>1 DEF UnpackVariant, InScope, Open
  <1>2. CASE ReadBasic
    BY <1>2 DEF ReadBasic, Reads, InScope, Throw, Give
  <1>3. CASE ReadVariant
    BY <1>3 DEF ReadVariant, Reads, InScope, Give
  <1>4. CASE OpenVector
    BY <1>4 DEF OpenVector, Reads, InScope, Throw, Open
  <1>5. CASE OpenTuple
    BY <1>5 DEF OpenTuple, Reads, InScope, Throw, Open
  <1>6. CASE OpenMap
    BY <1>6 DEF OpenMap, Reads, InScope, Throw, Open
  <1>7. CASE OpenRow
    BY <1>7 DEF OpenRow, InScope, CloseInnermost, Open
  <1>8. CASE OpenEntry
    BY <1>8 DEF OpenEntry, InScope, CloseInnermost, Throw, Open
  <1>9. CASE LeaveScope
    BY <1>9 DEF LeaveScope, Throw
  <1>. QED
    BY <1>1, <1>2, <1>3, <1>4, <1>5, <1>6, <1>7, <1>8, <1>9 DEF ReaderStep

\* A reader that throws does so for one of the reasons of Throws.
LEMMA ThrowsOnly ==
    ASSUME ReaderInv, scopes # <<>>, ReaderStep, reader' = "threw"
    PROVE  Throws
  <1>1. /\ scopes' = scopes /\ msg' = msg
        /\ Len(scopes) \in Nat \ {0} /\ Len(msg) \in Nat \ {0}
        /\ Innermost = scopes[Len(scopes)] /\ IsScope(Innermost)
    BY ThrownAlone, ReaderFacts
  <1>2. ~Enters
    <2>1. Enters => Len(msg') = Len(msg) + 1
      BY EntersFacts
    <2>. QED
      BY <1>1, <2>1
  <1>3. ~Pretends
    <2>1. Pretends => Len(scopes') = Len(scopes) + 1
      BY OpensScopeFacts DEF Pretends
    <2>. QED
      BY <1>1, <2>1
  <1>4. ~Leaves
    <2>1. Leaves => Len(msg') = Len(msg) - 1
      BY LeavesFacts
    <2>. QED
      BY <1>1, <2>1
  <1>5. ~Gives
    <2>. SUFFICES ASSUME Gives
                  PROVE  FALSE
      OBVIOUS
    <2>1. PICK r, v : scopes'[Len(scopes)] = Receives(Innermost, r, v)
      BY GivesFacts
    <2>2. Innermost.open /\ Innermost.kind # "entries"
      BY DEF Gives
    <2>. QED
      BY <1>1, <2>1, <2>2, ReceivesChanges
  <1>6. ~Closes
    <2>. SUFFICES ASSUME Closes
                  PROVE  FALSE
      OBVIOUS
    <2>1. scopes'[Len(scopes)] = [Innermost EXCEPT !.open = FALSE]
      BY CloseScope DEF ReaderInv, Closes, Innermost
    <2>2. \A e : [Innermost EXCEPT !.open = e].open = e
      BY <1>1 DEF IsScope
    <2>. QED
      BY <1>1, <2>1, <2>2 DEF Closes
  <1>. QED
    BY <1>2, <1>3, <1>4, <1>5, <1>6, StepKinds DEF Crashes

\* A reader of what is readable crashes only at the end of an array of strings.
LEMMA CrashesOnly ==
    ASSUME ReaderInv, scopes # <<>>, NEW start \in Nat, NEW w, Whole(start, w),
           ReaderStep, reader' = "crashed"
    PROVE  EndsStrings'
  <1>1. reader = "fine"
    BY ReadingGoesOn
  <1>2. ReadBasic
    <2>1. ~UnpackVariant
      BY <1>1 DEF UnpackVariant, Open
    <2>2. ~ReadVariant
      BY <1>1 DEF ReadVariant, Give
    <2>3. ~OpenVector /\ ~OpenTuple /\ ~OpenMap
      BY <1>1 DEF OpenVector, OpenTuple, OpenMap, Throw, Open
    <2>4. ~OpenRow
      BY <1>1 DEF OpenRow, CloseInnermost, Open
    <2>5. ~OpenEntry
      BY <1>1 DEF OpenEntry, CloseInnermost, Throw, Open
    <2>6. ~LeaveScope
      BY <1>1 DEF LeaveScope, Throw
    <2>. QED
      BY <2>1, <2>2, <2>3, <2>4, <2>5, <2>6 DEF ReaderStep
  <1>. DEFINE char == Wanted.wire.char
              result == SdReadBasic(msg, char)
  <1>3. /\ Innermost.open
        /\ Innermost.kind \in {"value", "unpack", "elements", "fields", "entry"}
        /\ result.r = 0 /\ char \in PointerChars /\ UNCHANGED <<msg, scopes>>
    BY <1>1, <1>2 DEF ReadBasic, Reads, InScope, Throw, Give
  <1>4. AtEndOfArray(msg)
    BY <1>3 DEF SdReadBasic, Result
  <1>5. Innermost.kind = "elements"
    <2>1. AtEnd(msg) /\ (Len(scopes) = 1 \/ Len(scopes) > 1)
      BY <1>4, ReaderFacts, OneOrMore DEF AtEndOfArray
    <2>2. Len(scopes) > 1
      BY <1>3, <2>1, FirstFacts
    <2>3. Innermost.kind # "value" /\ Innermost.kind \notin {"unpack", "fields", "entry"}
      BY <1>3, <2>1, <2>2, InnerFacts
    <2>. QED
      BY <1>3, <2>3
  <1>6. EndsStrings
    BY <1>3, <1>4, <1>5 DEF EndsStrings
  <1>. QED
    BY <1>3, <1>6 DEF EndsStrings, Innermost, Wanted, AtEndOfArray, AtEnd, Top

\* Whoever reads something readable reads on, or crashes at the end of an array of
\* strings.
ReadsFine == reader = "fine" \/ (reader = "crashed" /\ EndsStrings)

-----------------------------------------------------------------------------
(* What a handler is called with. *)

\* Every variant is a wrapped value.
LEMMA VariantIsWrapped ==
    ASSUME NEW v \in Values, v.type.kind = "variant"
    PROVE  v = Wrapped(v.items[1])
  <1>1. /\ v = Value(v.type, v.items) /\ v.type = VariantType
        /\ v.items \in Seq(Values) /\ Len(v.items) = 1
    BY ValuesAssumption
  <1>2. v.items[1] \in Values
    BY <1>1, ElementOfSeq
  <1>3. v.items = <<v.items[1]>>
    <2>1. <<v.items[1]>> \in Seq(Values) /\ Len(<<v.items[1]>>) = 1
      BY <1>2
    <2>. QED
      BY <1>1, <2>1, SingletonEqual
  <1>. QED
    BY <1>1, <1>3 DEF Wrapped

\* What an author declares, of what is readable and simple, can be read.
LEMMA DeclaredIsGiven ==
    ASSUME NEW T \in Readables, NEW v \in Values, Declares(T, v), Simple(v)
    PROVE  \E w : Given(T, v, w)
  <1>. DEFINE u == v.items[1]
  <1>1. T \in CxxTypes /\ Good(T)
    BY ReadablesAssumption DEF Good
  <1>2. VariantType.kind = "variant"
    BY DEF VariantType, Type
  <1>3. v.type.kind = "variant" => v = Wrapped(u)
    BY VariantIsWrapped
  <1>4. v.type.kind = "variant" => u \in Plains
    BY PlainVariant DEF Simple
  <1>5. CASE v.type = VariantType /\ u.type = T.wire
    <2>1. Given(T, v, u)
      BY <1>1, <1>2, <1>3, <1>4, <1>5 DEF Given, CanBe
    <2>. QED
      BY <2>1
  <1>6. CASE v \in Plains /\ (v.type = T.wire \/ T = Variant)
    <2>1. Given(T, v, v)
      BY <1>1, <1>6 DEF Given, CanBe
    <2>. QED
      BY <2>1
  <1>7. CASE v \notin Plains /\ (v.type = T.wire \/ T = Variant)
    <2>1. v.type.kind = "variant"
      BY <1>7 DEF Simple
    <2>2. T = Variant
      BY <1>1, <1>7, <2>1, WireKinds
    <2>3. Given(T, v, u)
      BY <1>1, <1>3, <1>4, <2>1, <2>2 DEF Given, CanBe
    <2>. QED
      BY <2>3
  <1>. QED
    BY <1>5, <1>6, <1>7 DEF Declares

\* What a read gives is what came in, but for a variant it is wrapped in.
LEMMA ContentSaysTheSame ==
    ASSUME NEW T, NEW v, NEW w, Given(T, v, w)
    PROVE  SaysTheSame(Content(T, w), v)
  BY DEF Given, Content, SaysTheSame

\* Parameters are read in the order they came in.
LEMMA OrderedTurn ==
    ASSUME delivery \in Deliveries, Ordered,
           NEW n \in 0 .. Len(delivery.body), n < Len(delivery.body)
    PROVE  Turn(n) = n + 1
  <1>1. Len(delivery.body) \in Nat
    BY DeliveryFacts
  <1>2. CASE order = "leftToRight"
    BY <1>2 DEF Turn
  <1>3. CASE order # "leftToRight"
    <2>. DEFINE k == Len(delivery.body)
    <2>1. k <= 1
      BY <1>3 DEF Ordered
    <2>2. k \in Nat /\ n \in 0 .. k /\ n < k
      BY <1>1
    <2>. HIDE DEF k
    <2>3. n = 0 /\ k = 1
      BY <2>1, <2>2
    <2>. USE DEF k
    <2>. QED
      BY <1>3, <2>3 DEF Turn
  <1>. QED
    BY <1>2, <1>3

\* Nobody reads before the next read begins.
Idle == scopes = <<>> => reader = "fine"

\* The hypotheses of ReadableParametersArrive.
Readably ==
    /\ writer = "author" /\ Ordered
    /\ \A i \in Parameters : declared[i] \in Readables /\ Simple(delivery.body[i])

Arriving ==
    /\ writer = "author" => declared = delivery.declared /\ at # "generate"
    /\ Readably =>
          /\ at = "read" => ReadsFine
          /\ at = "read" /\ scopes # <<>> => \E w : Whole(read, w)
          /\ \A i \in 1 .. read : SaysTheSame(args[i], delivery.body[i])

\* The hypotheses of VariantsAreRereadable.
Rereads ==
    /\ loading # NoHolder /\ Known(loading)
    /\ scopes[1].type \in Readables
    /\ truth[loading] \in Plains /\ scopes[1].type.wire = truth[loading].type

Rereading ==
    Rereads => reader # "threw" /\ \E w : w = truth[loading] /\ Whole(0, w)

Whereabouts == Idle /\ Arriving /\ Rereading

\* An action that reads nothing, and no parameter.
LEMMA ArrivingKept ==
    ASSUME Arriving, UNCHANGED <<incoming, parameters>>,
           at = "handler" \/ UNCHANGED readerVars
    PROVE  Arriving'
  <1>1. /\ writer' = writer /\ declared' = declared /\ delivery' = delivery
        /\ order' = order /\ at' = at /\ args' = args /\ read' = read
    BY DEF incoming, parameters
  <1>2. Readably' = Readably
    BY <1>1 DEF Readably, Ordered, Parameters
  <1>3. CASE at = "handler"
    BY <1>1, <1>2, <1>3 DEF Arriving
  <1>4. CASE UNCHANGED readerVars
    <2>1. msg' = msg /\ scopes' = scopes /\ reader' = reader
      BY <1>4 DEF readerVars
    <2>2. \A w : Whole(read, w)' = Whole(read, w)
      BY <1>1, <2>1 DEF Whole, Nested, Taken, Here
    <2>3. ReadsFine' = ReadsFine
      BY <2>1 DEF ReadsFine, EndsStrings, Innermost, Wanted, AtEndOfArray, AtEnd, Top
    <2>. QED
      BY <1>1, <1>2, <2>1, <2>2, <2>3 DEF Arriving
  <1>. QED
    BY <1>3, <1>4

\* A parameter that begins to be read has its value before it.
LEMMA BeginParameterArriving ==
    ASSUME Inv, Idle, Arriving, BeginParameter
    PROVE  Arriving'
  <1>1. /\ at = "read" /\ read < Len(delivery.body) /\ reader = "fine"
        /\ BeginRead(declared[Turn(read)], msg) /\ scopes = <<>>
        /\ UNCHANGED <<incoming, parameters, variants>>
    BY DEF BeginParameter, BeginRead
  <1>2. /\ declared \in Seq(CxxTypes) /\ Len(declared) = Len(delivery.body)
        /\ delivery \in Deliveries /\ read \in 0 .. Len(delivery.body)
        /\ IsMessage(msg) /\ Len(msg) = 1 /\ msg[1].pos = read
        /\ msg[1].all = delivery.body
    BY <1>1 DEF Inv, Incoming, Arguments, Reader, ReaderInv, Reading
  <1>3. /\ writer' = writer /\ declared' = declared /\ delivery' = delivery
        /\ order' = order /\ at' = at /\ args' = args /\ read' = read
    BY <1>1 DEF incoming, parameters
  <1>4. /\ reader' = reader /\ msg' = msg /\ Len(scopes') = 1
        /\ scopes' = <<Scope("value", declared[Turn(read)])>>
    BY <1>1 DEF BeginRead
  <1>5. Readably' = Readably
    BY <1>3 DEF Readably, Ordered, Parameters
  <1>. SUFFICES ASSUME Readably
                PROVE  \E w : Whole(read, w)'
    BY <1>1, <1>3, <1>4, <1>5 DEF Arriving, ReadsFine
  <1>6. Turn(read) = read + 1
    BY <1>1, <1>2, OrderedTurn DEF Readably
  <1>. DEFINE t == read + 1
              T == declared[t]
              v == delivery.body[t]
  <1>7. t \in Parameters /\ t \in 1 .. Len(delivery.body) /\ read \in Nat
    BY <1>1, <1>2, DeliveryFacts
  <1>8. T \in Readables /\ Simple(v) /\ declared = delivery.declared
    BY <1>7 DEF Readably, Arriving
  <1>9. v \in Values /\ Declares(T, v)
    BY <1>2, <1>7, <1>8, DeliveryFacts, ElementOfSeq, MessagesAssumption DEF Parameters
  <1>10. PICK w : Given(T, v, w)
    BY <1>8, <1>9, DeclaredIsGiven
  <1>11. Len(scopes') = 1 /\ scopes'[1] = Scope("value", T)
    BY <1>4, <1>6
  <1>12. scopes'[1].kind = "value" /\ scopes'[1].type = T /\ scopes'[1].open
    BY <1>11 DEF Scope
  <1>13. /\ Len(msg') = 1 /\ msg'[1].pos = read' /\ read' < Len(msg'[1].all)
         /\ msg'[1].all[read' + 1] = v
    BY <1>1, <1>2, <1>3, <1>4
  <1>14. \A k \in 2 .. Len(scopes') : FALSE
    BY <1>11
  <1>. HIDE DEF T, v
  <1>15. Whole(read, w)'
    BY <1>10, <1>11, <1>12, <1>13, <1>14 DEF Whole
  <1>. QED
    BY <1>15

\* A parameter that was read is what came in.
LEMMA EndParameterArriving ==
    ASSUME Inv, Arriving, EndParameter
    PROVE  Arriving'
  <1>1. /\ at = "read" /\ Finished /\ Len(scopes) = 1 /\ reader = "fine"
        /\ args' = [args EXCEPT ![Turn(read)] = scopes[1].got[1]]
        /\ read' = read + 1 /\ scopes' = <<>>
        /\ UNCHANGED <<incoming, at, reader>>
    BY DEF EndParameter, Finished
  <1>2. scopes # <<>>
    BY <1>1
  <1>3. /\ ReaderInv /\ delivery \in Deliveries /\ read < Len(delivery.body)
        /\ msg[1].all = delivery.body
        /\ read \in 0 .. Len(delivery.body) /\ read \in Nat /\ DOMAIN args = Parameters
    BY <1>1, <1>2 DEF Inv, Incoming, Arguments, Reader, Reading
  <1>4. /\ writer' = writer /\ declared' = declared /\ delivery' = delivery
        /\ order' = order /\ at' = at /\ reader' = reader
    BY <1>1 DEF incoming
  <1>5. Readably' = Readably
    BY <1>4 DEF Readably, Ordered, Parameters
  <1>. SUFFICES ASSUME Readably, NEW i \in 1 .. read'
                PROVE  SaysTheSame(args[i], delivery.body[i])'
    BY <1>1, <1>4, <1>5 DEF Arriving, ReadsFine
  <1>6. Turn(read) = read + 1
    BY <1>3, OrderedTurn DEF Readably
  <1>7. read + 1 \in DOMAIN args /\ \A j \in 1 .. read : j \in DOMAIN args
    BY <1>3, DeliveryFacts
  <1>8. CASE i = read + 1
    <2>1. PICK w : Whole(read, w)
      BY <1>1, <1>2 DEF Arriving
    <2>2. scopes[1].got = <<Content(scopes[1].type, w)>>
      BY <1>1, <1>2, <1>3, <2>1, WholeEnds
    <2>3. Given(scopes[1].type, delivery.body[i], w)
      BY <1>3, <1>8, <2>1 DEF Whole
    <2>4. args'[i] = Content(scopes[1].type, w)
      BY <1>1, <1>6, <1>7, <1>8, <2>2
    <2>. QED
      BY <1>4, <2>3, <2>4, ContentSaysTheSame
  <1>9. CASE i # read + 1
    <2>1. i \in 1 .. read
      BY <1>1, <1>3, <1>9
    <2>2. args'[i] = args[i]
      BY <1>1, <1>6, <1>7, <1>9, <2>1
    <2>. QED
      BY <1>4, <2>1, <2>2 DEF Arriving
  <1>. QED
    BY <1>8, <1>9

\* The handler is called with what was read.
LEMMA CallHandlerArriving ==
    ASSUME Arriving, CallHandler
    PROVE  Arriving'
  <1>1. /\ at' = "handler" /\ read' = read /\ args' = args
        /\ writer' = writer /\ declared' = declared /\ delivery' = delivery
        /\ order' = order
    BY DEF CallHandler, incoming
  <1>2. Readably' = Readably
    BY <1>1 DEF Readably, Ordered, Parameters
  <1>. QED
    BY <1>1, <1>2 DEF Arriving

\* Nothing is said of generated handlers.
LEMMA GenerateArriving ==
    ASSUME Arriving, Generate
    PROVE  Arriving'
  <1>1. writer # "author" /\ writer' = writer
    BY DEF Arriving, Generate
  <1>. QED
    BY <1>1 DEF Arriving, Readably

\* A read that is whole goes on whole, and throws nothing.
LEMMA ReadOnWhole ==
    ASSUME Inv, ReadOn, NEW start \in Nat, NEW w, Whole(start, w)
    PROVE  Whole(start, w)' /\ reader' # "threw" /\ ReadsFine'
  <1>1. ReaderStep
    BY DEF ReadOn
  <1>2. ReaderInv /\ scopes # <<>> /\ StepOrStutter
    BY <1>1, ReadingGoesOn, ReaderKept DEF Inv, Reader
  <1>3. Whole(start, w)' /\ reader' # "threw"
    BY <1>1, <1>2, WholeKept, NoThrows, ThrowsOnly
  <1>4. reader' \in {"fine", "threw", "crashed"}
    BY <1>1, <1>2, ReadingGoesOn
  <1>5. reader' = "crashed" => EndsStrings'
    BY <1>1, <1>2, CrashesOnly
  <1>. QED
    BY <1>3, <1>4, <1>5 DEF ReadsFine

\* A parameter goes on being read whole.
LEMMA ReadOnArriving ==
    ASSUME Inv, Arriving, ReadOn
    PROVE  Arriving'
  <1>1. /\ writer' = writer /\ declared' = declared /\ delivery' = delivery
        /\ order' = order /\ at' = at /\ args' = args /\ read' = read
    BY DEF ReadOn, incoming, parameters
  <1>2. Readably' = Readably
    BY <1>1 DEF Readably, Ordered, Parameters
  <1>3. scopes # <<>>
    BY ReadingGoesOn DEF ReadOn, Inv, Reader
  <1>4. ASSUME Readably, at = "read"
        PROVE  ReadsFine' /\ \E w : Whole(read, w)'
    <2>1. PICK w : Whole(read, w)
      BY <1>3, <1>4 DEF Arriving
    <2>2. PICK start \in Nat : start = read
      BY DeliveryFacts DEF Inv, Incoming, Arguments
    <2>3. Whole(start, w)
      BY <2>1, <2>2
    <2>4. Whole(start, w)' /\ ReadsFine'
      BY <2>3, ReadOnWhole
    <2>5. Whole(start, w)' => Whole(read, w)'
      BY <1>1, <2>2 DEF Whole
    <2>. QED
      BY <2>4, <2>5
  <1>. QED
    BY <1>1, <1>2, <1>4 DEF Arriving

\* Every step keeps what is said of the parameters.
LEMMA NextArriving ==
    ASSUME Inv, Idle, Arriving, [Next]_vars
    PROVE  Arriving'
  <1>1. CASE UNCHANGED vars
    BY <1>1, ArrivingKept DEF vars
  <1>2. CASE Generate
    BY <1>2, GenerateArriving
  <1>3. CASE BeginParameter
    BY <1>3, BeginParameterArriving
  <1>4. CASE EndParameter
    BY <1>4, EndParameterArriving
  <1>5. CASE CallHandler
    BY <1>5, CallHandlerArriving
  <1>6. CASE ReadOn
    BY <1>6, ReadOnArriving
  <1>7. CASE EndLoad \/ LoadThrows
    <2>1. loading # NoHolder /\ UNCHANGED <<incoming, parameters>>
      BY <1>7 DEF EndLoad, LoadThrows
    <2>2. at = "handler"
      BY <2>1 DEF Inv, Reading
    <2>. QED
      BY <2>1, <2>2, ArrivingKept
  <1>8. ASSUME NEW h \in Holders,
               \/ \E i \in Parameters : TakeVariant(h, i)
               \/ \E value \in Storables : VariantStore(h, value)
               \/ \E T \in LoadTypes : BeginLoad(h, T)
               \/ \E complete \in BOOLEAN : VariantRewind(h, complete)
               \/ \E g \in Holders : VariantCopy(h, g)
               \/ AppendTo(h)
               \/ VariantClear(h)
        PROVE  Arriving'
    <2>1. InHandler
      BY <1>8 DEF TakeVariant, VariantStore, BeginLoad, VariantRewind, VariantCopy,
         AppendTo, VariantClear
    <2>. QED
      BY <2>1, ArrivingKept DEF InHandler
  <1>. QED
    BY <1>1, <1>2, <1>3, <1>4, <1>5, <1>6, <1>7, <1>8 DEF Next

\* Exceptions are for those who read.
LEMMA NextIdle ==
    ASSUME Inv, Idle, [Next]_vars
    PROVE  Idle'
  <1>1. CASE UNCHANGED <<scopes, reader>>
    BY <1>1 DEF Idle
  <1>2. CASE reader' = "fine"
    BY <1>2 DEF Idle
  <1>3. CASE UNCHANGED vars
    BY <1>1, <1>3 DEF vars, readerVars
  <1>4. CASE Generate \/ CallHandler
    BY <1>1, <1>4 DEF Generate, CallHandler, readerVars
  <1>5. CASE BeginParameter
    BY <1>2, <1>5 DEF BeginParameter, BeginRead
  <1>6. CASE EndParameter \/ EndLoad \/ LoadThrows
    BY <1>2, <1>6 DEF EndParameter, EndLoad, Finished, LoadThrows
  <1>7. CASE ReadOn
    <2>1. scopes' # <<>>
      BY <1>7, ReaderKept DEF ReadOn, Inv
    <2>. QED
      BY <2>1 DEF Idle
  <1>8. ASSUME NEW h \in Holders, NEW T \in LoadTypes, BeginLoad(h, T)
        PROVE  Idle'
    BY <1>2, <1>8 DEF BeginLoad, BeginRead, Idle
  <1>9. ASSUME NEW h \in Holders,
               \/ \E i \in Parameters : TakeVariant(h, i)
               \/ \E value \in Storables : VariantStore(h, value)
               \/ \E complete \in BOOLEAN : VariantRewind(h, complete)
               \/ \E g \in Holders : VariantCopy(h, g)
               \/ AppendTo(h)
               \/ VariantClear(h)
        PROVE  Idle'
    BY <1>1, <1>9 DEF TakeVariant, VariantStore, VariantRewind, VariantCopy, AppendTo,
       VariantClear, readerVars
  <1>. QED
    BY <1>3, <1>4, <1>5, <1>6, <1>7, <1>8, <1>9 DEF Next

\* A load of a fresh variant has its value before it.
LEMMA BeginLoadRereading ==
    ASSUME Inv, Idle, NEW h \in Holders, NEW T \in LoadTypes, BeginLoad(h, T)
    PROVE  Rereading'
  <1>1. /\ loading' = h /\ BeginRead(T, held[h]) /\ scopes = <<>>
        /\ UNCHANGED <<held, truth, stored>>
    BY DEF BeginLoad, BeginRead
  <1>2. /\ msg' = held[h] /\ reader' = reader /\ reader = "fine"
        /\ scopes' = <<Scope("value", T)>>
    BY <1>1 DEF BeginRead, Idle
  <1>3. scopes'[1].type = T
    BY <1>2 DEF Scope
  <1>. SUFFICES ASSUME Rereads'
                PROVE  \E w : w = truth'[loading'] /\ Whole(0, w)'
    BY <1>2 DEF Rereading
  <1>4. /\ held[h] # <<>> /\ held[h] = Opened(held[h][1].all) /\ truth[h] # NoValue
        /\ T \in Readables /\ truth[h] \in Plains /\ T.wire = truth[h].type
    BY <1>1, <1>3 DEF Rereads, Known, Fresh, Holds
  <1>5. held[h][1].all = <<Holding(h)>> /\ IsMessage(held[h]) /\ T \in CxxTypes
    BY <1>4, MessagesAssumption DEF Inv, Variants, Holds
  <1>6. PICK w : w = truth[h]
    OBVIOUS
  <1>7. PICK m : m = held[h]
    OBVIOUS
  <1>8. Given(T, Holding(h), w)
    BY <1>4, <1>5, <1>6 DEF Given, CanBe, Good, Holding
  <1>9. held[h][1].all \in Seq(Values)
    BY <1>5, TopIsFrame DEF Frames
  <1>10. IsMessage(m) /\ Len(m) = 1 /\ m[1].pos = 0
    BY <1>4, <1>5, <1>7, <1>9, OpenedFacts
  <1>11. m[1].pos < Len(m[1].all) /\ m[1].all[m[1].pos + 1] = Holding(h)
    <2>. DEFINE v == Holding(h)
    <2>1. m[1].all = <<v>> /\ m[1].pos = 0
      BY <1>5, <1>7, <1>10
    <2>. HIDE DEF v
    <2>2. Len(<<v>>) = 1 /\ <<v>>[1] = v
      OBVIOUS
    <2>3. 0 < Len(m[1].all) /\ m[1].all[0 + 1] = v
      BY <2>1, <2>2
    <2>. USE DEF v
    <2>. QED
      BY <2>1, <2>3
  <1>12. Whole(m[1].pos, w)'
    BY <1>1, <1>5, <1>7, <1>8, <1>10, <1>11, WholeBegins
  <1>13. Whole(0, w)'
    BY <1>10, <1>12
  <1>. QED
    BY <1>1, <1>6, <1>13

\* Every step keeps what is said of loads.
LEMMA NextRereading ==
    ASSUME Inv, Idle, Rereading, [Next]_vars
    PROVE  Rereading'
  <1>1. ASSUME loading' = NoHolder
        PROVE  Rereading'
    BY <1>1 DEF Rereading, Rereads
  <1>2. CASE at # "handler" /\ UNCHANGED loading
    BY <1>1, <1>2 DEF Inv, Reading
  <1>3. CASE UNCHANGED vars
    <2>1. /\ loading' = loading /\ held' = held /\ truth' = truth
          /\ scopes' = scopes /\ reader' = reader /\ msg' = msg
      BY <1>3 DEF vars, variants, readerVars
    <2>2. Rereads' = Rereads
      BY <2>1 DEF Rereads, Known, Fresh, Holds
    <2>3. \A w : Whole(0, w)' = Whole(0, w)
      BY <2>1 DEF Whole, Nested, Taken, Here
    <2>. QED
      BY <2>1, <2>2, <2>3 DEF Rereading
  <1>4. CASE Generate \/ BeginParameter \/ EndParameter \/ CallHandler
    BY <1>2, <1>4
    DEF Generate, BeginParameter, EndParameter, CallHandler, AllRead, variants
  <1>5. CASE ReadOn
    <2>. SUFFICES ASSUME Rereads'
                  PROVE  reader' # "threw" /\ \E w : w = truth'[loading'] /\ Whole(0, w)'
      BY DEF Rereading
    <2>1. loading' = loading /\ held' = held /\ truth' = truth
      BY <1>5 DEF ReadOn, variants
    <2>2. scopes'[1].type = scopes[1].type
      BY <1>5, ReadingGoesOn, ReaderKept, StepShapes DEF ReadOn, Inv, Reader
    <2>3. Rereads
      BY <2>1, <2>2 DEF Rereads, Known, Fresh, Holds
    <2>4. PICK w : w = truth[loading] /\ Whole(0, w)
      BY <2>3 DEF Rereading
    <2>5. Whole(0, w)' /\ reader' # "threw"
      BY <1>5, <2>4, ReadOnWhole
    <2>. QED
      BY <2>1, <2>4, <2>5
  <1>6. CASE EndLoad \/ LoadThrows
    BY <1>1, <1>6 DEF EndLoad, LoadThrows
  <1>7. ASSUME NEW h \in Holders, NEW T \in LoadTypes, BeginLoad(h, T)
        PROVE  Rereading'
    BY <1>7, BeginLoadRereading
  <1>8. ASSUME NEW h \in Holders,
               \/ \E i \in Parameters : TakeVariant(h, i)
               \/ \E value \in Storables : VariantStore(h, value)
               \/ \E complete \in BOOLEAN : VariantRewind(h, complete)
               \/ \E g \in Holders : VariantCopy(h, g)
               \/ AppendTo(h)
               \/ VariantClear(h)
        PROVE  Rereading'
    BY <1>1, <1>8 DEF TakeVariant, VariantStore, VariantRewind, VariantCopy, AppendTo,
       VariantClear, InHandler
  <1>. QED
    BY <1>3, <1>4, <1>5, <1>6, <1>7, <1>8 DEF Next

\* Nothing is read at first.
LEMMA InitWhereabouts ==
    ASSUME Init
    PROVE  Whereabouts
  <1>1. /\ scopes = <<>> /\ reader = "fine" /\ read = 0 /\ loading = NoHolder
        /\ declared = delivery.declared
    BY DEF Init
  <1>2. writer = "author" => at = "read"
    BY DEF Init
  <1>3. Arriving
    BY <1>1, <1>2 DEF Arriving, ReadsFine
  <1>. QED
    BY <1>1, <1>3 DEF Whereabouts, Idle, Rereading, Rereads

\* Every step keeps, with the invariant of Messages_proofs, where the readers are.
THEOREM NextWhereabouts ==
    ASSUME Inv, Whereabouts, [Next]_vars
    PROVE  Whereabouts'
  BY NextIdle, NextArriving, NextRereading DEF Whereabouts

\* Every parameter a careful author declared is read from its own place, and every
\* fresh variant from its beginning, by functions each of which has its part of what
\* was written (message.hpp, types.cpp).
THEOREM ReadersCorrect == Spec => [](Inv /\ Whereabouts)
  BY InitInv, InitWhereabouts, NextInv, NextWhereabouts, PTL DEF Spec

-----------------------------------------------------------------------------
(* Properties. *)

\* ReadableParametersArrive of Messages: whatever comes in, if its author declared it
\* and it is readable and simple, nothing throws, nothing crashes but at the end of an
\* array of strings, and every parameter is what came in.
THEOREM ReadablesArrive == Spec => []ReadableParametersArrive
  <1>1. Whereabouts => ReadableParametersArrive
    BY DEF Whereabouts, Arriving, Readably, ReadsFine, ReadableParametersArrive
  <1>. QED
    BY <1>1, ReadersCorrect, PTL

\* VariantsAreRereadable of Messages: a load of the type that a fresh variant holds
\* gives what was put into it, and leaves it fresh.
THEOREM FreshVariantsReread == Spec => VariantsAreRereadable
  <1>1. ASSUME Inv, Whereabouts, [Next]_vars
        PROVE  \A h \in Holders :
                  /\ loading = h /\ loading' = NoHolder
                  /\ Known(h)
                  /\ scopes[1].type \in Readables
                  /\ truth[h] \in Plains /\ scopes[1].type.wire = truth[h].type
                  => scopes[1].got = <<truth[h]>> /\ Fresh(h)'
    <2>. SUFFICES ASSUME NEW h \in Holders,
                         loading = h, loading' = NoHolder, Known(h),
                         scopes[1].type \in Readables, truth[h] \in Plains,
                         scopes[1].type.wire = truth[h].type
                  PROVE  scopes[1].got = <<truth[h]>> /\ Fresh(h)'
      OBVIOUS
    <2>1. h # NoHolder
      BY MessagesAssumption
    <2>2. PICK w : w = truth[h] /\ Whole(0, w) /\ reader # "threw"
      BY <1>1, <2>1 DEF Whereabouts, Rereading, Rereads
    <2>3. EndLoad
      <3>1. ~LoadThrows
        BY <2>2 DEF LoadThrows
      <3>2. loading' # loading
        BY <2>1
      <3>3. ~UNCHANGED variants
        BY <3>2 DEF variants
      <3>4. \A g \in Holders, T \in LoadTypes : ~BeginLoad(g, T)
        BY MessagesAssumption DEF BeginLoad
      <3>5. \A g \in Holders :
               /\ \A i \in Parameters : ~TakeVariant(g, i)
               /\ \A value \in Storables : ~VariantStore(g, value)
               /\ \A complete \in BOOLEAN : ~VariantRewind(g, complete)
               /\ \A f \in Holders : ~VariantCopy(g, f)
               /\ ~AppendTo(g) /\ ~VariantClear(g)
        BY <3>2 DEF TakeVariant, VariantStore, VariantRewind, VariantCopy, AppendTo,
           VariantClear
      <3>6. /\ ~Generate /\ ~BeginParameter /\ ~EndParameter /\ ~CallHandler /\ ~ReadOn
            /\ ~UNCHANGED vars
        BY <3>3 DEF Generate, BeginParameter, EndParameter, CallHandler, ReadOn, vars
      <3>. QED
        BY <1>1, <3>1, <3>4, <3>5, <3>6 DEF Next
    <2>4. /\ Finished /\ scopes # <<>> /\ ReaderInv
          /\ held' = [held EXCEPT ![h] = AfterLoad(msg)]
      <3>1. Finished /\ held' = [held EXCEPT ![h] = AfterLoad(msg)]
        BY <2>3 DEF EndLoad
      <3>2. ReaderInv
        BY <1>1 DEF Inv, Reader
      <3>3. scopes # <<>>
        BY <1>1, <2>1 DEF Inv, Reading, Handling
      <3>. QED
        BY <3>1, <3>2, <3>3
    <2>5. scopes[1].got = <<Content(scopes[1].type, w)>>
      BY <2>2, <2>4, WholeEnds
    <2>6. Content(scopes[1].type, w) = w
      <3>1. Variant.wire.kind = "variant"
        BY DEF Variant, Cxx, VariantType, Type
      <3>. QED
        BY <2>2, <3>1 DEF Content
    <2>7. DOMAIN held = Holders /\ IsMessage(held[h])
      BY <1>1 DEF Known, Fresh, Inv, Variants
    <2>8. held'[h] = Opened(held[h][1].all)
      BY <1>1, <2>3, <2>4, <2>7, EndLoadFacts DEF Known
    <2>9. held[h][1].all \in Seq(Values)
      BY <2>7, TopIsFrame DEF Frames
    <2>10. Fresh(h)'
      <3>1. held'[h] # <<>> /\ held'[h][1].all = held[h][1].all
        BY <2>8, <2>9, OpenedFacts
      <3>. QED
        BY <2>8, <3>1 DEF Fresh, Holds
    <2>. QED
      BY <2>2, <2>5, <2>6, <2>10
  <1>. QED
    BY <1>1, ReadersCorrect, PTL DEF Spec, VariantsAreRereadable

=============================================================================

---------------------------- MODULE Messages_MC ----------------------------
(* Instances of Messages for TLC, with the code generator of TypeParser.    *)
EXTENDS Messages, TypeParser, TLC

CONSTANTS h1, h2

I == Basic("i")
S == Basic("s")
O == Basic("o")

\* The nth value of a type of D-Bus whose arrays have the given length.
RECURSIVE Sample(_, _, _)
Sample(E, n, length) ==
    CASE E.kind = "basic"   -> Value(E, <<n>>)
      [] E.kind = "variant" ->
             Wrapped(Sample(IF n % 2 = 0 THEN S.wire ELSE I.wire, n, length))
      [] E.kind \in {"struct", "entry"} ->
             Value(E, [i \in DOMAIN E.of |-> Sample(E.of[i], n + i, length)])
      [] E.kind = "array"   ->
             Value(E, [i \in 1 .. length |-> Sample(E.of[1], n + i, length)])

\* A message with a value of each type that was declared.
Delivery(types, length) ==
    [declared |-> types,
     body |-> [i \in DOMAIN types |-> Sample(types[i].wire, i, length)]]

\* The same, with each value wrapped in a variant.
Wrap(d) == [d EXCEPT !.body = [i \in DOMAIN @ |-> Wrapped(@[i])]]

\* The same for an author who takes every parameter as a variant.
Untyped(d) == [d EXCEPT !.declared = [i \in DOMAIN @ |-> Variant]]

RECURSIVE Readable(_)
Readable(T) ==
    \/ T.kind \in {"basic", "variant", "dictionary"}
    \/ /\ T.kind = "vector"
       /\ \/ T.of[1].kind = "basic"
          \/ T.of[1].kind = "vector" /\ T.of[1].of[1].kind = "basic"
    \/ T.kind \in {"tuple", "map"} /\ \A i \in DOMAIN T.of : Readable(T.of[i])

ReadableTypes ==
    {I, S, Variant, Vector(I), Vector(S), Vector(Vector(I)), Tuple(<<I, S>>),
     Tuple(<<Vector(I), Tuple(<<S>>)>>), Map(S, I), Map(S, Vector(I)),
     Map(I, Tuple(<<I, S>>)), VariantDictionary}

UnreadableTypes ==
    {Vector(Tuple(<<I, S>>)), Vector(VariantDictionary), Vector(Variant),
     Vector(Vector(Vector(I))), Vector(Vector(Tuple(<<I>>)))}

Lengths == 0 .. 2

Single ==
    {Delivery(<<T>>, n) : T \in ReadableTypes \cup UnreadableTypes, n \in Lengths}

Pairs ==
    {Delivery(<<T, U>>, 2) :
        T \in {S, Variant, Vector(I), Map(S, I), Tuple(<<I, S>>)} \cup UnreadableTypes,
        U \in {I, S, Variant, VariantDictionary}}

\* A structure with a variant in a variant, and a dictionary with a key twice.
Odd ==
    {[declared |-> <<Tuple(<<I, Variant>>)>>,
      body |-> <<Value(Struct(<<I.wire, VariantType>>),
                       <<Sample(I.wire, 1, 0), Wrapped(Sample(VariantType, 1, 0))>>)>>],
     [declared |-> <<Map(S, I)>>,
      body |-> <<Value(Map(S, I).wire,
                       [n \in 1 .. 2 |-> Value(Map(S, I).wire.of[1],
                           <<Sample(S.wire, 1, 0), Sample(I.wire, n, 0)>>)])>>]}

AllDeliveries ==
    Odd \cup Single \cup Pairs \cup {Wrap(Delivery(<<T>>, 2)) : T \in ReadableTypes}
    \cup {Untyped(Delivery(Ts, 2)) : Ts \in {<<I, S>>, <<Vector(I)>>}}

Arrays == {Delivery(<<Vector(Tuple(<<I, S>>))>>, n) : n \in Lengths}
              \cup {Delivery(<<T>>, 2) : T \in ReadableTypes}

\* Arrays of strings and of object paths, and some that have none.
StringArrays ==
    {Delivery(<<Vector(T)>>, n) : T \in {I, S, O}, n \in Lengths}

\* What introspection tells the generator of: an argument that is basic, a
\* structure or a dictionary.
Introspected ==
    {Delivery(<<T>>, 2) :
        T \in {I, S, Variant, Tuple(<<I, S>>), Map(S, I), Map(S, Vector(I)),
               Map(I, Tuple(<<I, S>>)), VariantDictionary}}

Numbers == {Value(I.wire, <<7>>)}
Loads == {I, Vector(I)}

\* The generator, for the types that come in.
GeneratedTypes ==
    [E \in {v.type : v \in UNION {Range(d.body) : d \in AllDeliveries \cup StringArrays}}
        |-> ConvertType(Signature(E))]

\* What the constants above are made of.
RECURSIVE TypeParts(_)
TypeParts(T) == {T} \cup UNION {TypeParts(part) : part \in Range(T.of)}

RECURSIVE ValueParts(_)
ValueParts(v) ==
    {v} \cup IF v.type.kind = "basic" THEN {}
                                    ELSE UNION {ValueParts(part) : part \in Range(v.items)}

AllTypes ==
    UNION {TypeParts(T) :
        T \in ReadableTypes \cup UnreadableTypes
                \cup {Tuple(<<I, Variant>>), Vector(O)} \cup (Range(GeneratedTypes) \ {Refused}) \cup Loads}

AllReadables == {T \in AllTypes : Readable(T)}

AllValues ==
    UNION {ValueParts(v) :
        v \in UNION {Range(d.body) : d \in AllDeliveries \cup Arrays \cup StringArrays}
                \cup {Wrapped(v) : v \in Numbers}}

RECURSIVE Plain(_)
Plain(v) ==
    v.type.kind # "basic" =>
        /\ \A i \in DOMAIN v.items : Plain(v.items[i])
        /\ v.type.kind = "variant" => v.items[1].type.kind # "variant"
        /\ v.type.kind = "array" /\ v.type.of[1].kind = "entry" =>
              Cardinality({entry.items[1] : entry \in Range(v.items)}) = Len(v.items)

AllPlains == {v \in AllValues : Plain(v)}

Symmetry == Permutations({h1, h2})

=============================================================================

------------------------------ MODULE Messages ------------------------------
(***************************************************************************)
(* A message that comes in, the handler it is unpacked for, and the        *)
(* variants the handler keeps.                                             *)
(*                                                                         *)
(* The types of a handler's parameters are written by hand or generated    *)
(* from introspection.  unpack_message (bindings/function_wrap.hpp) reads  *)
(* the parameters, one message::read (MessageReader) each, as the          *)
(* arguments of one call, so the order is the compiler's.  An exception    *)
(* ends that; the caller tells it the application.                         *)
(*                                                                         *)
(* A message_variant (bindings/types.cpp, bindings/variant_helpers.hpp) is *)
(* a message of its own with a place up to which it was read.  The handler *)
(* loads from it, stores into it, copies it and appends it to another      *)
(* message.                                                                *)
(***************************************************************************)
EXTENDS MessageReader, FiniteSets

CONSTANTS
    Deliveries,  \* what may come in: the types a careful author declares, the body
    Generated,   \* per type of D-Bus: what the generator makes of it, or Refused
    Writers,     \* who writes the handler: "author", "generator"
    Orders,      \* in which arguments are evaluated: "leftToRight", "rightToLeft"
    Holders,     \* message_variant objects of the handler
    NoHolder,
    Storables,   \* basic values it stores
    LoadTypes,   \* types it loads
    Readables,   \* types whose arrays are of basic types or arrays of these
    Plains,      \* values whose variants hold no variants, and whose dictionaries have
                 \* no key twice
    MaxAppends   \* a bound on what it appends

\* What a careful author declares for a value that comes in: its type, the type it
\* has within its variant, or a variant.
Declares(T, v) ==
    \/ v.type = T.wire
    \/ v.type = VariantType /\ v.items[1].type = T.wire
    \/ T = Variant

ASSUME MessagesAssumption ==
    /\ Writers \subseteq {"author", "generator"}
    /\ Orders \subseteq {"leftToRight", "rightToLeft"} /\ Orders # {}
    /\ MaxAppends \in Nat
    /\ NoHolder \notin Holders
    /\ \A d \in Deliveries :
          /\ d.declared \in Seq(CxxTypes) /\ d.body \in Seq(Values)
          /\ Len(d.declared) = Len(d.body)
          /\ \A i \in DOMAIN d.body :
                /\ Declares(d.declared[i], d.body[i])
                /\ Generated[d.body[i].type] \in CxxTypes \cup {Refused}
    /\ Storables \subseteq Values
    /\ \A v \in Storables : Wrapped(v) \in Values
    /\ LoadTypes \subseteq CxxTypes

\* Only one level of arrays can be read, or two, and only of basic types.
ASSUME ReadablesAssumption ==
    /\ Readables \subseteq CxxTypes
    /\ \A T \in Readables :
          \/ T.kind \in {"basic", "variant", "dictionary"}
          \/ /\ T.kind = "vector"
             /\ \/ T.of[1].kind = "basic"
                \/ T.of[1].kind = "vector" /\ T.of[1].of[1].kind = "basic"
          \/ T.kind \in {"tuple", "map"} /\ \A i \in DOMAIN T.of : T.of[i] \in Readables

ASSUME PlainsAssumption ==
    /\ Plains \subseteq Values
    /\ \A v \in Plains : v.type.kind # "basic" =>
          LET held == v.items
          IN  /\ \A i \in DOMAIN held : held[i] \in Plains
              /\ v.type.kind = "variant" => held[1].type.kind # "variant"
              /\ v.type.kind = "array" /\ v.type.of[1].kind = "entry" =>
                    \A i, j \in DOMAIN held : held[i].items[1] = held[j].items[1] => i = j

VARIABLES
    delivery,  \* the message that came in
    writer,
    order,
    declared,  \* the types of the handler's parameters
    at,        \* "generate", "refused", "read", "handler"
    args,      \* the parameters; NoValue when they are not read yet
    read,      \* how many are read
    held,      \* per holder: the message of the variant, <<>> when it has none
    truth,     \* per holder: the value that was put into the variant, NoValue when it
               \* was copied from one that was read or appended
    stored,    \* holders whose variant was made by variant_store or copied from one
    loading,   \* the holder whose message is read
    out        \* the message that is written

incoming == <<delivery, writer, order, declared>>
parameters == <<at, args, read>>
variants == <<held, truth, stored, loading, out>>
vars == <<incoming, parameters, readerVars, variants>>

Parameters == DOMAIN delivery.body

\* Nothing is read.
NoMessage == Opened(<<>>)

\* Every parameter that was read is of the type it was declared with, a variant has
\* taken one value, and a variant that is read is in use (read_proxy,
\* message_variant::assign).
TypeOK ==
    /\ delivery \in Deliveries
    /\ writer \in Writers
    /\ order \in Orders
    /\ at \in {"generate", "refused", "read", "handler"}
    /\ reader \in {"fine", "threw", "crashed"}
    /\ declared \in Seq(CxxTypes \cup {Refused}) /\ Len(declared) = Len(delivery.body)
    /\ DOMAIN args = Parameters
    /\ \A i \in Parameters : args[i] # NoValue => args[i].type = declared[i].wire
    /\ \A i \in Parameters : args[i].type = VariantType => Len(args[i].items) = 1
    /\ read \in 0 .. Len(delivery.body)
    /\ msg # <<>>
    /\ DOMAIN held = Holders /\ DOMAIN truth = Holders
    /\ stored \subseteq {h \in Holders : held[h] # <<>>}
    /\ loading \in {h \in Holders : held[h] # <<>>} \cup {NoHolder}
    /\ out \in Seq(Values) /\ Len(out) <= MaxAppends

Init ==
    /\ delivery \in Deliveries
    /\ writer \in Writers
    /\ order \in Orders
    /\ Len(delivery.body) <= 1 => order = CHOOSE o \in Orders : TRUE
    /\ declared = delivery.declared
    /\ at = IF writer = "generator" THEN "generate" ELSE "read"
    /\ msg = Opened(delivery.body)
    /\ scopes = <<>>
    /\ reader = "fine"
    /\ args = [i \in Parameters |-> NoValue]
    /\ read = 0
    /\ held = [h \in Holders |-> <<>>]
    /\ truth = [h \in Holders |-> NoValue]
    /\ stored = {}
    /\ loading = NoHolder
    /\ out = <<>>

-----------------------------------------------------------------------------
(* The handler's parameters. *)

\* The generator writes the handler, or refuses a type.
Generate ==
    LET types == [i \in Parameters |-> Generated[delivery.body[i].type]]
    IN  /\ at = "generate"
        /\ declared' = types
        /\ at' = IF \E i \in Parameters : types[i] = Refused THEN "refused" ELSE "read"
        /\ UNCHANGED <<delivery, writer, order, args, read, readerVars, variants>>

\* mutant: the arguments are read from right to left
Turn_Reversed(n) == Len(delivery.body) - n

\* The parameter that is read after n others.
Turn(n) == IF order = "leftToRight" THEN n + 1 ELSE Len(delivery.body) - n

BeginParameter ==
    /\ at = "read" /\ read < Len(delivery.body) /\ reader = "fine"
    /\ BeginRead(declared[Turn(read)], msg)
    /\ UNCHANGED <<incoming, parameters, variants>>

EndParameter ==
    /\ at = "read" /\ Finished
    /\ args' = [args EXCEPT ![Turn(read)] = scopes[1].got[1]]
    /\ read' = read + 1
    /\ scopes' = <<>>
    /\ UNCHANGED <<incoming, at, msg, reader, variants>>

AllRead == at = "read" /\ read = Len(delivery.body)

CallHandler ==
    /\ AllRead
    /\ at' = "handler"
    /\ msg' = NoMessage
    /\ UNCHANGED <<incoming, args, read, scopes, reader, variants>>

\* One call of sd-bus, for a parameter or for a variant that is loaded.
ReadOn == ReaderStep /\ UNCHANGED <<incoming, parameters, variants>>

-----------------------------------------------------------------------------
(* Variants. *)

InHandler ==
    at = "handler" /\ loading = NoHolder /\ UNCHANGED <<incoming, parameters>>
Holds(h) == held[h] # <<>>

\* The next read of the variant starts at its beginning.
Fresh(h) == Holds(h) /\ held[h] = Opened(held[h][1].all)

\* The variant of a parameter is moved out of it.
TakeVariant(h, i) ==
    /\ InHandler
    /\ args[i].type = VariantType
    /\ held' = [held EXCEPT ![h] = Opened(args[i].items)]
    /\ truth' = [truth EXCEPT ![h] = args[i].items[1]]
    /\ stored' = stored \ {h}
    /\ UNCHANGED <<readerVars, loading, out>>

\* mutant: the value is stored as it is
AppendedVariant_Bare(value) == value

\* append_variant
AppendedVariant(value) == Wrapped(value)

VariantStore(h, value) ==
    /\ InHandler
    /\ held' = [held EXCEPT ![h] = Opened(<<AppendedVariant(value)>>)]
    /\ truth' = [truth EXCEPT ![h] = value]
    /\ stored' = stored \cup {h}
    /\ UNCHANGED <<readerVars, loading, out>>

\* variant_load reads the message of the variant.
BeginLoad(h, T) ==
    /\ InHandler /\ Holds(h)
    /\ loading' = h
    /\ BeginRead(T, held[h])
    /\ UNCHANGED <<held, truth, stored, out>>

\* mutant: a variant that was read is not rewound
AfterLoad_Stays(m) == m

\* resolve rewinds the container that is open.
AfterLoad(m) == SdRewind(m, FALSE)

EndLoad ==
    /\ loading # NoHolder /\ Finished
    /\ held' = [held EXCEPT ![loading] = AfterLoad(msg)]
    /\ loading' = NoHolder
    /\ scopes' = <<>>
    /\ msg' = NoMessage
    /\ UNCHANGED <<incoming, parameters, reader, truth, stored, out>>

\* An exception leaves before the rewind.
LoadThrows ==
    /\ loading # NoHolder /\ reader = "threw"
    /\ held' = [held EXCEPT ![loading] = msg]
    /\ loading' = NoHolder
    /\ reader' = "fine"
    /\ scopes' = <<>>
    /\ msg' = NoMessage
    /\ UNCHANGED <<incoming, parameters, truth, stored, out>>

VariantRewind(h, complete) ==
    /\ InHandler /\ Holds(h)
    /\ held' = [held EXCEPT ![h] = SdRewind(@, complete)]
    /\ UNCHANGED <<readerVars, truth, stored, loading, out>>

\* mutant: the source of a copy is not rewound
AfterCopy_Stays(m) == [m EXCEPT ![Len(m)].pos = Len(m[Len(m)].all)]

\* clone(true) rewinds the whole message it copied from.
AfterCopy(m) == SdRewind(m, TRUE)

\* A copy is what is left of the source.
VariantCopy(h, g) ==
    /\ InHandler /\ Holds(h) /\ h # g
    /\ held' = [held EXCEPT ![g] = Opened(Rest(Top(held[h]))), ![h] = AfterCopy(@)]
    /\ truth' = [truth EXCEPT ![g] = IF Fresh(h) THEN truth[h] ELSE NoValue]
    /\ stored' = IF h \in stored THEN stored \cup {g} ELSE stored \ {g}
    /\ UNCHANGED <<readerVars, loading, out>>

\* append_to copies what is left of the variant as it is, and leaves the place of
\* reading behind it.
AppendTo(h) ==
    /\ InHandler /\ Holds(h)
    /\ Len(out \o Rest(Top(held[h]))) <= MaxAppends
    /\ out' = out \o Rest(Top(held[h]))
    /\ held' = [held EXCEPT ![h][Len(held[h])].pos = Len(Top(held[h]).all)]
    /\ UNCHANGED <<readerVars, truth, stored, loading>>

VariantClear(h) ==
    /\ InHandler /\ Holds(h)
    /\ held' = [held EXCEPT ![h] = <<>>]
    /\ truth' = [truth EXCEPT ![h] = NoValue]
    /\ stored' = stored \ {h}
    /\ UNCHANGED <<readerVars, loading, out>>

Next ==
    \/ Generate
    \/ BeginParameter
    \/ EndParameter
    \/ CallHandler
    \/ ReadOn
    \/ EndLoad
    \/ LoadThrows
    \/ \E h \in Holders :
          \/ \E i \in Parameters : TakeVariant(h, i)
          \/ \E value \in Storables : VariantStore(h, value)
          \/ \E T \in LoadTypes : BeginLoad(h, T)
          \/ \E complete \in BOOLEAN : VariantRewind(h, complete)
          \/ \E g \in Holders : VariantCopy(h, g)
          \/ AppendTo(h)
          \/ VariantClear(h)

Spec == Init /\ [][Next]_vars

-----------------------------------------------------------------------------
(* Properties. *)

\* Arguments are evaluated from left to right, or there is only one.
Ordered == order = "leftToRight" \/ Len(delivery.body) <= 1

\* A value is another one, but for a variant it is wrapped in.
SaysTheSame(v, w) == v = w \/ Wrapped(v) = w \/ v = Wrapped(w)

\* A plain value, or a variant that holds one.
Simple(v) == v \in Plains \/ (v.type.kind = "variant" /\ v.items[1] \in Plains)

\* The loop of an array of strings, object paths or signatures, behind the last one:
\* the read that ends the loop assigns from a pointer that nobody set.
EndsStrings ==
    /\ Innermost.kind = "elements" /\ Wanted.wire.char \in PointerChars
    /\ AtEndOfArray(msg)

\* Where the author of a handler declared the types that come in, none of them an
\* array of anything but basic types or arrays of them, nothing throws while they
\* are read, the only thing that can crash is the end of an array of strings, and
\* what is read is what came in, if that has no variants in variants and no key
\* twice.  This is about read_proxy of every type (message.hpp), unpack_variant and
\* the results their loops are controlled by; StringArraysAreRead is about the crash.
ReadableParametersArrive ==
    (/\ writer = "author" /\ Ordered
     /\ \A i \in Parameters : declared[i] \in Readables /\ Simple(delivery.body[i])) =>
        /\ at = "read" => reader = "fine" \/ (reader = "crashed" /\ EndsStrings)
        /\ \A i \in 1 .. read : SaysTheSame(args[i], delivery.body[i])

\* A handler is called only when the message was read to its end, with every
\* container left that was entered: no proxy takes what is another parameter's, or
\* stops early unnoticed (message.hpp, function_wrap.hpp).
CalledAtTheEnd ==
    AllRead => msg = <<[Frame("message", delivery.body) EXCEPT !.pos = Len(delivery.body)]>>

\* A variant at its beginning whose value is known, and what its message holds.
Known(h) == Fresh(h) /\ truth[h] # NoValue
Holding(h) == IF h \in stored THEN Wrapped(truth[h]) ELSE truth[h]

\* A variant that is fresh gives the plain value that was put into it, and stays
\* fresh, so it can be read again (README: no rewind is needed before rereading a
\* variant).
VariantsAreRereadable ==
    [][\A h \in Holders :
          /\ loading = h /\ loading' = NoHolder
          /\ Known(h)
          /\ scopes[1].type \in Readables
          /\ truth[h] \in Plains /\ scopes[1].type.wire = truth[h].type
          => scopes[1].got = <<truth[h]>> /\ Fresh(h)']_vars

\* Whatever was done before, a copy of a fresh variant holds what was put into the
\* source, and both are fresh afterwards (message::clone).
CopiesAreWhole ==
    [][\A h, g \in Holders :
          VariantCopy(h, g) /\ Known(h) =>
              held'[h] = Opened(<<Holding(h)>>) /\ held'[g] = held'[h]]_vars

\* A fresh variant stops being fresh only by being appended or by a load that
\* throws: a failing load leaves the place where it stopped, and appending leaves
\* it at the end (types.cpp, variant_helpers.hpp).
OnlyThrowsAndAppendsMoveVariants ==
    [][\A h \in Holders :
          Fresh(h) /\ Holds(h)' /\ ~Fresh(h)' =>
              AppendTo(h) \/ (LoadThrows /\ loading = h)]_vars

\* Whatever was done before, appending a fresh variant appends what was put into
\* it, as a variant only if variant_store made it or what it was copied from: one
\* that came in has lost its wrapper (append_to and assign, types.cpp).
AppendsAreBare ==
    [][\A h \in Holders : AppendTo(h) /\ Known(h) => out' = Append(out, Holding(h))]_vars

\* One parameter that an author declared as what comes in is read whole, whatever
\* its type (message.hpp:136 "Reads a value of known type from the message stack").
KnownTypesAreRead ==
    (writer = "author" /\ Len(delivery.body) = 1 /\ at = "handler") =>
        SaysTheSame(args[1], delivery.body[1])

\* An array of strings or of object paths that comes in as its author declared it is
\* read without a crash: the README's ListNames() gives a std::vector<std::string>,
\* and its ListCachedUsers() a std::vector<object_path> (README.md:88, :433).
StringArraysAreRead ==
    (/\ writer = "author" /\ Len(delivery.body) = 1
     /\ declared[1].kind = "vector" /\ declared[1].of[1].wire.char \in PointerChars) =>
        reader # "crashed"

\* What the generator makes of a type, if it refuses it not, is a type of C++ that is
\* read from just that (introspect.hpp:68 "Converts a single dbus type to C++ type").
ConvertedTypesFit ==
    (writer = "generator" /\ at # "generate") =>
        \A i \in Parameters :
            declared[i] # Refused => declared[i].wire = delivery.body[i].type

=============================================================================

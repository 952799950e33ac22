-------------------------------- MODULE Types --------------------------------
(***************************************************************************)
(* The types of C++ that dbus-glue reads and writes (bindings/types.hpp),  *)
(* the types of D-Bus they stand for, and values.  Only the characters of  *)
(* the basic types that behave differently are told apart.  custom_value,  *)
(* whose reader is given by the application, is left out; an adapted       *)
(* structure is the tuple it is read as.                                   *)
(***************************************************************************)
EXTENDS Integers, Sequences

(* Types of D-Bus. *)
Type(kind, char, of) == [kind |-> kind, char |-> char, of |-> of]

BasicType(char) == Type("basic", char, <<>>)
VariantType == Type("variant", "v", <<>>)
Array(E) == Type("array", "a", <<E>>)
Struct(Es) == Type("struct", "r", Es)
Entry(K, E) == Type("entry", "e", <<K, E>>)

\* A type of C++, with the type of D-Bus that type_detect gives for it.
Cxx(kind, of, wire) == [kind |-> kind, of |-> of, wire |-> wire]

Basic(char) == Cxx("basic", <<>>, BasicType(char))
Variant == Cxx("variant", <<>>, VariantType)
Vector(T) == Cxx("vector", <<T>>, Array(T.wire))
Tuple(Ts) == Cxx("tuple", Ts, Struct([i \in DOMAIN Ts |-> Ts[i].wire]))
Map(K, T) == Cxx("map", <<K, T>>, Array(Entry(K.wire, T.wire)))
VariantDictionary ==
    Cxx("dictionary", <<Basic("s"), Variant>>, Array(Entry(BasicType("s"), VariantType)))

\* No type: what the code generator does not understand.
Refused == Cxx("refused", <<>>, Type("none", "", <<>>))

\* A value: the datum of a basic type, or the values a container holds.
Value(E, items) == [type |-> E, items |-> items]
NoValue == Value(Type("none", "", <<>>), <<>>)

Wrapped(v) == Value(VariantType, <<v>>)

=============================================================================

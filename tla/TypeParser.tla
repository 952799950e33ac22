----------------------------- MODULE TypeParser -----------------------------
(***************************************************************************)
(* How the code generator turns the type string of an introspected         *)
(* argument into a type of C++: Introspector::convert_type                 *)
(* (source/dbus-glue/generator/introspect.cpp).                            *)
(*                                                                         *)
(* A type string is the sequence of its characters.  A structure becomes   *)
(* the tuple its generated struct is read as.                              *)
(***************************************************************************)
EXTENDS Types

\* The type string of a type of D-Bus.
RECURSIVE Signature(_), Signatures(_, _)
Signature(E) ==
    CASE E.kind \in {"basic", "variant"} -> <<E.char>>
      [] E.kind = "array"  -> <<"a">> \o Signature(E.of[1])
      [] E.kind = "struct" -> <<"(">> \o Signatures(E.of, 1) \o <<")">>
      [] E.kind = "entry"  -> <<"{">> \o Signatures(E.of, 1) \o <<"}">>
Signatures(Es, i) ==
    IF i > Len(Es) THEN <<>> ELSE Signature(Es[i]) \o Signatures(Es, i + 1)

NoType == Cxx("none", <<>>, Type("none", "", <<>>))

\* What a parser found, and where it stands after it.
Found(T, next) == [type |-> T, next |-> next]

CharacterAt(s, i) == IF i <= Len(s) THEN s[i] ELSE ""

BasicChars == {"i", "s", "o"}

\* convert_basic_type: no type for a character it does not know.
ConvertBasicType(c) ==
    CASE c \in BasicChars -> Basic(c)
      [] c = "v"          -> Variant
      [] OTHER            -> NoType

RECURSIVE Parse(_, _), ParseElements(_, _, _)

\* The parser stands on the key when it parses what it calls the value, so both
\* are the key, and the one character after it is skipped unseen.
ParseDictionary(s, i) ==
    LET key == ConvertBasicType(CharacterAt(s, i))
        value == Parse(s, i)
        end == value.next + 1
    IN  IF \/ i > Len(s)
           \/ key = NoType
           \/ value.type \in {NoType, Refused}
           \/ CharacterAt(s, end) # "}"
        THEN Found(Refused, i)
        ELSE Found(Map(key, value.type), end + 1)

\* The array of an ordinary array is forgotten.
ParseArray(s, i) ==
    CASE i > Len(s)  -> Found(Refused, i)
      [] s[i] = "{"  -> ParseDictionary(s, i + 1)
      [] OTHER       -> Parse(s, i)

\* The elements end with the first character that is no type, which is consumed.
ParseElements(s, i, elements) ==
    LET element == Parse(s, i)
    IN  CASE element.type = Refused -> element
          [] element.type = NoType  -> Found(Tuple(elements), element.next)
          [] OTHER -> ParseElements(s, element.next, Append(elements, element.type))

\* The closing parenthesis is looked for once more after it was consumed.
ParseStructure(s, i) ==
    LET elements == ParseElements(s, i, <<>>)
    IN  IF \/ i > Len(s)
           \/ elements.type = Refused
           \/ elements.type.of = <<>>
           \/ CharacterAt(s, elements.next) # ")"
        THEN Found(Refused, i)
        ELSE Found(elements.type, elements.next + 1)

Parse(s, i) ==
    CASE CharacterAt(s, i) = "a" -> ParseArray(s, i + 1)
      [] CharacterAt(s, i) = "(" -> ParseStructure(s, i + 1)
      [] OTHER -> Found(ConvertBasicType(CharacterAt(s, i)), i + 1)

ConvertType(s) ==
    LET result == Parse(s, 1)
    IN  IF result.type = NoType \/ result.next # Len(s) + 1
        THEN Refused
        ELSE result.type

=============================================================================

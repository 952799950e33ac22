---------------------------- MODULE MessageReader ----------------------------
(***************************************************************************)
(* How message::read (bindings/message.hpp) takes a value of a C++ type    *)
(* from a message: the read_proxy of each type, unpack_variant, and        *)
(* message_variant::assign (bindings/types.cpp), one call of sd-bus at a   *)
(* time.                                                                   *)
(*                                                                         *)
(* A message is what sd-bus keeps of one that is read: the containers that *)
(* are open, the innermost one last, each with the values it holds and how *)
(* many of them were read.  Its operators are external; a result r is      *)
(* negative for an error, 0 at the end of an array and positive otherwise. *)
(*                                                                         *)
(* The functions that are called and have not returned are the scopes, the *)
(* innermost one last.  Every scope but the first has entered a container, *)
(* and will exit it.  A function that gets a negative result throws, and   *)
(* nothing catches before the caller of message::read.                     *)
(***************************************************************************)
EXTENDS Types, SequencesExt

CONSTANTS
    CxxTypes, \* the types of C++ that are read
    Values    \* the values that messages hold

\* A type is made of the types of its parts.
ASSUME TypesAssumption ==
    \A T \in CxxTypes :
        /\ T.of \in Seq(CxxTypes)
        /\ CASE T.kind = "basic"      -> T = Basic(T.wire.char)
             [] T.kind = "variant"    -> T = Variant
             [] T.kind = "vector"     -> T = Vector(T.of[1])
             [] T.kind = "tuple"      -> T.of # <<>> /\ T = Tuple(T.of)
             [] T.kind = "map"        -> T = Map(T.of[1], T.of[2])
             [] T.kind = "dictionary" -> T = VariantDictionary
             [] OTHER                 -> FALSE

\* sd-bus sees to it that a value holds what its type says.
ASSUME ValuesAssumption ==
    \A v \in Values :
        LET E == v.type
            held == v.items
        IN  /\ v = Value(E, held)
            /\ CASE E.kind = "basic"              -> E = BasicType(E.char)
                 [] E.kind = "variant"            ->
                        E = VariantType /\ held \in Seq(Values) /\ Len(held) = 1
                 [] E.kind = "array"              ->
                        /\ held \in Seq(Values)
                        /\ \A i \in DOMAIN held : held[i].type = E.of[1]
                 [] E.kind \in {"struct", "entry"} ->
                        /\ held \in Seq(Values) /\ Len(held) = Len(E.of)
                        /\ \A i \in DOMAIN held : held[i].type = E.of[i]
                 [] OTHER -> FALSE

VARIABLES
    msg,    \* the message that is read
    scopes, \* the functions that read it
    reader  \* "fine", "threw", "crashed"

readerVars == <<msg, scopes, reader>>

-----------------------------------------------------------------------------
(* sd-bus. *)

Frame(kind, items) == [kind |-> kind, all |-> items, pos |-> 0]

Opened(items) == <<Frame("message", items)>>

Top(m) == Last(m)
Rest(frame) == SubSeq(frame.all, frame.pos + 1, Len(frame.all))
AtEnd(m) == Top(m).pos = Len(Top(m).all)
AtEndOfArray(m) == AtEnd(m) /\ Top(m).kind = "array"
Following(m) == Top(m).all[Top(m).pos + 1]
Peek(m) == IF AtEnd(m) THEN "end" ELSE Following(m).type.kind
Skip(m) == [m EXCEPT ![Len(m)].pos = @ + 1]

Result(r, m) == [r |-> r, msg |-> m]

Enter(m, kind) ==
    CASE AtEndOfArray(m) -> Result(0, m)
      [] Peek(m) = kind  -> Result(1, Append(Skip(m), Frame(kind, Following(m).items)))
      [] OTHER           -> Result(-1, m)

Exit(m) == IF AtEnd(m) /\ Len(m) > 1 THEN Result(1, Front(m)) ELSE Result(-1, m)

SdReadBasic(m, char) ==
    CASE AtEndOfArray(m)                        -> Result(0, m)
      [] ~AtEnd(m) /\ Following(m).type = BasicType(char) -> Result(1, Skip(m))
      [] OTHER                                  -> Result(-1, m)

\* sd_bus_message_rewind: the whole message, or the container that is open.
SdRewind(m, complete) ==
    IF complete THEN Opened(m[1].all) ELSE [m EXCEPT ![Len(m)].pos = 0]

-----------------------------------------------------------------------------
(* Scopes. *)

Scope(kind, T) == [kind |-> kind, type |-> T, got |-> <<>>, r |-> 0, open |-> TRUE]

Innermost == Last(scopes)
InScope(kinds) ==
    reader = "fine" /\ scopes # <<>> /\ Innermost.open /\ Innermost.kind \in kinds

\* emplace keeps the first of two equal keys.
Emplace(entries, entry) ==
    IF \E i \in DOMAIN entries : entries[i].items[1] = entry.items[1]
    THEN entries
    ELSE Append(entries, entry)

\* What a scope does with a value it has read: the loop of an array goes on while
\* that gives more than 0, and the results of the fields of a structure are added up.
Receives(s, r, v) ==
    CASE s.kind \in {"value", "unpack"} ->
             [s EXCEPT !.got = <<v>>, !.r = r, !.open = FALSE]
      [] s.kind \in {"elements", "rows"} ->
             IF r = 0 THEN [s EXCEPT !.open = FALSE] ELSE [s EXCEPT !.got = Append(@, v)]
      [] s.kind \in {"fields", "entry"} ->
             [s EXCEPT !.got = Append(@, v), !.r = @ + r,
                       !.open = Len(s.got) + 1 < Len(s.type.of)]
      [] s.kind = "entries" ->
             [s EXCEPT !.got = Emplace(@, v)]

Delivered(below, r, v) ==
    [below EXCEPT ![Len(below)] = Receives(@, r, v)]

\* The value of a scope that is left.
BuiltBy(s) ==
    CASE s.kind = "unpack" -> s.got[1]
      [] s.kind = "entry"  -> Value(s.type.wire.of[1], s.got)
      [] OTHER             -> Value(s.type.wire, s.got)

\* Its result.  That of a structure is 0 when nothing follows it, so that a loop ends.
ResultOf(s, m) ==
    CASE s.kind = "unpack" -> s.r
      [] s.kind = "fields" -> IF Peek(m) = "end" THEN 0 ELSE s.r
      [] OTHER             -> 1

\* The type that the innermost scope reads next.
Wanted ==
    CASE Innermost.kind \in {"value", "unpack"} -> Innermost.type
      [] Innermost.kind = "elements"            -> Innermost.type.of[1]
      [] Innermost.kind \in {"fields", "entry"} -> Innermost.type.of[Len(Innermost.got) + 1]

\* Within unpack_variant, and for the entries of a variant_dictionary, the proxy is
\* called without message::read.
ByProxy ==
    \/ Innermost.kind = "unpack"
    \/ Innermost.kind = "entry" /\ Innermost.type.kind = "dictionary"

Reads(kinds) ==
    /\ InScope({"value", "unpack", "elements", "fields", "entry"})
    /\ ByProxy \/ Peek(msg) # "variant"
    /\ Wanted.kind \in kinds

-----------------------------------------------------------------------------
(* Steps. *)

Throw == reader' = "threw" /\ UNCHANGED <<msg, scopes>>

Open(m, scope) ==
    /\ msg' = m
    /\ scopes' = Append(scopes, scope)
    /\ UNCHANGED reader

\* A read_proxy that needs no scope gives its value.
Give(m, r, v) ==
    /\ msg' = m
    /\ scopes' = Delivered(scopes, r, v)
    /\ UNCHANGED reader

CloseInnermost ==
    /\ scopes' = [scopes EXCEPT ![Len(scopes)].open = FALSE]
    /\ UNCHANGED <<msg, reader>>

\* message::read of a type.
BeginRead(T, m) ==
    /\ scopes = <<>>
    /\ msg' = m
    /\ scopes' = <<Scope("value", T)>>
    /\ UNCHANGED reader

Finished == reader = "fine" /\ Len(scopes) = 1 /\ ~scopes[1].open

\* unpack_variant
UnpackVariant ==
    /\ InScope({"value", "elements", "fields", "entry"}) /\ ~ByProxy
    /\ Peek(msg) = "variant"
    /\ Open(Enter(msg, "variant").msg, Scope("unpack", Wanted))

\* Strings start as a char const* that sd_bus_message_read_basic sets only if it
\* reads something.
PointerChars == {"s", "o", "g"}

ReadBasic ==
    LET char == Wanted.wire.char
        result == SdReadBasic(msg, char)
    IN  /\ Reads({"basic"})
        /\ \/ result.r < 0 /\ Throw
           \/ result.r = 0 /\ Give(msg, 0, NoValue)
           \/ /\ result.r = 0 /\ char \in PointerChars
              /\ reader' = "crashed" /\ UNCHANGED <<msg, scopes>>
           \/ result.r > 0 /\ Give(result.msg, 1, Following(msg))

\* mutant: everything that is left is copied
CopiedInto_Full(m) == Rest(Top(m))

\* copy_into copies one value.
CopiedInto(m) == SubSeq(Rest(Top(m)), 1, 1)

\* message_variant::assign: its result is that of entering and leaving a variant,
\* and 0 when the message is inside the variant already.
ReadVariant ==
    /\ Reads({"variant"})
    /\ CASE Peek(msg) = "variant" ->
                Give(Skip(msg), 1,
                     Value(VariantType, CopiedInto(Enter(msg, "variant").msg)))
         [] Peek(msg) = "end" -> Give(msg, 0, Value(VariantType, <<>>))
         [] OTHER -> Give(Skip(msg), 0, Value(VariantType, CopiedInto(msg)))

\* The array of a vector is looked at before it is entered.  Entering a structure or
\* the array of a dictionary gives 0 at the end of an array, which is no error.
OpenVector ==
    LET rows == Wanted.of[1].kind = "vector"
    IN  /\ Reads({"vector"})
        /\ IF Peek(msg) = "array"
           THEN Open(Enter(msg, "array").msg,
                     Scope(IF rows THEN "rows" ELSE "elements", Wanted))
           ELSE Throw

OpenTuple ==
    LET struct == Enter(msg, "struct")
    IN  /\ Reads({"tuple"})
        /\ IF struct.r < 0 THEN Throw ELSE Open(struct.msg, Scope("fields", Wanted))

OpenMap ==
    LET array == Enter(msg, "array")
    IN  /\ Reads({"map", "dictionary"})
        /\ IF array.r < 0 THEN Throw ELSE Open(array.msg, Scope("entries", Wanted))

\* An array of arrays enters the inner ones itself.
OpenRow ==
    LET row == Enter(msg, "array")
    IN  /\ InScope({"rows"})
        /\ IF row.r <= 0 THEN CloseInnermost
                         ELSE Open(row.msg, Scope("elements", Innermost.type.of[1]))

OpenEntry ==
    LET entry == Enter(msg, "entry")
    IN  /\ InScope({"entries"})
        /\ CASE entry.r < 0 -> Throw
             [] entry.r = 0 -> CloseInnermost
             [] OTHER       -> Open(entry.msg, Scope("entry", Innermost.type))

\* mutant: the variant a value is wrapped in is not left
Left_Open(s, m) == IF s.kind = "unpack" THEN Result(1, m) ELSE Exit(m)

\* Every scope leaves the container it has entered.
Left(s, m) == Exit(m)

LeaveScope ==
    LET left == Left(Innermost, msg)
    IN  /\ reader = "fine" /\ Len(scopes) > 1 /\ ~Innermost.open
        /\ IF left.r < 0
           THEN Throw
           ELSE /\ msg' = left.msg
                /\ scopes' = Delivered(Front(scopes), ResultOf(Innermost, left.msg),
                                       BuiltBy(Innermost))
                /\ UNCHANGED reader

ReaderStep ==
    \/ UnpackVariant
    \/ ReadBasic
    \/ ReadVariant
    \/ OpenVector
    \/ OpenTuple
    \/ OpenMap
    \/ OpenRow
    \/ OpenEntry
    \/ LeaveScope

=============================================================================

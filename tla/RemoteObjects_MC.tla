-------------------------- MODULE RemoteObjects_MC --------------------------
(* Instances of RemoteObjects for TLC. *)
EXTENDS RemoteObjects, TLC

CONSTANTS b1, b2, u1, l1, l2, o1, r1, r2, m, n, p, s

Loop == b1 :> l1 @@ b2 :> l2
OfEachKind == <<m, n, p, s>>
KindsOf == m :> "method" @@ n :> "procedure" @@ p :> "property" @@ s :> "signal"

\* The method without a value is asked for on one connection, the property on the other.
Asked == {Use(o1, n, "call"), Use(o1, p, "get")}
Services == [w \in Asked |-> IF w.member = n THEN b1 ELSE b2]
=============================================================================

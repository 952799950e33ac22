---------------------------- MODULE AsyncCalls_MC ----------------------------
(* Instances of AsyncCalls for TLC. *)
EXTENDS AsyncCalls, TLC

CONSTANTS u1, u2, c1, c2

Plan(kind, then, err) == [kind |-> kind, then |-> then, err |-> err]

Ordinary(kind) == Plan(kind, "returns", "returns")

\* Calls of every two kinds, but for most pairs of asynchronous ones; nothing tells c1
\* from c2.
OrdinaryPlans ==
    {c1 :> Ordinary(pair[1]) @@ c2 :> Ordinary(pair[2]) :
        pair \in {<<"async", "async">>, <<"async", "propertySync">>,
                  <<"propertyAsync", "sync">>, <<"propertyAsync", "propertySync">>,
                  <<"sync", "sync">>, <<"sync", "propertySync">>,
                  <<"propertySync", "propertySync">>}}

\* An asynchronous call with every pair of callbacks, beside a synchronous call that
\* any thread may make, callbacks included.  Of what an error callback throws in a
\* handler nothing depends on the type, so "throwsOther" is there once.
ThrowingPlans ==
    {c1 :> Ordinary("sync") @@ c2 :> Plan("async", then, err) :
        then \in CallbackKinds, err \in CallbackKinds \ {"throwsOther"}}
    \cup {c1 :> Ordinary("sync") @@ c2 :> Plan("async", "returns", "throwsOther")}

AllPlans == OrdinaryPlans \cup ThrowingPlans

\* One call whose error callback is omitted.
OmittedPlans == {c1 :> Plan("async", "returns", "empty")}
=============================================================================

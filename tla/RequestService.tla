--------------------------- MODULE RequestService ---------------------------
(***************************************************************************)
(* What a program that exposes interfaces promises those who ask for their *)
(* members: each connection serves one request at a time, in the order     *)
(* they came in; it runs the handler of the member that was asked for,     *)
(* once, or none, and then answers.  Only a request whose handler ran gets *)
(* a result, and that comes first; an error may come instead of it, or     *)
(* after it.  An answer is final.  A program that has ended does nothing.  *)
(***************************************************************************)
EXTENDS Sequences

CONSTANTS
    Buses,
    Requests,
    Asks,   \* what may be asked for
    Nothing

VARIABLES
    asked,  \* per request: what it asks for
    line,   \* per connection: the requests that are not answered
    ran,    \* per request: what was run for it
    answer, \* per request: what was sent for it, in order
    alive   \* the program runs

vars == <<asked, line, ran, answer, alive>>

Init ==
    /\ asked = [r \in Requests |-> Nothing]
    /\ line = [b \in Buses |-> <<>>]
    /\ ran = [r \in Requests |-> <<>>]
    /\ answer = [r \in Requests |-> <<>>]
    /\ alive = TRUE

Ask(r, b, use) ==
    /\ asked[r] = Nothing
    /\ asked' = [asked EXCEPT ![r] = use]
    /\ line' = [line EXCEPT ![b] = Append(@, r)]
    /\ UNCHANGED <<ran, answer, alive>>

Serves(b) == alive /\ line[b] # <<>>
First(b) == Head(line[b])

Run(b) ==
    /\ Serves(b) /\ ran[First(b)] = <<>>
    /\ ran' = [ran EXCEPT ![First(b)] = <<asked[First(b)]>>]
    /\ UNCHANGED <<asked, line, answer, alive>>

Answers == {<<"result">>, <<"error">>, <<"result", "error">>}

Answer(b) ==
    /\ Serves(b) /\ answer[First(b)] = <<>>
    /\ \E sent \in Answers :
          /\ ran[First(b)] = <<>> => sent = <<"error">>
          /\ answer' = [answer EXCEPT ![First(b)] = sent]
    /\ line' = [line EXCEPT ![b] = Tail(@)]
    /\ UNCHANGED <<asked, ran, alive>>

End == alive /\ alive' = FALSE /\ UNCHANGED <<asked, line, ran, answer>>

Next ==
    \/ \E r \in Requests, b \in Buses, use \in Asks : Ask(r, b, use)
    \/ \E b \in Buses : Run(b) \/ Answer(b)
    \/ End

Spec == Init /\ [][Next]_vars
=============================================================================

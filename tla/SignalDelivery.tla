--------------------------- MODULE SignalDelivery ---------------------------
(***************************************************************************)
(* What a connection promises those who listen to signals: one signal is   *)
(* delivered at a time, in the order they came in, each to one of those    *)
(* who listen for it at that moment; who hears a signal is told of it,     *)
(* once or twice, before the next one has its turn; a signal is dropped    *)
(* only when nobody listens for it; and a connection that has ended        *)
(* delivers nothing.                                                       *)
(***************************************************************************)
EXTENDS Naturals, Sequences

CONSTANTS
    Hearers,  \* who may listen
    Signals,
    Messages, \* what is sent: each carries one signal
    SignalOf

VARIABLES
    topic,     \* per hearer: the signal it is interested in
    listening, \* those who listen now
    sent,      \* the messages that were sent
    line,      \* the messages that are not delivered
    heard,     \* per message: who heard it
    told,      \* per message: how often whoever heard it was told
    alive      \* the connection exists

vars == <<topic, listening, sent, line, heard, told, alive>>

Init ==
    /\ topic \in [Hearers -> Signals]
    /\ listening = {}
    /\ sent = {}
    /\ line = <<>>
    /\ heard = [m \in Messages |-> {}]
    /\ told = [m \in Messages |-> 0]
    /\ alive = TRUE

WhoListens(m) == {h \in listening : topic[h] = SignalOf[m]}

Listen(h) ==
    /\ alive
    /\ listening' = listening \cup {h}
    /\ UNCHANGED <<topic, sent, line, heard, told, alive>>

Forget(h) ==
    /\ listening' = listening \ {h}
    /\ UNCHANGED <<topic, sent, line, heard, told, alive>>

Send(m) ==
    /\ alive /\ m \notin sent /\ WhoListens(m) # {}
    /\ sent' = sent \cup {m}
    /\ line' = Append(line, m)
    /\ UNCHANGED <<topic, listening, heard, told, alive>>

\* It is m's turn.
Turn(m) == alive /\ line # <<>> /\ m = Head(line)

Hear(m, h) ==
    /\ Turn(m) /\ heard[m] = {} /\ h \in WhoListens(m)
    /\ heard' = [heard EXCEPT ![m] = {h}]
    /\ UNCHANGED <<topic, listening, sent, line, told, alive>>

Tell(m) ==
    /\ Turn(m) /\ heard[m] # {} /\ told[m] < 2
    /\ told' = [told EXCEPT ![m] = @ + 1]
    /\ UNCHANGED <<topic, listening, sent, line, heard, alive>>

Finish(m) ==
    /\ Turn(m)
    /\ IF heard[m] = {} THEN WhoListens(m) = {} ELSE told[m] > 0
    /\ line' = Tail(line)
    /\ UNCHANGED <<topic, listening, sent, heard, told, alive>>

End ==
    /\ alive /\ alive' = FALSE
    /\ listening' \subseteq listening
    /\ UNCHANGED <<topic, sent, line, heard, told>>

Next ==
    \/ \E h \in Hearers : Listen(h) \/ Forget(h)
    \/ \E m \in Messages : Send(m) \/ Tell(m) \/ Finish(m)
    \/ \E m \in Messages, h \in Hearers : Hear(m, h)
    \/ End

Spec == Init /\ [][Next]_vars
=============================================================================

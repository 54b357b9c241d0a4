--------------------------- MODULE StreamContract ---------------------------
(***************************************************************************)
(* What collectAssistantMessage may rely on when it reads one model answer *)
(* from a provider, however many requests the provider makes for it: the   *)
(* events it is given all belong to one request, in the order they were    *)
(* streamed and none of them twice; an error is the last thing it hears;   *)
(* and a stream that ends without one has begun a message.                 *)
(***************************************************************************)
EXTENDS Naturals, Sequences, SequencesExt

VARIABLES given,    \* the parsed events handed over, without a final error
          status    \* "open", "answer", "error"

cvars == <<given, status>>

\* g[n] is an event and the request it was streamed for; the event has a type
\* and a place in the stream.
OneStream(g) ==
    \A m, n \in DOMAIN g : m < n => g[m].req = g[n].req /\ g[m].event.at < g[n].event.at

Begun(g) == \E n \in DOMAIN g : g[n].event.type = "message_start"

Init == given = <<>> /\ status = "open"

Give ==
    /\ status = "open"
    /\ given' # <<>> /\ Front(given') = given
    /\ OneStream(given')
    /\ UNCHANGED status

Fail == status = "open" /\ status' = "error" /\ UNCHANGED given

Answer == status = "open" /\ Begun(given) /\ status' = "answer" /\ UNCHANGED given

Next == Give \/ Fail \/ Answer

Spec == Init /\ [][Next]_cvars

==============================================================================

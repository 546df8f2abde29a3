--------------------------- MODULE StreamContract ---------------------------
(***************************************************************************)
(* What a client of the server sees of a request it has added: a stream of *)
(* tokens that arrives in order, without gaps or repetitions, and that     *)
(* ends once, after the last token the model generated.  There is no       *)
(* thread, queue or detokenizer here.                                      *)
(***************************************************************************)
EXTENDS Integers, Sequences

CONSTANTS Requests

VARIABLES
  made,      \* number of tokens the model has generated for a request
  final,     \* requests the model will generate no more tokens for
  got,       \* tokens the client has received, by their number
  over,      \* requests whose stream has told its client it has ended
  stopped    \* the server was closed or has failed

svars == <<made, final, got, over, stopped>>

SInit == /\ made = [r \in Requests |-> 0]
         /\ final = {} /\ over = {}
         /\ got = [r \in Requests |-> <<>>]
         /\ stopped = FALSE

\* The model generates for any requests that are not final, and may be done
\* with some of them.
MayGrow(r) == stopped \/ r \notin final \cup over
Generate ==
  /\ \A r \in Requests :
       made'[r] = made[r] \/ (MayGrow(r) /\ made'[r] = made[r] + 1)
  /\ DOMAIN made' = Requests
  /\ final \subseteq final' /\ final' \subseteq Requests
  /\ UNCHANGED <<got, over, stopped>>

\* The client receives the next tokens that were made for it.
Receive(r) ==
  /\ r \notin over
  /\ \E n \in (Len(got[r]) + 1)..made[r] :
       got' = [got EXCEPT ![r] = [i \in 1..n |-> i]]
  /\ UNCHANGED <<made, final, over, stopped>>

\* A stream ends when all its tokens were received, or with the server; that of
\* a request that could not be tokenized ends with nothing.
End(r) ==
  /\ r \notin over
  /\ stopped \/ made[r] = 0 \/ (r \in final /\ Len(got[r]) = made[r])
  /\ over' = over \cup {r}
  /\ UNCHANGED <<made, final, got, stopped>>

Stop == stopped' = TRUE /\ UNCHANGED <<made, final, got, over>>

SNext == Generate \/ Stop \/ \E r \in Requests : Receive(r) \/ End(r)
SSpec == SInit /\ [][SNext]_svars
=============================================================================

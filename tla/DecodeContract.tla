--------------------------- MODULE DecodeContract ---------------------------
(***************************************************************************)
(* What a scheduler owes its caller for each request, whether it runs one  *)
(* step after the other or overlaps them: the tokens of the model, in      *)
(* order and none left out, and the end once and after the last token.  Of *)
(* a request the caller has discarded it hears nothing more, with one      *)
(* exception: a first token that was already on its way may still come,    *)
(* once, and the end with it.  There is no batch, placeholder or device    *)
(* here; the i-th token of a request is the number i.                      *)
(***************************************************************************)
EXTENDS Integers, Sequences

CONSTANTS Requests, MaxNew

VARIABLES
  tokens,    \* tokens returned for a request, the first with add_requests
  final,     \* requests that have had their last token
  ended,     \* times the end of a request was reported
  dropped,   \* requests the caller has discarded
  late       \* those of them whose first token may still come

cvars == <<tokens, final, ended, dropped, late>>

CInit == /\ tokens = [r \in Requests |-> <<>>]
         /\ ended = [r \in Requests |-> 0]
         /\ final = {} /\ dropped = {} /\ late = {}

\* Some requests get their next token, which may be the last (EOS) and is when
\* max_new_tokens is reached; of some that had their last the end is reported.
Gains(r) ==
  /\ r \notin final \cup dropped
  /\ tokens'[r] = Append(tokens[r], Len(tokens[r]) + 1)
  /\ Len(tokens'[r]) <= MaxNew
  /\ Len(tokens'[r]) = MaxNew => r \in final'

Waits(r) == tokens'[r] = tokens[r] /\ (r \in final' => r \in final)

End(r) == r \in final' \ dropped /\ ended[r] = 0 /\ ended'[r] = 1

\* What comes of a discarded request after all: its first token and its end.
ComesLate(r) == /\ r \in late \ late'
                /\ tokens[r] = <<>> /\ tokens'[r] = <<1>>
                /\ ended[r] = 0 /\ ended'[r] = 1

Served(r) == /\ Gains(r) \/ Waits(r)
             /\ ended'[r] = ended[r] \/ End(r)

Advance ==
  /\ \A r \in Requests : Served(r) \/ ComesLate(r)
  /\ DOMAIN tokens' = Requests /\ DOMAIN ended' = Requests
  /\ final \subseteq final' /\ late' \subseteq late
  /\ UNCHANGED dropped

Drop(r) ==
  /\ dropped' = dropped \cup {r}
  /\ final' = final \cup {r}
  /\ late' = late \/ (tokens[r] = <<>> /\ late' = late \cup {r})
  /\ UNCHANGED <<tokens, ended>>

CNext == Advance \/ \E r \in Requests : Drop(r)
CSpec == CInit /\ [][CNext]_cvars
=============================================================================

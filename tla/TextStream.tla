----------------------------- MODULE TextStream -----------------------------
(***************************************************************************)
(* How the tokens of one request become pieces of text on its stream: the  *)
(* detokenizer and the _StreamState of a stream.  The detokenizer may hold *)
(* the text of a token back (part of a character) until a later one or the *)
(* flush at the end; what it gives is put on the queue every               *)
(* stream_interval tokens, the first piece at once.  A piece is a          *)
(* non-empty sequence of token numbers, None ends the stream.              *)
(***************************************************************************)
EXTENDS Integers, Sequences

CONSTANTS
  StreamInterval,  \* stream_interval
  HoldsBack        \* whether a detokenizer may hold text back

ASSUME IntervalAssumption == StreamInterval \in Nat \ {0} /\ HoldsBack \in BOOLEAN

None  == <<>>

\* The streams of S whose detokenizers hold back what they are given now.
Holding(S) == IF HoldsBack THEN SUBSET S ELSE {{}}

Fresh == [held |-> <<>>, buf |-> <<>>, since |-> 0, sent |-> FALSE]

OnToken(s, i, holds) ==
  IF holds THEN [s EXCEPT !.held = Append(@, i), !.since = @ + 1]
  ELSE [s EXCEPT !.buf = @ \o s.held \o <<i>>, !.held = <<>>, !.since = @ + 1]

Due(s)    == s.buf # <<>> /\ (~s.sent \/ s.since >= StreamInterval)
Given(s)  == IF Due(s) THEN [Fresh EXCEPT !.held = s.held, !.sent = TRUE] ELSE s
Pieces(s) == IF Due(s) THEN <<s.buf>> ELSE <<>>

\* The end of a stream: what is buffered or held, then None.
LastUnflushed(s) == IF s.buf = <<>> THEN <<None>> ELSE <<s.buf, None>>  \* a mutation
LastPieces(s) ==
  IF s.buf \o s.held = <<>> THEN <<None>> ELSE <<s.buf \o s.held, None>>

\* The stream after tokens `toks', the texts of which the detokenizer holds back
\* or not, and the pieces they put on its queue.
Fed(s, toks, holds) ==
  LET f[k \in 0..Len(toks)] ==
        IF k = 0 THEN [state |-> s, put |-> <<>>]
        ELSE LET t == OnToken(f[k - 1].state, toks[k], holds)
             IN  [state |-> Given(t), put |-> f[k - 1].put \o Pieces(t)]
  IN  f[Len(toks)]

\* The same with the end of the request, or not.
FedTo(s, toks, holds, ends) ==
  LET f == Fed(s, toks, holds)
  IN  IF ends THEN [state |-> Fresh, put |-> f.put \o LastPieces(f.state)] ELSE f
=============================================================================

---------------------------- MODULE KVContract ----------------------------
(***************************************************************************)
(* What the paged KV cache promises to the sessions and to the prefix      *)
(* cache that use it: each of them owns a private, immutable history of    *)
(* K/V vectors.  There are no blocks here, and nothing is shared; a        *)
(* session's history only grows, a kept one never changes, and both are    *)
(* at any time the K/V of some token sequence.                             *)
(***************************************************************************)
EXTENDS Integers, SequencesExt

CONSTANTS Sessions, Keys

VARIABLES
  view,     \* what attention reads for a session, position by position
  kept      \* what attaching to the entry of a key would give

cvars == <<view, kept>>

\* The K/V of position i depends on the tokens 1..i: its value is that prefix.
KV(x) == [i \in 1..Len(x) |-> SubSeq(x, 1, i)]
IsHistory(v) == v # <<>> => v = KV(Last(v))

CInit == /\ view = [s \in Sessions |-> <<>>]
         /\ kept = [k \in Keys |-> <<>>]

\* A prefill or a decode step appends to the histories of some sessions.
Compute ==
  /\ kept' = kept
  /\ \A s \in Sessions : view'[s] # view[s] =>
                           IsHistory(view'[s]) /\ IsStrictPrefix(view[s], view'[s])

\* A fresh session starts from a kept history, or from that of a session.
Attach(s, k) == /\ view[s] = <<>> /\ kept[k] # <<>>
                /\ view' = [view EXCEPT ![s] = kept[k]]
                /\ kept' = kept

Copy(s, r) == /\ view[s] = <<>> /\ view[r] # <<>>
              /\ view' = [view EXCEPT ![s] = view[r]]
              /\ kept' = kept

\* A prompt's history is kept, possibly in the place of another.
Keep(s, k) == /\ view[s] = KV(k) /\ kept[k] = <<>>
              /\ kept' \in {[j \in Keys |-> IF j = k THEN view[s]
                                            ELSE IF j \in out THEN <<>>
                                            ELSE kept[j]] :
                              out \in {{}} \cup {{j} : j \in Keys \ {k}}}
              /\ view' = view

Drop(s) == view' = [view EXCEPT ![s] = <<>>] /\ kept' = kept

DropKept == kept' = [k \in Keys |-> <<>>] /\ view' = view

CNext == \/ Compute \/ DropKept
         \/ \E s \in Sessions : Drop(s) \/ \E r \in Sessions : Copy(s, r)
         \/ \E s \in Sessions, k \in Keys : Attach(s, k) \/ Keep(s, k)

CSpec == CInit /\ [][CNext]_cvars
=============================================================================

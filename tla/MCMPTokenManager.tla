-------------------------- MODULE MCMPTokenManager --------------------------
(***************************************************************************)
(* Small instances of MPTokenManager.                                      *)
(***************************************************************************)
EXTENDS MPTokenManager
\* Prompts of different lengths: the first has one token, the others two.
Prompts == LET first == CHOOSE r \in Requests : TRUE
           IN  [r \in Requests |-> IF r = first THEN <<1>> ELSE <<2, 3>>]
=============================================================================

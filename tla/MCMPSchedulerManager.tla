------------------------ MODULE MCMPSchedulerManager ------------------------
(***************************************************************************)
(* Small instances of MPSchedulerManager.                                  *)
(***************************************************************************)
EXTENDS MPSchedulerManager
Prompts == [r \in Requests |-> <<1>>]
Sym == Permutations(Requests)
=============================================================================

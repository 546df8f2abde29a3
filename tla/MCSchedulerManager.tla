------------------------ MODULE MCSchedulerManager ------------------------
(***************************************************************************)
(* Small instances of SchedulerManager.                                    *)
(***************************************************************************)
EXTENDS SchedulerManager
Sym == Permutations(Requests) \cup Permutations(Tokenizers)
=============================================================================

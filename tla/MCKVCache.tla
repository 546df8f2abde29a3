----------------------------- MODULE MCKVCache -----------------------------
(***************************************************************************)
(* Small instances of KVCache.  Two positions per block: the prompts of    *)
(* one and three tokens end in a half-filled block, that of two tokens     *)
(* fills its block, and each is a prefix of the next; another branches off *)
(* after the first token.                                                  *)
(***************************************************************************)
EXTENDS KVCache
PromptSet == {<<1>>, <<1, 2>>, <<1, 2, 1>>, <<1, 1>>}
Live3 == [m \in Modes |-> IF m = "online" THEN 3 ELSE 2]
Sym == Permutations(Blocks) \cup Permutations(Sessions)
=============================================================================

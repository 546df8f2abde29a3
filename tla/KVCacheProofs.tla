---------------------------- MODULE KVCacheProofs ----------------------------
(***************************************************************************)
(* Theorems about KVCache, for every pool, session set, block size and     *)
(* cache bound.                                                            *)
(***************************************************************************)
EXTENDS KVCache, QueueLemmas

\* How often a block list without duplicates names a block.
Names(ids, b) == IF b \in Range(ids) THEN 1 ELSE 0

(***************************************************************************)
(* Replacing one block list changes the owners of a block by at most the   *)
(* owner of that list.                                                     *)
(***************************************************************************)
LEMMA OwnersFinite ==
  ASSUME NEW D, IsFiniteSet(D), NEW L, NEW f \in [D -> L], NEW b
  PROVE  IsFiniteSet(Owners(f, b)) /\ Cardinality(Owners(f, b)) \in Nat
  BY FS_Subset, FS_CardinalityType DEF Owners

LEMMA OwnersUpdate ==
  ASSUME NEW D, IsFiniteSet(D), NEW L, NEW f \in [D -> L], NEW g \in [D -> L],
         NEW x \in D, \A y \in D : y # x => g[y] = f[y], NEW b
  PROVE  Cardinality(Owners(g, b)) + Names(f[x], b)
           = Cardinality(Owners(f, b)) + Names(g[x], b)
<1> DEFINE rest == Owners(f, b) \ {x}
<1>1. IsFiniteSet(rest) /\ Cardinality(rest) \in Nat
  BY OwnersFinite, FS_Subset, FS_CardinalityType
<1>2. Cardinality(rest \cup {x}) = Cardinality(rest) + 1
  BY <1>1, FS_AddElement
<1>3. Owners(f, b) = IF b \in Range(f[x]) THEN rest \cup {x} ELSE rest
  BY DEF Owners
<1>4. Owners(g, b) = IF b \in Range(g[x]) THEN rest \cup {x} ELSE rest
  BY DEF Owners
<1> HIDE DEF rest
<1> QED BY <1>1, <1>2, <1>3, <1>4 DEF Names

-----------------------------------------------------------------------------
(***************************************************************************)
(* The inductive invariant.  Exact counts are kept up only because a block *)
(* list names a block once (copy on write then really gives up its last    *)
(* block), because a block that can be allocated is counted 0 (so nobody's *)
(* list names it yet), and because a session gets a list, by attaching or  *)
(* copying one, only in a stage in which it has none.                      *)
(***************************************************************************)
Distinct == /\ \A s \in Sessions : IsInjective(blockIds[s])
            /\ \A k \in Prompts : IsInjective(entries[k])

FreeUncounted == \A b \in Blocks : b \in free <=> refcount[b] = 0

Listless == {"none", "new", "miss", "dup", "solo"}

\* The stages in which the prompt is still needed.
Prompted == Adding \cup {"queued", "chunk", "chunkfill", "solo", "solofill"}

StageInv == \A s \in Sessions :
  /\ stage[s] \in Listless => blockIds[s] = <<>>
  /\ stage[s] \in {"suffix", "splice"} => Len(text[s]) < Len(prompt[s])
  /\ stage[s] \in Prompted => prompt[s] \in Prompts

IInv == ListsTypeOK /\ RefcountExact /\ FreeUncounted /\ Distinct /\ StageInv

LEMMA InitIInv == ASSUME Init PROVE IInv
<1>1. ListsTypeOK
  BY ConstantsAssumption DEF Init, ListsTypeOK, Stages
<1>2. \A b : Holders(b) = {} /\ EntriesOn(b) = {}
  BY DEF Init, Holders, EntriesOn, Owners, Range
<1>3. RefcountExact
  <2>1. Cardinality({}) = 0
    BY FS_EmptySet
  <2>2. \A b \in Blocks :
          refcount[b] = Cardinality(Holders(b)) + Cardinality(EntriesOn(b))
    <3>1. refcount = [b \in Blocks |-> 0]
      BY DEF Init
    <3> QED BY <1>2, <2>1, <3>1
  <2> QED BY <2>2 DEF RefcountExact
<1>4. FreeUncounted /\ Distinct /\ StageInv
  BY DEF Init, FreeUncounted, Distinct, StageInv, IsInjective, Prompted, Adding
<1> QED BY <1>1, <1>3, <1>4 DEF IInv

\* A block that somebody's list names has a count of at least 1, so it is not
\* free; finding it free would be a contradiction.
LEMMA NamedCounted ==
  ASSUME IInv
  PROVE  /\ \A s \in Sessions : \A b \in Range(blockIds[s]) :
              b \in Blocks /\ refcount[b] >= 1 /\ b \notin free
         /\ \A k \in Prompts : \A b \in Range(entries[k]) :
              b \in Blocks /\ refcount[b] >= 1 /\ b \notin free
<1> USE ConstantsAssumption DEF IInv, ListsTypeOK
<1>1. \A ids \in Seq(Blocks) : Range(ids) \subseteq Blocks
  BY DEF Range
<1>2. \A b : /\ IsFiniteSet(Holders(b)) /\ Cardinality(Holders(b)) \in Nat
              /\ IsFiniteSet(EntriesOn(b)) /\ Cardinality(EntriesOn(b)) \in Nat
  BY OwnersFinite DEF Holders, EntriesOn
<1>3. ASSUME NEW s \in Sessions, NEW b \in Range(blockIds[s])
      PROVE  b \in Blocks /\ refcount[b] >= 1 /\ b \notin free
  <2>1. s \in Holders(b)
    BY DEF Holders, Owners
  <2>2. Cardinality(Holders(b)) # 0
    BY <1>2, <2>1, FS_EmptySet
  <2> QED BY <1>1, <1>2, <2>2 DEF RefcountExact, FreeUncounted
<1>4. ASSUME NEW k \in Prompts, NEW b \in Range(entries[k])
      PROVE  b \in Blocks /\ refcount[b] >= 1 /\ b \notin free
  <2>1. k \in EntriesOn(b)
    BY DEF EntriesOn, Owners
  <2>2. Cardinality(EntriesOn(b)) # 0
    BY <1>2, <2>1, FS_EmptySet
  <2> QED BY <1>1, <1>2, <2>2 DEF RefcountExact, FreeUncounted
<1> QED BY <1>3, <1>4

-----------------------------------------------------------------------------
(***************************************************************************)
(* Actions that only move a session to another stage.                      *)
(***************************************************************************)
LEMMA ListsUnchanged ==
  ASSUME UNCHANGED <<refcount, free, blockIds, entries>>
  PROVE  /\ RefcountExact => RefcountExact'
         /\ FreeUncounted => FreeUncounted'
         /\ Distinct => Distinct'
BY DEF RefcountExact, FreeUncounted, Distinct, Holders, EntriesOn, Owners

LEMMA AddRequestsIInv ==
  ASSUME IInv, NEW S \in SUBSET Sessions, AddRequests(S) PROVE IInv'
<1> USE ConstantsAssumption DEF IInv, AddRequests
<1>1. ListsTypeOK'
  BY DEF ListsTypeOK, Stages, Busy, InPass, Between, Adding
<1>2. StageInv'
  BY DEF StageInv, Listless, Prompted, Adding
<1> QED BY <1>1, <1>2, ListsUnchanged

LEMMA GenerateIInv ==
  ASSUME IInv, NEW s \in Sessions, Generate(s) PROVE IInv'
<1> USE ConstantsAssumption DEF IInv, Generate
<1>1. ListsTypeOK'
  BY DEF ListsTypeOK, Stages, Busy, InPass
<1>2. StageInv'
  BY DEF StageInv, Listless, Prompted, Adding, ListsTypeOK
<1> QED BY <1>1, <1>2, ListsUnchanged

LEMMA StageMoveIInv ==
  ASSUME IInv, NEW s \in Sessions,
         \/ LookupDup(s) \/ LookupMiss(s) \/ Continue(s) \/ OutOfBlocks(s)
         \/ FinishOffline(s) \/ LookupOffline(s)
  PROVE  IInv'
<1> USE DEF IInv, LookupDup, LookupMiss, LookupOffline, Continue, OutOfBlocks,
            FinishOffline
<1>1. ListsTypeOK'
  BY DEF ListsTypeOK, Stages, Busy, InPass, Between, Adding
<1>2. StageInv'
  BY DEF StageInv, Listless, Prompted, Adding, ListsTypeOK
<1> QED BY <1>1, <1>2, ListsUnchanged

LEMMA StartStepIInv ==
  ASSUME IInv,
         \/ \E S \in SUBSET Sessions : StartStep(S) \/ StartChunks(S)
         \/ RunEnds
  PROVE  IInv'
<1> USE DEF IInv, StartStep, StartChunks, RunEnds
<1>1. ListsTypeOK'
  BY DEF ListsTypeOK, Stages, Busy, InPass, Between, Stepping
<1>2. StageInv'
  BY DEF StageInv, Listless, Prompted, Adding, ListsTypeOK
<1> QED BY <1>1, <1>2, ListsUnchanged
-----------------------------------------------------------------------------
(***************************************************************************)
(* When one session's list changes, exact counts stay exact if the blocks  *)
(* it gains are counted once more and those it loses once less.            *)
(***************************************************************************)
LEMMA OneListChanges ==
  ASSUME RefcountExact, NEW L, blockIds \in [Sessions -> L],
         blockIds' \in [Sessions -> L], entries \in [Prompts -> L],
         NEW s \in Sessions,
         \A r \in Sessions : r # s => blockIds'[r] = blockIds[r],
         entries' = entries,
         refcount \in [Blocks -> Nat], refcount' \in [Blocks -> Nat],
         \A b \in Blocks : refcount'[b] + Names(blockIds[s], b)
                             = refcount[b] + Names(blockIds'[s], b)
  PROVE  RefcountExact'
<1>1. IsFiniteSet(Sessions) /\ IsFiniteSet(Prompts)
  BY ConstantsAssumption
<1>2. ASSUME NEW b \in Blocks
      PROVE  refcount'[b] = Cardinality(Holders(b)') + Cardinality(EntriesOn(b)')
  <2>1. Cardinality(Owners(blockIds', b)) + Names(blockIds[s], b)
          = Cardinality(Owners(blockIds, b)) + Names(blockIds'[s], b)
    BY ONLY <1>1, OwnersUpdate, blockIds \in [Sessions -> L], s \in Sessions,
            blockIds' \in [Sessions -> L],
            \A r \in Sessions : r # s => blockIds'[r] = blockIds[r]
  <2>2. Names(blockIds[s], b) \in Nat /\ Names(blockIds'[s], b) \in Nat
    BY DEF Names
  <2>3. /\ Cardinality(Owners(blockIds, b)) \in Nat
        /\ Cardinality(Owners(entries, b)) \in Nat
        /\ Cardinality(Owners(blockIds', b)) \in Nat
    BY <1>1, OwnersFinite
  <2>4. refcount[b] = Cardinality(Owners(blockIds, b))
                        + Cardinality(Owners(entries, b))
    BY DEF RefcountExact, Holders, EntriesOn
  <2>5. refcount'[b] = Cardinality(Owners(blockIds', b))
                         + Cardinality(Owners(entries, b))
    BY <1>1, <2>1, <2>2, <2>3, <2>4
  <2> QED BY <2>5 DEF Holders, EntriesOn
<1> QED BY <1>1, <1>2 DEF RefcountExact

(***************************************************************************)
(* A session that has no list takes one whose blocks are in use, and every *)
(* block of it is counted once more.                                       *)
(***************************************************************************)
LEMMA ShareList ==
  ASSUME IInv, NEW s \in Sessions, blockIds[s] = <<>>,
         NEW ids \in Seq(Blocks), IsInjective(ids),
         \A b \in Range(ids) : refcount[b] >= 1,
         blockIds' = [blockIds EXCEPT ![s] = ids],
         refcount' = Incref(refcount, ids),
         UNCHANGED <<free, entries>>
  PROVE  /\ refcount' \in [Blocks -> Nat]
         /\ blockIds' \in [Sessions -> Seq(Blocks)]
         /\ RefcountExact' /\ FreeUncounted' /\ Distinct'
<1> USE ConstantsAssumption DEF IInv, ListsTypeOK
<1>1. /\ refcount' \in [Blocks -> Nat]
      /\ \A b \in Blocks : refcount'[b] = refcount[b] + Names(ids, b)
  BY DEF Incref, Names
<1>2. blockIds' \in [Sessions -> Seq(Blocks)]
  OBVIOUS
<1>3. RefcountExact'
  <2>1. \A b \in Blocks : Names(<<>>, b) = 0 /\ Names(ids, b) \in Nat
    BY DEF Names, Range
  <2>2. \A b \in Blocks : refcount'[b] + Names(blockIds[s], b)
                             = refcount[b] + Names(ids, b)
    BY <1>1, <2>1
  <2>3. /\ blockIds'[s] = ids
        /\ \A r \in Sessions : r # s => blockIds'[r] = blockIds[r]
    OBVIOUS
  <2> QED BY <1>1, <1>2, <2>2, <2>3, OneListChanges
<1>4. FreeUncounted'
  <2> SUFFICES ASSUME NEW b \in Blocks PROVE b \in free <=> refcount'[b] = 0
    BY DEF FreeUncounted
  <2>1. CASE b \in Range(ids)
    BY <1>1, <2>1 DEF FreeUncounted, Names
  <2>2. CASE b \notin Range(ids)
    BY <1>1, <2>2 DEF FreeUncounted, Names
  <2> QED BY <2>1, <2>2
<1>5. Distinct'
  BY DEF Distinct
<1> QED BY <1>1, <1>2, <1>3, <1>4, <1>5

(***************************************************************************)
(* free_blocks on blocks that are all counted.                             *)
(***************************************************************************)
LEMMA FreeBlocksCounts ==
  ASSUME NEW rc \in [Blocks -> Nat], NEW ids \in Seq(Blocks),
         free \subseteq Blocks, store \in [Blocks -> Seq(Values)],
         \A b \in Blocks : b \in free <=> rc[b] = 0,
         \A b \in Range(ids) : rc[b] >= 1,
         FreeBlocks(rc, ids)
  PROVE  /\ refcount' \in [Blocks -> Nat]
         /\ \A b \in Blocks : refcount'[b] + Names(ids, b) = rc[b]
         /\ free' \subseteq Blocks /\ FreeUncounted'
         /\ store' \in [Blocks -> Seq(Values)]
<1> USE DEF FreeBlocks
<1>1. Range(ids) \subseteq Blocks
  BY DEF Range
<1>2. /\ refcount' \in [Blocks -> Nat]
      /\ \A b \in Blocks : refcount'[b] + Names(ids, b) = rc[b]
  BY <1>1 DEF Decref, Names
<1>3. free' \subseteq Blocks /\ FreeUncounted'
  BY <1>1, <1>2 DEF Dropped, Names, FreeUncounted
<1>4. store' \in [Blocks -> Seq(Values)]
  BY <1>1
<1> QED BY <1>2, <1>3, <1>4

LEMMA ReleaseIInv ==
  ASSUME IInv, NEW s \in Sessions, Release(s) PROVE IInv'
<1> USE ConstantsAssumption DEF IInv, Release
<1>1. /\ refcount' \in [Blocks -> Nat]
      /\ \A b \in Blocks : refcount'[b] + Names(blockIds[s], b) = refcount[b]
      /\ free' \subseteq Blocks /\ FreeUncounted'
      /\ store' \in [Blocks -> Seq(Values)]
  BY FreeBlocksCounts, NamedCounted DEF ListsTypeOK, FreeUncounted
<1>2. ListsTypeOK'
  BY <1>1 DEF ListsTypeOK, Stages
<1>3. RefcountExact'
  <2>1. \A b \in Blocks : Names(<<>>, b) = 0 /\ Names(blockIds[s], b) \in Nat
    BY DEF Names, Range
  <2>2. \A b \in Blocks : refcount'[b] + Names(blockIds[s], b)
                             = refcount[b] + Names(<<>>, b)
    BY <1>1, <2>1 DEF ListsTypeOK
  <2>3. /\ blockIds'[s] = <<>>
        /\ \A r \in Sessions : r # s => blockIds'[r] = blockIds[r]
    BY DEF ListsTypeOK
  <2> QED BY <1>1, <1>2, <2>2, <2>3, OneListChanges DEF ListsTypeOK
<1>4. Distinct'
  BY DEF Distinct, ListsTypeOK, IsInjective
<1>5. StageInv'
  BY DEF StageInv, Listless, Prompted, Adding, ListsTypeOK
<1> QED BY <1>1, <1>2, <1>3, <1>4, <1>5

LEMMA FinishIInv ==
  ASSUME IInv, NEW s \in Sessions,
         Finish(s) \/ Discard(s) \/ GenerateRaises(s) \/ GenerateEnds(s)
  PROVE  IInv'
BY ReleaseIInv DEF Finish, Discard, GenerateRaises, GenerateEnds

-----------------------------------------------------------------------------
(***************************************************************************)
(* Sharing: attach, and the copy of an equal prompt's list.                *)
(***************************************************************************)
LEMMA MoveToEndType ==
  ASSUME lru \in Seq(Prompts), NEW k \in Prompts, MoveToEnd(k)
  PROVE  lru' \in Seq(Prompts)
BY DEF MoveToEnd, RemoveAt

LEMMA AttachFacts ==
  ASSUME IInv, NEW s \in Sessions, blockIds[s] = <<>>, NEW k \in Prompts,
         Attach(s, k), prompt' = prompt,
         NEW st \in Stages, stage' = [stage EXCEPT ![s] = st]
  PROVE  ListsTypeOK' /\ RefcountExact' /\ FreeUncounted' /\ Distinct'
<1>1. /\ entries[k] \in Seq(Blocks) /\ IsInjective(entries[k])
      /\ \A b \in Range(entries[k]) : refcount[b] >= 1
  BY NamedCounted DEF IInv, ListsTypeOK, Distinct
<1>2. /\ refcount' \in [Blocks -> Nat]
      /\ blockIds' \in [Sessions -> Seq(Blocks)]
      /\ RefcountExact' /\ FreeUncounted' /\ Distinct'
  BY <1>1, ShareList DEF Attach
<1>3. lru' \in Seq(Prompts)
  BY MoveToEndType DEF Attach, IInv, ListsTypeOK
<1>4. text' \in [Sessions -> Seq(Tokens)]
  BY ConstantsAssumption DEF Attach, IInv, ListsTypeOK
<1>5. ListsTypeOK'
  BY <1>2, <1>3, <1>4 DEF Attach, IInv, ListsTypeOK
<1> QED BY <1>2, <1>5

LEMMA LookupIInv ==
  ASSUME IInv, NEW s \in Sessions,
         LookupHit(s) \/ LookupPrefix(s) \/ LookupChunked(s)
  PROVE  IInv'
<1>1. stage[s] = "new" /\ blockIds[s] = <<>> /\ prompt[s] \in Prompts
  BY DEF IInv, StageInv, Listless, Prompted, Adding, LookupHit, LookupPrefix,
         LookupChunked
<1>2. CASE LookupHit(s)
  <2>1. ListsTypeOK' /\ RefcountExact' /\ FreeUncounted' /\ Distinct'
    BY <1>1, <1>2, AttachFacts DEF LookupHit, Stages, Busy, InPass, Between, Adding
  <2>2. StageInv'
    BY <1>2 DEF LookupHit, Attach, IInv, ListsTypeOK, StageInv, Listless, Prompted, Adding
  <2> QED BY <2>1, <2>2 DEF IInv
<1>3. CASE LookupPrefix(s)
  <2>1. PICK k \in Prompts : IsLongestPrefix(k, prompt[s]) /\ Attach(s, k)
    BY <1>3 DEF LookupPrefix
  <2>2. ListsTypeOK' /\ RefcountExact' /\ FreeUncounted' /\ Distinct'
    BY <1>1, <1>3, <2>1, AttachFacts DEF LookupPrefix, Stages, Busy, InPass, Adding
  <2>3. Len(k) < Len(prompt[s])
    BY <2>1 DEF IsLongestPrefix
  <2>4. StageInv'
    BY <1>3, <2>1, <2>3
       DEF LookupPrefix, Attach, IInv, ListsTypeOK, StageInv, Listless, Prompted, Adding
  <2> QED BY <2>2, <2>4 DEF IInv
<1>4. CASE LookupChunked(s)
  <2>1. prompt' = prompt /\ stage' = [stage EXCEPT ![s] = "queued"]
    BY <1>4 DEF LookupChunked
  <2>2. ListsTypeOK' /\ RefcountExact' /\ FreeUncounted' /\ Distinct'
    <3>1. "queued" \in Stages
      BY DEF Stages, Between
    <3>2. ASSUME NEW k \in Prompts, Attach(s, k)
          PROVE  ListsTypeOK' /\ RefcountExact' /\ FreeUncounted' /\ Distinct'
      BY <1>1, <2>1, <3>1, <3>2, AttachFacts
    <3>3. ASSUME UNCHANGED <<refcount, free, store, blockIds, text, entries, lru, trie>>
          PROVE  ListsTypeOK' /\ RefcountExact' /\ FreeUncounted' /\ Distinct'
      BY <2>1, <3>1, <3>3, ListsUnchanged DEF IInv, ListsTypeOK
    <3> QED BY <1>4, <3>2, <3>3 DEF LookupChunked
  <2>3. \A r \in Sessions : r # s => text'[r] = text[r] /\ blockIds'[r] = blockIds[r]
    BY <1>4 DEF LookupChunked, Attach, IInv, ListsTypeOK
  <2>4. StageInv'
    BY <1>1, <2>1, <2>3 DEF IInv, ListsTypeOK, StageInv, Listless, Prompted, Adding
  <2> QED BY <2>2, <2>4 DEF IInv
<1> QED BY <1>2, <1>3, <1>4

LEMMA CopyDupIInv ==
  ASSUME IInv, NEW s \in Sessions, CopyDup(s) PROVE IInv'
<1>1. PICK r \in At("ready") :
        /\ prompt[r] = prompt[s]
        /\ blockIds' = [blockIds EXCEPT ![s] = blockIds[r]]
        /\ text' = [text EXCEPT ![s] = text[r]]
        /\ refcount' = Incref(refcount, blockIds[r])
  BY DEF CopyDup
<1>2. /\ r \in Sessions /\ blockIds[s] = <<>>
      /\ blockIds[r] \in Seq(Blocks) /\ IsInjective(blockIds[r])
      /\ \A b \in Range(blockIds[r]) : refcount[b] >= 1
  BY NamedCounted DEF At, CopyDup, IInv, ListsTypeOK, Distinct, StageInv, Listless
<1>3. /\ refcount' \in [Blocks -> Nat]
      /\ blockIds' \in [Sessions -> Seq(Blocks)]
      /\ RefcountExact' /\ FreeUncounted' /\ Distinct'
  BY <1>1, <1>2, ShareList DEF CopyDup
<1>4. ListsTypeOK'
  BY <1>1, <1>2, <1>3 DEF CopyDup, IInv, ListsTypeOK, Stages, Busy, InPass, Between, Adding
<1>5. StageInv'
  BY <1>1, <1>2 DEF CopyDup, IInv, ListsTypeOK, StageInv, Listless, Prompted, Adding
<1> QED BY <1>3, <1>4, <1>5 DEF IInv

-----------------------------------------------------------------------------
(***************************************************************************)
(* The prefix cache: put, with and without an eviction, and clear.         *)
(***************************************************************************)
LEMMA EntriesChange ==
  ASSUME RefcountExact, NEW L, blockIds \in [Sessions -> L],
         entries \in [Prompts -> L], entries' \in [Prompts -> L],
         NEW k \in Prompts, NEW v \in Prompts,
         \A j \in Prompts : j # k /\ j # v => entries'[j] = entries[j],
         \A b \in Blocks : Names(entries[k], b) = 0,
         v # k => \A b \in Blocks : Names(entries'[v], b) = 0,
         blockIds' = blockIds,
         refcount \in [Blocks -> Nat], refcount' \in [Blocks -> Nat],
         \A b \in Blocks : refcount'[b] + Names(entries[v], b)
                             = refcount[b] + Names(entries'[k], b)
  PROVE  RefcountExact'
<1>1. IsFiniteSet(Sessions) /\ IsFiniteSet(Prompts)
  BY ConstantsAssumption
<1> DEFINE without == [j \in Prompts |-> IF j = v THEN entries'[v] ELSE entries[j]]
<1>2. without \in [Prompts -> L]
  OBVIOUS
<1>3. ASSUME NEW b \in Blocks
      PROVE  refcount'[b] = Cardinality(Holders(b)') + Cardinality(EntriesOn(b)')
  <2>1. Cardinality(Owners(without, b)) + Names(entries[v], b)
          = Cardinality(Owners(entries, b)) + Names(without[v], b)
    <3>1. \A j \in Prompts : j # v => entries[j] = without[j]
      OBVIOUS
    <3> HIDE DEF without
    <3> QED BY ONLY <1>1, <1>2, <3>1, OwnersUpdate, v \in Prompts,
               entries \in [Prompts -> L]
  <2>2. Cardinality(Owners(entries', b)) + Names(without[k], b)
          = Cardinality(Owners(without, b)) + Names(entries'[k], b)
    <3>1. \A j \in Prompts : j # k => entries'[j] = without[j]
      OBVIOUS
    <3> HIDE DEF without
    <3> QED BY ONLY <1>1, <1>2, <3>1, OwnersUpdate, k \in Prompts,
               entries' \in [Prompts -> L]
  <2>3. /\ Cardinality(Owners(blockIds, b)) \in Nat
        /\ Cardinality(Owners(entries, b)) \in Nat
        /\ Cardinality(Owners(entries', b)) \in Nat
        /\ Cardinality(Owners(without, b)) \in Nat
    <3> HIDE DEF without
    <3> QED BY <1>1, <1>2, OwnersFinite
  <2>4. /\ Names(entries[v], b) \in Nat /\ Names(entries'[k], b) \in Nat
        /\ v # k => Names(without[v], b) = 0 /\ without[k] = entries[k]
        /\ v = k => without[v] = entries'[k] /\ Names(entries[v], b) = 0
    BY DEF Names
  <2>5. refcount[b] = Cardinality(Owners(blockIds, b))
                        + Cardinality(Owners(entries, b))
    BY DEF RefcountExact, Holders, EntriesOn
  <2>6. Names(entries[k], b) = 0
    OBVIOUS
  <2>7. refcount'[b] = Cardinality(Owners(blockIds, b))
                         + Cardinality(Owners(entries', b))
    <3> HIDE DEF without
    <3> QED BY <2>1, <2>2, <2>3, <2>4, <2>5, <2>6
  <2> QED BY <2>7 DEF Holders, EntriesOn
<1> QED BY <1>3 DEF RefcountExact

LEMMA PutFacts ==
  ASSUME IInv, NEW s \in Sessions, prompt[s] \in Prompts, Put(s),
         blockIds' = blockIds
  PROVE  /\ refcount' \in [Blocks -> Nat] /\ free' \subseteq Blocks
         /\ store' \in [Blocks -> Seq(Values)]
         /\ entries' \in [Prompts -> Seq(Blocks)] /\ lru' \in Seq(Prompts)
         /\ RefcountExact' /\ FreeUncounted' /\ Distinct'
<1> DEFINE k     == prompt[s]
           ids   == blockIds[s]
           taken == Incref(refcount, ids)
<1>1. /\ ids \in Seq(Blocks) /\ IsInjective(ids)
      /\ Range(ids) \subseteq Blocks
      /\ \A b \in Range(ids) : refcount[b] >= 1
  BY NamedCounted DEF IInv, ListsTypeOK, Distinct
<1>2. \A b \in Blocks : Names(<<>>, b) = 0 /\ Names(ids, b) \in {0, 1}
  BY DEF Names, Range
<1>3. /\ taken \in [Blocks -> Nat]
      /\ \A b \in Blocks : taken[b] = refcount[b] + Names(ids, b)
  BY <1>1 DEF Incref, Names, IInv, ListsTypeOK
<1>4. \A b \in Blocks : b \in free <=> taken[b] = 0
  <2>1. \A b \in Blocks : Names(ids, b) = 1 => refcount[b] >= 1
    BY <1>1 DEF Names
  <2>2. refcount \in [Blocks -> Nat]
    BY DEF IInv, ListsTypeOK
  <2> HIDE DEF ids, taken
  <2> QED BY <1>2, <1>3, <2>1, <2>2 DEF IInv, FreeUncounted
<1>5. CASE Cached(k) /\ MoveToEnd(k) /\ UNCHANGED <<refcount, free, store, entries>>
  BY <1>5, MoveToEndType, ListsUnchanged DEF IInv, ListsTypeOK
<1>6. CASE /\ ~Cached(k) /\ refcount' = taken
           /\ entries' = [entries EXCEPT ![k] = ids]
           /\ lru' = Append(lru, k) /\ UNCHANGED <<free, store>>
  <2>1. entries' \in [Prompts -> Seq(Blocks)] /\ lru' \in Seq(Prompts)
    BY <1>1, <1>6 DEF IInv, ListsTypeOK
  <2>2. FreeUncounted'
    BY <1>4, <1>6 DEF FreeUncounted
  <2>3. Distinct'
    BY <1>1, <1>6 DEF IInv, ListsTypeOK, Distinct
  <2>4. RefcountExact'
    <3>1. /\ \A j \in Prompts : j # k => entries'[j] = entries[j]
          /\ entries'[k] = ids /\ entries[k] = <<>>
      BY <1>6 DEF Cached, IInv, ListsTypeOK
    <3>2. \A b \in Blocks : refcount'[b] + Names(entries[k], b)
                               = refcount[b] + Names(entries'[k], b)
      <4> HIDE DEF k, ids, taken
      <4> QED BY <1>2, <1>3, <1>6, <3>1
    <3>3. k \in Prompts /\ RefcountExact /\ refcount' \in [Blocks -> Nat]
      BY <1>3, <1>6 DEF IInv
    <3>4. refcount \in [Blocks -> Nat] /\ blockIds \in [Sessions -> Seq(Blocks)]
          /\ entries \in [Prompts -> Seq(Blocks)]
      BY DEF IInv, ListsTypeOK
    <3>5. \A b \in Blocks : Names(entries[k], b) = 0
      <4> HIDE DEF k, ids, taken
      <4> QED BY <1>2, <3>1
    <3> HIDE DEF k, ids, taken
    <3> QED BY <2>1, <3>1, <3>2, <3>3, <3>4, <3>5, EntriesChange
  <2> QED BY <1>3, <1>6, <2>1, <2>2, <2>3, <2>4 DEF IInv, ListsTypeOK
<1>7. CASE /\ ~Cached(k) /\ FreeBlocks(taken, entries[Head(lru)])
           /\ MaxEntries > 0 /\ Len(lru) >= MaxEntries
           /\ entries' = [entries EXCEPT ![Head(lru)] = <<>>, ![k] = ids]
           /\ lru' = Append(Tail(lru), k)
  <2> DEFINE v == Head(lru)
  <2>1. v \in Prompts /\ lru' \in Seq(Prompts)
    BY <1>7, ConstantsAssumption DEF IInv, ListsTypeOK
  <2>2. /\ entries' \in [Prompts -> Seq(Blocks)] /\ entries[v] \in Seq(Blocks)
        /\ \A j \in Prompts : entries'[j] = IF j = k THEN ids
                                              ELSE IF j = v THEN <<>>
                                              ELSE entries[j]
    <3>1. entries \in [Prompts -> Seq(Blocks)] /\ <<>> \in Seq(Blocks)
      BY DEF IInv, ListsTypeOK
    <3>2. entries' = [entries EXCEPT ![v] = <<>>, ![k] = ids]
      BY <1>7
    <3> HIDE DEF k, v, ids, taken
    <3> QED BY <1>1, <2>1, <3>1, <3>2
  <2>3. \A b \in Range(entries[v]) : taken[b] >= 1
    <3>1. \A b \in Range(entries[v]) : b \in Blocks /\ refcount[b] >= 1
      BY <2>1, NamedCounted
    <3>2. refcount \in [Blocks -> Nat]
      BY DEF IInv, ListsTypeOK
    <3> HIDE DEF v, ids, taken
    <3> QED BY <1>2, <1>3, <3>1, <3>2
  <2>4. /\ refcount' \in [Blocks -> Nat]
        /\ \A b \in Blocks : refcount'[b] + Names(entries[v], b) = taken[b]
        /\ free' \subseteq Blocks /\ FreeUncounted'
        /\ store' \in [Blocks -> Seq(Values)]
    <3>1. free \subseteq Blocks /\ store \in [Blocks -> Seq(Values)]
      BY DEF IInv, ListsTypeOK
    <3>2. FreeBlocks(taken, entries[v])
      BY <1>7
    <3> HIDE DEF v, ids, taken
    <3> QED BY <1>3, <1>4, <2>2, <2>3, <3>1, <3>2, FreeBlocksCounts
  <2>5. Distinct'
    <3>1. IsInjective(<<>>)
      BY DEF IsInjective
    <3> HIDE DEF k, v, ids, taken
    <3> QED BY <1>1, <2>2, <3>1 DEF IInv, Distinct
  <2>6. RefcountExact'
    <3>1. /\ \A j \in Prompts : j # k /\ j # v => entries'[j] = entries[j]
          /\ v # k => entries'[v] = <<>>
          /\ entries'[k] = ids /\ entries[k] = <<>>
      BY <1>7, <2>1, <2>2 DEF Cached
    <3>2. \A b \in Blocks : refcount'[b] + Names(entries[v], b)
                               = refcount[b] + Names(entries'[k], b)
      <4> HIDE DEF k, v, ids, taken
      <4> QED BY <1>3, <2>4, <3>1
    <3>3. k \in Prompts /\ RefcountExact
      BY DEF IInv
    <3>4. refcount \in [Blocks -> Nat] /\ blockIds \in [Sessions -> Seq(Blocks)]
          /\ entries \in [Prompts -> Seq(Blocks)]
      BY DEF IInv, ListsTypeOK
    <3>5. /\ \A b \in Blocks : Names(entries[k], b) = 0
          /\ v # k => \A b \in Blocks : Names(entries'[v], b) = 0
      <4> HIDE DEF k, v, ids, taken
      <4> QED BY <1>2, <3>1
    <3> HIDE DEF k, v, ids, taken
    <3> QED BY <2>1, <2>2, <2>4, <3>1, <3>2, <3>3, <3>4, <3>5, EntriesChange
  <2> QED BY <2>1, <2>2, <2>4, <2>5, <2>6
<1> QED BY <1>5, <1>6, <1>7 DEF Put

LEMMA PutPromptIInv ==
  ASSUME IInv, NEW s \in Sessions, PutPrompt(s) PROVE IInv'
<1>1. prompt[s] \in Prompts
  BY DEF PutPrompt, IInv, StageInv, Prompted, Adding
<1>2. Put(s) /\ UNCHANGED <<blockIds, text, prompt>>
      /\ stage' = [stage EXCEPT ![s] = "ready"]
  BY DEF PutPrompt
<1>3. /\ refcount' \in [Blocks -> Nat] /\ free' \subseteq Blocks
      /\ store' \in [Blocks -> Seq(Values)]
      /\ entries' \in [Prompts -> Seq(Blocks)] /\ lru' \in Seq(Prompts)
      /\ RefcountExact' /\ FreeUncounted' /\ Distinct'
  BY <1>1, <1>2, PutFacts
<1>4. ListsTypeOK'
  BY <1>2, <1>3 DEF IInv, ListsTypeOK, Stages, Busy, InPass, Between, Adding
<1>5. StageInv'
  BY <1>2 DEF PutPrompt, IInv, ListsTypeOK, StageInv, Listless, Prompted, Adding
<1> QED BY <1>3, <1>4, <1>5 DEF IInv

LEMMA ClearCacheIInv ==
  ASSUME IInv, ClearCache PROVE IInv'
<1>1. \A b : /\ Cardinality(Holders(b)) \in Nat
              /\ Cardinality(EntriesOn(b)) \in Nat
  BY OwnersFinite, ConstantsAssumption DEF Holders, EntriesOn, IInv, ListsTypeOK
<1>2. /\ refcount' \in [Blocks -> Nat]
      /\ \A b \in Blocks : refcount'[b] = Cardinality(Holders(b))
  <2>1. \A b \in Blocks :
          refcount[b] = Cardinality(Holders(b)) + Cardinality(EntriesOn(b))
    BY DEF IInv, RefcountExact
  <2> QED BY <1>1, <2>1 DEF ClearCache
<1>3. RefcountExact'
  <2>1. \A b : EntriesOn(b)' = {} /\ Holders(b)' = Holders(b)
    BY DEF ClearCache, EntriesOn, Holders, Owners, Range
  <2>2. Cardinality({}) = 0
    BY FS_EmptySet
  <2> QED BY <1>1, <1>2, <2>1, <2>2 DEF RefcountExact
<1>4. FreeUncounted' /\ free' \subseteq Blocks
  <2>1. \A b \in Blocks :
          refcount[b] = Cardinality(Holders(b)) + Cardinality(EntriesOn(b))
    BY DEF IInv, RefcountExact
  <2>2. free \subseteq Blocks /\ FreeUncounted
    BY DEF IInv, ListsTypeOK
  <2> QED BY <1>1, <1>2, <2>1, <2>2 DEF ClearCache, FreeUncounted
<1>5. ListsTypeOK'
  BY <1>2, <1>4 DEF ClearCache, IInv, ListsTypeOK
<1>6. Distinct'
  BY DEF ClearCache, IInv, Distinct, IsInjective
<1>7. StageInv'
  BY DEF ClearCache, IInv, StageInv
<1> QED BY <1>3, <1>4, <1>5, <1>6, <1>7 DEF IInv

-----------------------------------------------------------------------------
(***************************************************************************)
(* The passes that write K/V touch no list and no count.                   *)
(***************************************************************************)
LEMMA ConcatLen ==
  ASSUME NEW S, NEW x \in Seq(S), NEW y \in Seq(S)
  PROVE  Len(x \o y) = Len(x) + Len(y)
OBVIOUS

LEMMA WriteTokensType ==
  ASSUME text \in [Sessions -> Seq(Tokens)], store \in [Blocks -> Seq(Values)],
         NEW W \in SUBSET Sessions, NEW xs, \A s \in W : xs[s] \in Seq(Tokens),
         WriteTokens(W, xs)
  PROVE  text' \in [Sessions -> Seq(Tokens)] /\ store' \in [Blocks -> Seq(Values)]
<1> DEFINE new(s) == text[s] \o xs[s]
           at(s, b, k) == {p \in (Len(text[s]) + 1)..Len(new(s)) :
                             BlockAt(blockIds[s], p) = b /\ SlotAt(p) = k}
           writers(b, k) == {s \in W : at(s, b, k) # {}}
           written(b, k) == LET s == CHOOSE s \in writers(b, k) : TRUE
                            IN  SubSeq(new(s), 1, CHOOSE p \in at(s, b, k) : TRUE)
<1>1. \A s \in W : new(s) \in Seq(Tokens)
  OBVIOUS
<1>2. text' \in [Sessions -> Seq(Tokens)]
  BY <1>1 DEF WriteTokens
<1>3. ASSUME NEW b \in Blocks, NEW k \in 1..Len(store[b])
      PROVE  (IF writers(b, k) # {} THEN written(b, k) ELSE store[b][k]) \in Values
  <2>1. CASE writers(b, k) # {}
    <3> DEFINE s == CHOOSE s \in writers(b, k) : TRUE
               p == CHOOSE p \in at(s, b, k) : TRUE
    <3>1. s \in W /\ at(s, b, k) # {}
      BY <2>1
    <3>2. new(s) \in Seq(Tokens)
      BY <1>1, <3>1
    <3>3. p \in 1..Len(new(s))
      <4>1. p \in (Len(text[s]) + 1)..Len(new(s))
        BY <3>1
      <4>2. Len(text[s]) \in Nat
        BY <3>1
      <4>3. Len(new(s)) \in Nat
        <5> HIDE DEF s, new
        <5> QED BY <3>2
      <4> HIDE DEF p, s, new
      <4> QED BY <4>1, <4>2, <4>3
    <3>4. SubSeq(new(s), 1, p) \in Seq(Tokens)
      <4> HIDE DEF p, s, new
      <4> QED BY <3>2, <3>3
    <3> QED BY <2>1, <3>4 DEF Values
  <2>2. CASE writers(b, k) = {}
    <3>1. store[b] \in Seq(Values)
      OBVIOUS
    <3>2. store[b][k] \in Values
      BY ONLY <3>1, k \in 1..Len(store[b])
    <3> QED BY <2>2, <3>2
  <2> QED BY <2>1, <2>2
<1>4. store' \in [Blocks -> Seq(Values)]
  <2>1. store' = [b \in Blocks |-> [k \in 1..Len(store[b]) |->
                    IF writers(b, k) # {} THEN written(b, k) ELSE store[b][k]]]
    BY DEF WriteTokens
  <2> HIDE DEF writers, written
  <2> QED BY <1>3, <2>1
<1> QED BY <1>2, <1>4

LEMMA ChunkType ==
  ASSUME text \in [Sessions -> Seq(Tokens)], NEW s \in Sessions,
         prompt[s] \in Seq(Tokens)
  PROVE  Chunk(s) \in Seq(Tokens)
<1> DEFINE p    == prompt[s]
           from == Len(text[s]) + 1
           end  == Len(text[s]) + ChunkSize
           upto == IF end < Len(p) THEN end ELSE Len(p)
<1>1. from \in Nat \ {0} /\ upto \in Int /\ upto <= Len(p) /\ p \in Seq(Tokens)
  BY ConstantsAssumption
<1>2. Chunk(s) = SubSeq(p, from, upto)
  BY DEF Chunk
<1> HIDE DEF p, from, upto
<1>3. SubSeq(p, from, upto) \in Seq(Tokens)
  BY ONLY <1>1
<1> QED BY <1>2, <1>3

LEMMA WritesIInv ==
  ASSUME IInv,
         PrefillWrite \/ SuffixWrite \/ DecodeWrite \/ ChunkWrite \/ SoloWrite
  PROVE  IInv'
<1>1. text \in [Sessions -> Seq(Tokens)] /\ store \in [Blocks -> Seq(Values)]
  BY DEF IInv, ListsTypeOK
<1>2. CASE PrefillWrite
  <2>1. \A s \in At("fill") : prompt[s] \in Seq(Tokens)
    BY ConstantsAssumption DEF At, IInv, StageInv, Prompted, Adding
  <2>2. text' \in [Sessions -> Seq(Tokens)] /\ store' \in [Blocks -> Seq(Values)]
    BY <1>1, <1>2, <2>1, WriteTokensType DEF PrefillWrite, At
  <2>3. ListsTypeOK'
    BY <1>2, <2>2 DEF PrefillWrite, IInv, ListsTypeOK, Stages, Busy, InPass, Between, Adding
  <2>4. StageInv'
    BY <1>2 DEF PrefillWrite, WriteTokens, At, IInv, ListsTypeOK, StageInv, Listless, Prompted, Adding
  <2> QED BY <1>2, <2>3, <2>4, ListsUnchanged DEF PrefillWrite, IInv
<1>3. CASE SuffixWrite
  <2> DEFINE xs == [s \in At("splice") |-> <<SuffixToken(s)>>]
  <2>1. \A s \in At("splice") : xs[s] \in Seq(Tokens) /\ Len(xs[s]) = 1
    <3>1. \A s \in At("splice") : Len(text[s]) < Len(prompt[s])
                                   /\ prompt[s] \in Seq(Tokens)
      BY ConstantsAssumption DEF At, IInv, StageInv, Prompted, Adding
    <3>2. \A s \in At("splice") : SuffixToken(s) \in Tokens
      BY <1>1, <3>1 DEF SuffixToken, At
    <3> QED BY <3>2
  <2>2. WriteTokens(At("splice"), xs) /\ At("splice") \subseteq Sessions
    BY <1>3 DEF SuffixWrite, At
  <2>3. text' \in [Sessions -> Seq(Tokens)] /\ store' \in [Blocks -> Seq(Values)]
    <3> HIDE DEF xs
    <3> QED BY <1>1, <2>1, <2>2, WriteTokensType
  <2>4. ListsTypeOK'
    BY <1>3, <2>3 DEF SuffixWrite, IInv, ListsTypeOK, Stages, Busy, InPass, Between, Adding
  <2>5. \A s \in Sessions :
          text'[s] = IF s \in At("splice") THEN text[s] \o xs[s] ELSE text[s]
    BY <2>2 DEF WriteTokens
  <2>6. \A s \in At("splice") : Len(text'[s]) = Len(text[s]) + 1
    <3> SUFFICES ASSUME NEW s \in At("splice")
                 PROVE  Len(text'[s]) = Len(text[s]) + 1
      OBVIOUS
    <3>1. text[s] \in Seq(Tokens) /\ xs[s] \in Seq(Tokens) /\ Len(xs[s]) = 1
      BY <1>1, <2>1, <2>2
    <3>2. text'[s] = text[s] \o xs[s]
      BY <2>2, <2>5
    <3> HIDE DEF xs
    <3> QED BY ONLY <3>1, <3>2, ConcatLen
  <2>7. StageInv'
    <3> SUFFICES ASSUME NEW s \in Sessions
                 PROVE  /\ stage'[s] \in Listless => blockIds'[s] = <<>>
                        /\ stage'[s] \in {"suffix", "splice"}
                             => Len(text'[s]) < Len(prompt'[s])
                        /\ stage'[s] \in Prompted => prompt'[s] \in Prompts
      BY DEF StageInv
    <3>1. /\ blockIds' = blockIds /\ prompt' = prompt
          /\ stage'[s] = IF stage[s] # "splice" THEN stage[s]
                         ELSE IF Len(text[s]) + 1 = Len(prompt[s]) THEN "sufput"
                                                                   ELSE "suffix"
      BY <1>3 DEF SuffixWrite
    <3>2. /\ stage[s] \in Listless => blockIds[s] = <<>>
          /\ stage[s] \in {"suffix", "splice"} => Len(text[s]) < Len(prompt[s])
          /\ stage[s] \in Prompted => prompt[s] \in Prompts
      BY DEF IInv, StageInv
    <3>3. CASE stage[s] # "splice"
      BY <2>5, <3>1, <3>2, <3>3 DEF At
    <3>4. CASE stage[s] = "splice"
      <4>1. Len(text'[s]) = Len(text[s]) + 1
        BY <2>6, <3>4 DEF At
      <4>2. Len(text[s]) \in Nat /\ Len(prompt[s]) \in Nat
        BY <1>1, <3>2, <3>4, ConstantsAssumption DEF Prompted, Adding
      <4> QED BY <3>1, <3>2, <3>4, <4>1, <4>2 DEF Listless, Prompted, Adding
    <3> QED BY <3>3, <3>4
  <2> QED BY <1>3, <2>4, <2>7, ListsUnchanged DEF SuffixWrite, IInv
<1>4. CASE DecodeWrite
  <2>1. PICK ts \in [At("append") -> Tokens] :
          WriteTokens(At("append"), [s \in At("append") |-> <<ts[s]>>])
    BY <1>4 DEF DecodeWrite
  <2> DEFINE xs == [s \in At("append") |-> <<ts[s]>>]
  <2>2. text' \in [Sessions -> Seq(Tokens)] /\ store' \in [Blocks -> Seq(Values)]
    <3>1. \A s \in At("append") : xs[s] \in Seq(Tokens)
      OBVIOUS
    <3>2. WriteTokens(At("append"), xs) /\ At("append") \subseteq Sessions
      BY <2>1 DEF At
    <3> HIDE DEF xs
    <3> QED BY <1>1, <3>1, <3>2, WriteTokensType
  <2>3. ListsTypeOK'
    BY <1>4, <2>2 DEF DecodeWrite, IInv, ListsTypeOK, Stages, Busy, InPass, Stepping
  <2>4. StageInv'
    BY <1>4, <2>1 DEF DecodeWrite, WriteTokens, At, IInv, ListsTypeOK, StageInv,
                      Listless, Prompted, Adding
  <2> QED BY <1>4, <2>3, <2>4, ListsUnchanged DEF DecodeWrite, IInv
<1>5. CASE ChunkWrite
  <2> DEFINE xs == [s \in At("chunkfill") |-> Chunk(s)]
  <2>1. \A s \in At("chunkfill") : xs[s] \in Seq(Tokens)
    <3>1. \A s \in At("chunkfill") : s \in Sessions /\ prompt[s] \in Seq(Tokens)
      BY ConstantsAssumption DEF At, IInv, StageInv, Prompted
    <3> QED BY <1>1, <3>1, ChunkType
  <2>2. WriteTokens(At("chunkfill"), xs) /\ At("chunkfill") \subseteq Sessions
    BY <1>5 DEF ChunkWrite, At
  <2>3. text' \in [Sessions -> Seq(Tokens)] /\ store' \in [Blocks -> Seq(Values)]
    <3> HIDE DEF xs
    <3> QED BY <1>1, <2>1, <2>2, WriteTokensType
  <2>4. ListsTypeOK'
    BY <1>5, <2>3 DEF ChunkWrite, IInv, ListsTypeOK, Stages, Busy, InPass, Between, Adding
  <2>5. \A s \in Sessions : \/ stage'[s] = stage[s] /\ text'[s] = text[s]
                            \/ stage[s] = "chunkfill" /\ stage'[s] \in {"put", "queued"}
    <3>1. \A s \in Sessions : stage'[s] = IF stage[s] # "chunkfill" THEN stage[s]
                                ELSE IF Len(text[s]) + Len(Chunk(s)) = Len(prompt[s])
                                THEN "put" ELSE "queued"
      BY <1>5 DEF ChunkWrite
    <3>2. \A s \in Sessions : stage[s] # "chunkfill" => text'[s] = text[s]
      BY <2>2 DEF WriteTokens, At
    <3> SUFFICES ASSUME NEW s \in Sessions
                 PROVE  \/ stage'[s] = stage[s] /\ text'[s] = text[s]
                        \/ stage[s] = "chunkfill" /\ stage'[s] \in {"put", "queued"}
      OBVIOUS
    <3>3. CASE stage[s] = "chunkfill"
      BY <3>1, <3>3
    <3>4. CASE stage[s] # "chunkfill"
      BY <3>1, <3>2, <3>4
    <3> QED BY <3>3, <3>4
  <2>6. StageInv'
    BY <1>5, <2>5 DEF ChunkWrite, IInv, StageInv, Listless, Prompted, Adding
  <2> QED BY <1>5, <2>4, <2>6, ListsUnchanged DEF ChunkWrite, IInv
<1>6. CASE SoloWrite
  <2>1. \A s \in At("solofill") : prompt[s] \in Seq(Tokens)
    BY ConstantsAssumption DEF At, IInv, StageInv, Prompted
  <2>2. text' \in [Sessions -> Seq(Tokens)] /\ store' \in [Blocks -> Seq(Values)]
    BY <1>1, <1>6, <2>1, WriteTokensType DEF SoloWrite, At
  <2>3. ListsTypeOK'
    BY <1>6, <2>2 DEF SoloWrite, IInv, ListsTypeOK, Stages, Busy, Between
  <2>4. StageInv'
    BY <1>6 DEF SoloWrite, WriteTokens, At, IInv, ListsTypeOK, StageInv, Listless,
                Prompted, Adding
  <2> QED BY <1>6, <2>3, <2>4, ListsUnchanged DEF SoloWrite, IInv
<1> QED BY <1>2, <1>3, <1>4, <1>5, <1>6

-----------------------------------------------------------------------------
(***************************************************************************)
(* reserve_append_tokens.  The new blocks are free, so nobody's list names *)
(* them; a copied block is given up by this session and, counted more than *)
(* once, stays in use.                                                     *)
(***************************************************************************)
LEMMA JoinFacts ==
  ASSUME NEW S, NEW x \in Seq(S), NEW y \in Seq(S)
  PROVE  /\ x \o y \in Seq(S) /\ Len(x \o y) = Len(x) + Len(y)
         /\ \A i \in 1..(Len(x) + Len(y)) :
              (x \o y)[i] = IF i <= Len(x) THEN x[i] ELSE y[i - Len(x)]
OBVIOUS

LEMMA FrontFacts ==
  ASSUME NEW S, NEW x \in Seq(S), x # <<>>
  PROVE  /\ Front(x) \in Seq(S) /\ Len(Front(x)) = Len(x) - 1
         /\ \A i \in 1..(Len(x) - 1) : Front(x)[i] = x[i]
         /\ Len(x) \in Nat \ {0}
<1>1. Len(x) \in Nat \ {0}
  BY EmptySeq
<1>2. Front(x) = SubSeq(x, 1, Len(x) - 1)
  BY DEF Front
<1>3. /\ SubSeq(x, 1, Len(x) - 1) \in Seq(S)
      /\ Len(SubSeq(x, 1, Len(x) - 1)) = Len(x) - 1
      /\ \A i \in 1..(Len(x) - 1) : SubSeq(x, 1, Len(x) - 1)[i] = x[i]
  BY ONLY <1>1, x \in Seq(S)
<1> QED BY <1>1, <1>2, <1>3

LEMMA ConcatInjective ==
  ASSUME NEW S, NEW x \in Seq(S), NEW y \in Seq(S),
         IsInjective(x), IsInjective(y), Range(x) \cap Range(y) = {}
  PROVE  /\ x \o y \in Seq(S) /\ IsInjective(x \o y)
         /\ Range(x \o y) = Range(x) \cup Range(y)
<1>1. /\ x \o y \in Seq(S) /\ Len(x \o y) = Len(x) + Len(y)
      /\ \A i \in 1..(Len(x) + Len(y)) :
           (x \o y)[i] = IF i <= Len(x) THEN x[i] ELSE y[i - Len(x)]
  BY JoinFacts
<1>2. IsInjective(x \o y)
  <2> SUFFICES ASSUME NEW i \in 1..(Len(x) + Len(y)), NEW j \in 1..(Len(x) + Len(y)),
                      (x \o y)[i] = (x \o y)[j]
               PROVE  i = j
    BY <1>1 DEF IsInjective
  <2>1. \A k \in 1..Len(x), m \in 1..Len(y) : x[k] # y[m]
    <3> SUFFICES ASSUME NEW k \in 1..Len(x), NEW m \in 1..Len(y) PROVE x[k] # y[m]
      OBVIOUS
    <3>1. x[k] \in Range(x) /\ y[m] \in Range(y)
      BY DEF Range
    <3> QED BY <3>1
  <2>2. CASE i <= Len(x) /\ j <= Len(x)
    BY <1>1, <2>2 DEF IsInjective
  <2>3. CASE i > Len(x) /\ j > Len(x)
    BY <1>1, <2>3 DEF IsInjective
  <2>4. CASE i <= Len(x) /\ j > Len(x)
    BY <1>1, <2>1, <2>4
  <2>5. CASE i > Len(x) /\ j <= Len(x)
    BY <1>1, <2>1, <2>5
  <2>6. i \in Int /\ j \in Int /\ Len(x) \in Int
    OBVIOUS
  <2> QED BY ONLY <2>2, <2>3, <2>4, <2>5, <2>6
<1>3. Range(x \o y) = Range(x) \cup Range(y)
  <2>1. ASSUME NEW e \in Range(x \o y) PROVE e \in Range(x) \cup Range(y)
    <3>1. PICK i \in 1..(Len(x) + Len(y)) : (x \o y)[i] = e
      BY <1>1 DEF Range
    <3> QED BY <1>1, <3>1 DEF Range
  <2>2. ASSUME NEW e \in Range(x) PROVE e \in Range(x \o y)
    <3>1. PICK i \in 1..Len(x) : x[i] = e
      BY DEF Range
    <3> QED BY <1>1, <3>1 DEF Range
  <2>3. ASSUME NEW e \in Range(y) PROVE e \in Range(x \o y)
    <3>1. PICK i \in 1..Len(y) : y[i] = e
      BY DEF Range
    <3>2. Len(x) + i \in 1..(Len(x) + Len(y)) /\ (x \o y)[Len(x) + i] = e
      BY <1>1, <3>1
    <3> QED BY <1>1, <3>2 DEF Range
  <2> QED BY <2>1, <2>2, <2>3
<1> QED BY <1>1, <1>2, <1>3

LEMMA FrontInjective ==
  ASSUME NEW S, NEW x \in Seq(S), x # <<>>, IsInjective(x)
  PROVE  /\ Front(x) \in Seq(S) /\ IsInjective(Front(x))
         /\ Last(x) \in Range(x)
         /\ Range(Front(x)) = Range(x) \ {Last(x)}
<1>1. /\ Front(x) \in Seq(S) /\ Len(Front(x)) = Len(x) - 1
      /\ \A i \in 1..(Len(x) - 1) : Front(x)[i] = x[i]
      /\ Len(x) \in Nat \ {0}
  BY FrontFacts
<1>2. Last(x) \in Range(x)
  BY <1>1 DEF Last, Range
<1>3. IsInjective(Front(x))
  BY <1>1 DEF IsInjective
<1>4. Range(Front(x)) = Range(x) \ {Last(x)}
  <2>1. ASSUME NEW e \in Range(Front(x)) PROVE e \in Range(x) \ {Last(x)}
    <3>1. PICK i \in 1..(Len(x) - 1) : x[i] = e
      BY <1>1 DEF Range
    <3> QED BY <1>1, <3>1 DEF IsInjective, Range, Last
  <2>2. ASSUME NEW e \in Range(x), e # Last(x) PROVE e \in Range(Front(x))
    <3>1. PICK i \in 1..Len(x) : x[i] = e
      BY DEF Range
    <3>2. i \in 1..(Len(x) - 1)
      BY <1>1, <2>2, <3>1 DEF Last
    <3> QED BY <1>1, <3>1, <3>2 DEF Range
  <2> QED BY <2>1, <2>2
<1> QED BY <1>1, <1>2, <1>3, <1>4

LEMMA NumBlocksNat ==
  ASSUME NEW n \in Nat
  PROVE  NumBlocks(n) \in Nat
BY ConstantsAssumption DEF NumBlocks

LEMMA LastRoomInt ==
  ASSUME store \in [Blocks -> Seq(Values)], NEW ids \in Seq(Blocks)
  PROVE  LastRoom(ids) \in Int /\ (LastRoom(ids) > 0 => ids # <<>>)
<1>1. CASE ids = <<>>
  BY <1>1 DEF LastRoom
<1>2. CASE ids # <<>>
  <2>1. Last(ids) \in Blocks
    BY <1>2, EmptySeq DEF Last
  <2>2. Len(store[Last(ids)]) \in Nat
    BY <2>1
  <2> QED BY <1>2, <2>2, ConstantsAssumption DEF LastRoom
<1> QED BY <1>1, <1>2

LEMMA BlocksNeededNat ==
  ASSUME ListsTypeOK, NEW s \in Sessions, NEW n \in Nat
  PROVE  BlocksNeeded(s, n) \in Nat
<1> DEFINE room == LastRoom(blockIds[s])
<1>1. room \in Int
  BY LastRoomInt DEF ListsTypeOK
<1>2. (IF n > room THEN n - room ELSE 0) \in Nat
  BY <1>1
<1>3. NumBlocks(IF n > room THEN n - room ELSE 0) \in Nat
  BY <1>2, NumBlocksNat
<1> QED BY <1>3 DEF BlocksNeeded

LEMMA ExtendedFacts ==
  ASSUME IInv, NEW s \in Sessions, NEW n \in Nat,
         NEW new \in Injection(1..n, free)
  PROVE  /\ Extended(s, new) \in Seq(Blocks) /\ IsInjective(Extended(s, new))
         /\ Range(new) \subseteq free
         /\ MustCopy(s) => Last(blockIds[s]) \in Range(blockIds[s])
         /\ Range(Extended(s, new)) =
              Range(new) \cup (IF MustCopy(s)
                               THEN Range(blockIds[s]) \ {Last(blockIds[s])}
                               ELSE Range(blockIds[s]))
<1> DEFINE old == blockIds[s]
<1>1. /\ old \in Seq(Blocks) /\ IsInjective(old) /\ free \subseteq Blocks
      /\ \A b \in Range(old) : b \notin free
  BY NamedCounted DEF IInv, ListsTypeOK, Distinct
<1>2. new \in [1..n -> free] /\ IsInjective(new)
  BY DEF Injection
<1>3. new \in Seq(Blocks) /\ Range(new) \subseteq free
  BY <1>1, <1>2 DEF Range
<1>4. CASE MustCopy(s)
  <2>1. old # <<>>
    BY <1>1, <1>4, LastRoomInt DEF MustCopy, IInv, ListsTypeOK
  <2>2. /\ Front(old) \in Seq(Blocks) /\ IsInjective(Front(old))
        /\ Last(old) \in Range(old) /\ Range(Front(old)) = Range(old) \ {Last(old)}
    <3> HIDE DEF old
    <3> QED BY <1>1, <2>1, FrontInjective
  <2>3. Range(Front(old)) \cap Range(new) = {}
    BY <1>1, <1>3, <2>2
  <2>4. Extended(s, new) = Front(old) \o new
    BY <1>4 DEF Extended
  <2> HIDE DEF old
  <2>5. /\ Front(old) \o new \in Seq(Blocks) /\ IsInjective(Front(old) \o new)
        /\ Range(Front(old) \o new) = Range(Front(old)) \cup Range(new)
    BY <1>2, <1>3, <2>2, <2>3, ConcatInjective
  <2> QED BY <1>3, <1>4, <2>2, <2>4, <2>5 DEF old
<1>5. CASE ~MustCopy(s)
  <2>1. Range(old) \cap Range(new) = {}
    BY <1>1, <1>3
  <2>2. Extended(s, new) = old \o new
    BY <1>5 DEF Extended
  <2> HIDE DEF old
  <2>3. /\ old \o new \in Seq(Blocks) /\ IsInjective(old \o new)
        /\ Range(old \o new) = Range(old) \cup Range(new)
    BY <1>1, <1>2, <1>3, <2>1, ConcatInjective
  <2> QED BY <1>3, <1>5, <2>2, <2>3 DEF old
<1> QED BY <1>4, <1>5

LEMMA SlotsType ==
  ASSUME ListsTypeOK, NEW s \in Sessions, NEW i \in Nat \ {0}, NEW total \in Int
  PROVE  Slots(s, i, total) \in Seq(Values)
<1> DEFINE had  == IF i <= Len(blockIds[s]) THEN store[blockIds[s][i]] ELSE <<>>
           upto == IF total >= i * BlockSize THEN BlockSize
                                             ELSE total - (i - 1) * BlockSize
           slots == [k \in 1..upto |-> IF k <= Len(had) THEN had[k] ELSE Unwritten]
<1>1. had \in Seq(Values)
  <2>1. blockIds[s] \in Seq(Blocks)
    BY DEF ListsTypeOK
  <2>2. CASE i <= Len(blockIds[s])
    <3>1. blockIds[s][i] \in Blocks
      BY <2>1, <2>2
    <3> QED BY <2>2, <3>1 DEF ListsTypeOK
  <2>3. CASE ~(i <= Len(blockIds[s]))
    BY <2>3
  <2> QED BY <2>2, <2>3
<1>2. upto \in Int
  BY ConstantsAssumption
<1>3. \A k \in 1..upto : (IF k <= Len(had) THEN had[k] ELSE Unwritten) \in Values
  <2> SUFFICES ASSUME NEW k \in 1..upto
               PROVE  (IF k <= Len(had) THEN had[k] ELSE Unwritten) \in Values
    OBVIOUS
  <2>1. Unwritten \in Values
    BY DEF Unwritten, Values
  <2>2. k \in Nat \ {0}
    <3> HIDE DEF upto
    <3> QED BY <1>2
  <2>3. CASE k <= Len(had)
    <3>1. had[k] \in Values
      <4> HIDE DEF had
      <4> QED BY <1>1, <2>2, <2>3
    <3> QED BY <2>3, <3>1
  <2>4. CASE ~(k <= Len(had))
    BY <2>1, <2>4
  <2> QED BY <2>3, <2>4
<1>4. slots \in Seq(Values)
  <2> DEFINE f(k) == IF k <= Len(had) THEN had[k] ELSE Unwritten
  <2>1. slots = [k \in 1..upto |-> f(k)] /\ \A k \in 1..upto : f(k) \in Values
    BY <1>3
  <2> HIDE DEF f, upto, slots
  <2>2. CASE upto \in Nat
    BY <2>1, <2>2
  <2>3. CASE upto \notin Nat
    <3>1. 1..upto = {}
      BY <1>2, <2>3
    <3>2. slots = <<>>
      BY <2>1, <3>1
    <3> QED BY <3>2
  <2> QED BY <2>2, <2>3
<1> QED BY <1>4 DEF Slots

LEMMA ReservedInt ==
  ASSUME ListsTypeOK, NEW s \in Sessions
  PROVE  Reserved(blockIds[s]) \in Int
<1> DEFINE ids == blockIds[s]
<1>1. ids \in Seq(Blocks)
  BY DEF ListsTypeOK
<1>2. CASE ids = <<>>
  BY <1>2 DEF Reserved
<1>3. CASE ids # <<>>
  <2>1. Last(ids) \in Blocks
    <3> HIDE DEF ids
    <3> QED BY <1>1, <1>3, EmptySeq DEF Last
  <2>2. Len(store[Last(ids)]) \in Nat /\ Len(ids) \in Nat
    BY <1>1, <2>1 DEF ListsTypeOK
  <2> HIDE DEF ids
  <2>3. Reserved(ids) \in Int
    BY <1>3, <2>2, ConstantsAssumption DEF Reserved
  <2> QED BY <2>3 DEF ids
<1> QED BY <1>2, <1>3

LEMMA ReserveAppendFacts ==
  ASSUME IInv, NEW s \in Sessions, NEW n \in Nat, ReserveAppend(s, n),
         entries' = entries
  PROVE  /\ refcount' \in [Blocks -> Nat] /\ free' \subseteq Blocks
         /\ store' \in [Blocks -> Seq(Values)]
         /\ blockIds' \in [Sessions -> Seq(Blocks)]
         /\ \A r \in Sessions : r # s => blockIds'[r] = blockIds[r]
         /\ RefcountExact' /\ FreeUncounted' /\ Distinct'
<1> DEFINE old == blockIds[s]
           need == BlocksNeeded(s, n)
           total == Reserved(old) + n
<1>1. PICK new \in Injection(1..need, free) :
        /\ blockIds' = [blockIds EXCEPT ![s] = Extended(s, new)]
        /\ free' = free \ Range(new)
        /\ refcount' = RefsReserved(s, new)
        /\ store' = [b \in Blocks |->
             IF \E i \in {i \in 1..Len(Extended(s, new)) : i >= Len(old)} :
                  Extended(s, new)[i] = b
             THEN Slots(s, CHOOSE i \in {i \in 1..Len(Extended(s, new)) :
                                          i >= Len(old)} :
                             Extended(s, new)[i] = b, total)
             ELSE store[b]]
  BY DEF ReserveAppend
<1> DEFINE ids == Extended(s, new)
<1>2. ListsTypeOK
  BY DEF IInv
<1>3. need \in Nat
  BY <1>2, BlocksNeededNat
<1>4. /\ ids \in Seq(Blocks) /\ IsInjective(ids) /\ Range(new) \subseteq free
      /\ MustCopy(s) => Last(old) \in Range(old)
      /\ Range(ids) = Range(new) \cup (IF MustCopy(s) THEN Range(old) \ {Last(old)}
                                                     ELSE Range(old))
  <2> HIDE DEF need
  <2> QED BY <1>3, ExtendedFacts
<1>5. /\ blockIds' \in [Sessions -> Seq(Blocks)] /\ blockIds'[s] = ids
      /\ \A r \in Sessions : r # s => blockIds'[r] = blockIds[r]
  <2> HIDE DEF ids
  <2> QED BY <1>1, <1>2, <1>4 DEF ListsTypeOK, ids
<1>6. /\ free \subseteq Blocks /\ refcount \in [Blocks -> Nat]
      /\ \A b \in Blocks : b \in free <=> refcount[b] = 0
      /\ \A b \in Range(old) : b \in Blocks /\ refcount[b] >= 1
      /\ MustCopy(s) => refcount[Last(old)] # 1
  BY NamedCounted DEF IInv, ListsTypeOK, FreeUncounted, MustCopy
<1>7. /\ refcount' \in [Blocks -> Nat]
      /\ \A b \in Blocks : b \in free' <=> refcount'[b] = 0
      /\ \A b \in Blocks : refcount'[b] + Names(old, b) = refcount[b] + Names(ids, b)
  <2>1. refcount' = [b \in Blocks |-> IF b \in Range(new) THEN 1
                                      ELSE IF MustCopy(s) /\ b = Last(old)
                                      THEN refcount[b] - 1 ELSE refcount[b]]
    BY <1>1 DEF RefsReserved
  <2>2. free' = free \ Range(new)
    BY <1>1
  <2> SUFFICES ASSUME NEW b \in Blocks
               PROVE  /\ refcount'[b] \in Nat
                      /\ b \in free' <=> refcount'[b] = 0
                      /\ refcount'[b] + Names(old, b) = refcount[b] + Names(ids, b)
    BY <2>1
  <2> HIDE DEF old, ids
  <2>3. CASE b \in Range(new)
    BY ONLY <1>4, <1>6, <2>1, <2>2, <2>3, b \in Blocks DEF Names
  <2>4. CASE b \notin Range(new) /\ MustCopy(s) /\ b = Last(old)
    BY ONLY <1>4, <1>6, <2>1, <2>2, <2>4, b \in Blocks DEF Names
  <2>5. CASE b \notin Range(new) /\ ~(MustCopy(s) /\ b = Last(old))
    BY ONLY <1>4, <1>6, <2>1, <2>2, <2>5, b \in Blocks DEF Names
  <2> QED BY <2>3, <2>4, <2>5
<1>8. store' \in [Blocks -> Seq(Values)]
  <2> SUFFICES ASSUME NEW b \in Blocks PROVE store'[b] \in Seq(Values)
    BY <1>1
  <2> DEFINE grown == {i \in 1..Len(ids) : i >= Len(old)}
  <2>1. CASE \E i \in grown : ids[i] = b
    <3> DEFINE i == CHOOSE i \in grown : ids[i] = b
    <3>1. i \in grown
      BY <2>1
    <3>2. i \in Nat \ {0}
      <4> HIDE DEF i, ids, old
      <4> QED BY <3>1
    <3>3. total \in Int
      BY <1>2, ReservedInt
    <3>4. Slots(s, i, total) \in Seq(Values)
      <4> HIDE DEF i, total
      <4> QED BY <1>2, <3>2, <3>3, SlotsType
    <3>5. store'[b] = Slots(s, i, total)
      BY <1>1, <2>1
    <3> QED BY <3>4, <3>5
  <2>2. CASE ~\E i \in grown : ids[i] = b
    BY <1>1, <1>2, <2>2 DEF ListsTypeOK
  <2> QED BY <2>1, <2>2
<1>9. RefcountExact'
  <2>1. /\ blockIds \in [Sessions -> Seq(Blocks)]
        /\ entries \in [Prompts -> Seq(Blocks)] /\ RefcountExact
    BY DEF IInv, ListsTypeOK
  <2> HIDE DEF ids
  <2> QED BY <1>5, <1>6, <1>7, <2>1, OneListChanges
<1>10. Distinct'
  <2> HIDE DEF ids
  <2> QED BY <1>4, <1>5 DEF IInv, Distinct
<1>11. free' \subseteq Blocks
  BY <1>1, <1>6
<1> QED BY <1>5, <1>7, <1>8, <1>9, <1>10, <1>11 DEF FreeUncounted

LEMMA AmountNat ==
  ASSUME IInv, NEW s \in Sessions PROVE Amount(s) \in Nat
<1>1. \A x \in Seq(Tokens) : Len(x) \in Nat
  OBVIOUS
<1>2. prompt[s] \in Seq(Tokens)
  <2>1. prompt[s] \in Prompts \cup {<<>>}
    BY DEF IInv, ListsTypeOK
  <2>2. <<>> \in Seq(Tokens) /\ Prompts \subseteq Seq(Tokens)
    BY ConstantsAssumption
  <2> QED BY ONLY <2>1, <2>2
<1>3. Chunk(s) \in Seq(Tokens)
  BY <1>2, ChunkType DEF IInv, ListsTypeOK
<1> QED BY <1>1, <1>2, <1>3 DEF Amount

LEMMA ReserveIInv ==
  ASSUME IInv, NEW s \in Sessions, Reserve(s) PROVE IInv'
<1>1. ReserveAppend(s, Amount(s)) /\ UNCHANGED <<text, prompt, entries, lru>>
  BY DEF Reserve
<1>2. Amount(s) \in Nat
  BY AmountNat
<1>3. /\ refcount' \in [Blocks -> Nat] /\ free' \subseteq Blocks
      /\ store' \in [Blocks -> Seq(Values)]
      /\ blockIds' \in [Sessions -> Seq(Blocks)]
      /\ \A r \in Sessions : r # s => blockIds'[r] = blockIds[r]
      /\ RefcountExact' /\ FreeUncounted' /\ Distinct'
  BY <1>1, <1>2, ReserveAppendFacts
<1>4. /\ \A r \in Sessions : r # s => stage'[r] = stage[r]
      /\ \/ stage[s] = "miss" /\ stage'[s] = "fill"
         \/ stage[s] = "suffix" /\ stage'[s] = "splice"
         \/ stage[s] = "decode" /\ stage'[s] = "append"
         \/ stage[s] = "chunk" /\ stage'[s] = "chunkfill"
         \/ stage[s] = "solo" /\ stage'[s] = "solofill"
      /\ stage' \in [Sessions -> Stages]
  BY DEF Reserve, CanReserve, IInv, ListsTypeOK, Stages, Busy, InPass, Adding, Stepping
<1>5. ListsTypeOK'
  BY <1>1, <1>3, <1>4 DEF IInv, ListsTypeOK
<1>6. StageInv'
  BY <1>1, <1>3, <1>4 DEF IInv, StageInv, Listless, Prompted, Adding
<1> QED BY <1>3, <1>5, <1>6 DEF IInv

-----------------------------------------------------------------------------
(***************************************************************************)
(* Every step keeps the invariant, so it holds in every reachable state.   *)
(***************************************************************************)
LEMMA NextIInv ==
  ASSUME IInv, [Next]_vars PROVE IInv'
<1>1. CASE UNCHANGED vars
  <2>1. UNCHANGED <<refcount, free, blockIds, entries>>
    BY <1>1 DEF vars
  <2>2. ListsTypeOK' /\ StageInv'
    BY <1>1 DEF vars, IInv, ListsTypeOK, StageInv
  <2> QED BY <2>1, <2>2, ListsUnchanged DEF IInv
<1>2. CASE \/ \E S \in SUBSET Sessions : AddRequests(S) \/ StartStep(S) \/ StartChunks(S)
           \/ RunEnds
  BY <1>2, AddRequestsIInv, StartStepIInv
<1>3. CASE InCall
  <2>1. CASE PrefillWrite \/ SuffixWrite \/ DecodeWrite \/ ChunkWrite \/ SoloWrite
    BY <2>1, WritesIInv
  <2>2. ASSUME NEW s \in Sessions, LookupDup(s) \/ LookupMiss(s) \/ Continue(s)
                                   \/ OutOfBlocks(s) \/ FinishOffline(s)
                                   \/ LookupOffline(s)
        PROVE  IInv'
    BY <2>2, StageMoveIInv
  <2>3. ASSUME NEW s \in Sessions, LookupHit(s) \/ LookupPrefix(s) \/ LookupChunked(s)
        PROVE  IInv'
    BY <2>3, LookupIInv
  <2>4. ASSUME NEW s \in Sessions, Reserve(s) PROVE IInv'
    BY <2>4, ReserveIInv
  <2>5. ASSUME NEW s \in Sessions, PutPrompt(s) PROVE IInv'
    BY <2>5, PutPromptIInv
  <2>6. ASSUME NEW s \in Sessions, CopyDup(s) PROVE IInv'
    BY <2>6, CopyDupIInv
  <2>7. ASSUME NEW s \in Sessions, Finish(s) \/ GenerateRaises(s) PROVE IInv'
    BY <2>7, FinishIInv
  <2> QED BY <1>3, <2>1, <2>2, <2>3, <2>4, <2>5, <2>6, <2>7 DEF InCall
<1>4. CASE \E s \in Sessions : Discard(s) \/ Generate(s) \/ GenerateEnds(s)
  BY <1>4, FinishIInv, GenerateIInv
<1>5. CASE ClearCache
  BY <1>5, ClearCacheIInv
<1> QED BY <1>1, <1>2, <1>3, <1>4, <1>5 DEF Next

LEMMA Invariance == Spec => []IInv
BY InitIInv, NextIInv, PTL DEF Spec

\* Reference counts are exact in every reachable state, for every pool size,
\* block size, set of prompts and cache bound.
THEOREM CountsExact == Spec => []RefcountExact
<1>1. IInv => RefcountExact
  BY DEF IInv
<1> QED BY <1>1, Invariance, PTL

\* No block leaks, and _alloc_block_id never hands out a block that a session
\* or a cache entry still names.
THEOREM NoLeakNoReuse == Spec => []PoolExact
<1>1. ASSUME IInv PROVE PoolExact
  <2> SUFFICES ASSUME NEW b \in Blocks
               PROVE  b \in free <=> Holders(b) = {} /\ EntriesOn(b) = {}
    BY DEF PoolExact
  <2>1. /\ IsFiniteSet(Holders(b)) /\ Cardinality(Holders(b)) \in Nat
        /\ IsFiniteSet(EntriesOn(b)) /\ Cardinality(EntriesOn(b)) \in Nat
    BY <1>1, OwnersFinite, ConstantsAssumption
       DEF Holders, EntriesOn, IInv, ListsTypeOK
  <2>2. /\ refcount[b] = Cardinality(Holders(b)) + Cardinality(EntriesOn(b))
        /\ b \in free <=> refcount[b] = 0
    BY <1>1 DEF IInv, RefcountExact, FreeUncounted
  <2>3. /\ Cardinality(Holders(b)) = 0 <=> Holders(b) = {}
        /\ Cardinality(EntriesOn(b)) = 0 <=> EntriesOn(b) = {}
    BY <2>1, FS_EmptySet
  <2> QED BY <2>1, <2>2, <2>3
<1> QED BY <1>1, Invariance, PTL
-----------------------------------------------------------------------------
(***************************************************************************)
(* Block lists and the signatures by which the device's rows are written   *)
(* again.  Copy on write keeps the length of a list; the last block then   *)
(* is another one, because the block that is copied is held by someone and *)
(* so cannot be the one that was allocated.                                *)
(***************************************************************************)
LEMMA SignatureParts ==
  ASSUME NEW x, NEW y, Signature(x) = Signature(y)
  PROVE  Len(x) = Len(y) /\ (x # <<>> /\ y # <<>> => Last(x) = Last(y))
BY DEF Signature

LEMMA EmptySignature ==
  ASSUME NEW x \in Seq(Blocks), NEW y \in Seq(Blocks), Signature(x) = Signature(y),
         x = <<>> \/ y = <<>>
  PROVE  x = y
<1>1. Len(x) = Len(y)
  BY SignatureParts
<1>2. Len(x) = 0 \/ Len(y) = 0
  OBVIOUS
<1> QED BY ONLY <1>1, <1>2, x \in Seq(Blocks), y \in Seq(Blocks), EmptySeq

LEMMA LastReplaced ==
  ASSUME NEW S, NEW x \in Seq(S), x # <<>>, NEW y \in Seq(S),
         Len(Front(x) \o y) = Len(x)
  PROVE  Front(x) \o y # <<>> /\ Last(Front(x) \o y) \in Range(y)
<1> DEFINE z == Front(x)
<1>1. z \in Seq(S) /\ Len(z) = Len(x) - 1 /\ Len(x) \in Nat \ {0}
  BY FrontFacts
<1>2. Len(z \o y) = Len(x)
  OBVIOUS
<1> HIDE DEF z
<1>3. /\ Len(z \o y) = Len(z) + Len(y)
      /\ \A i \in 1..(Len(z) + Len(y)) :
           (z \o y)[i] = IF i <= Len(z) THEN z[i] ELSE y[i - Len(z)]
  BY <1>1, JoinFacts
<1>4. Len(x) \in Int /\ Len(y) \in Int /\ Len(x) >= 1
  BY <1>1
<1>5. Len(y) = 1
  <2>1. \A n, m \in Int : n = (n - 1) + m => m = 1
    OBVIOUS
  <2> QED BY <1>1, <1>2, <1>3, <1>4, <2>1
<1>6. /\ Len(x) \in 1..(Len(z) + Len(y))
      /\ ~(Len(x) <= Len(z)) /\ Len(x) - Len(z) = 1
  BY <1>1, <1>4, <1>5
<1>7. (z \o y)[Len(x)] = y[1]
  BY <1>3, <1>6
<1>8. y[1] \in Range(y)
  BY <1>5 DEF Range
<1>9. z \o y # <<>>
  BY <1>2, <1>4
<1> QED BY <1>2, <1>7, <1>8, <1>9 DEF Last, z

LEMMA ReserveSignature ==
  ASSUME IInv, NEW s \in Sessions, Reserve(s),
         Signature(blockIds'[s]) = Signature(blockIds[s])
  PROVE  blockIds'[s] = blockIds[s]
<1> DEFINE old == blockIds[s]
           need == BlocksNeeded(s, Amount(s))
<1>1. PICK new \in Injection(1..need, free) :
        blockIds' = [blockIds EXCEPT ![s] = Extended(s, new)]
  BY DEF Reserve, ReserveAppend
<1>2. need \in Nat
  <2>1. Amount(s) \in Nat
    BY AmountNat
  <2> QED BY <2>1, BlocksNeededNat DEF IInv
<1>3. /\ old \in Seq(Blocks) /\ blockIds'[s] = Extended(s, new)
      /\ \A b \in Range(old) : b \notin free
  BY <1>1, NamedCounted DEF IInv, ListsTypeOK
<1>4. new \in Seq(Blocks) /\ Range(new) \subseteq free
  <2>1. new \in [1..need -> free] /\ free \subseteq Blocks
    BY DEF Injection, IInv, ListsTypeOK
  <2> QED BY <1>2, <2>1 DEF Range
<1>5. Signature(Extended(s, new)) = Signature(old)
  BY <1>3
<1>6. CASE MustCopy(s)
  <2>1. Extended(s, new) = Front(old) \o new
    BY <1>6 DEF Extended
  <2>2. old # <<>> /\ IsInjective(old)
    BY <1>3, <1>6, LastRoomInt DEF MustCopy, IInv, ListsTypeOK, Distinct
  <2> HIDE DEF old
  <2>3. Last(old) \in Range(old)
    BY <1>3, <2>2, FrontInjective
  <2>4. Len(Front(old) \o new) = Len(old)
    BY <1>5, <2>1, SignatureParts
  <2>5. Front(old) \o new # <<>> /\ Last(Front(old) \o new) \in Range(new)
    BY <1>3, <1>4, <2>2, <2>4, LastReplaced
  <2>6. Last(Front(old) \o new) = Last(old)
    BY <1>5, <2>1, <2>2, <2>5, SignatureParts
  <2> QED BY <1>3, <1>4, <2>3, <2>5, <2>6
<1>7. CASE ~MustCopy(s)
  <2>1. Extended(s, new) = old \o new
    BY <1>7 DEF Extended
  <2> HIDE DEF old
  <2>2. Len(old \o new) = Len(old)
    BY <1>5, <2>1, SignatureParts
  <2>3. Len(old \o new) = Len(old) + Len(new) /\ Len(new) \in Nat /\ Len(old) \in Nat
    BY <1>3, <1>4, ConcatLen
  <2>4. new = <<>>
    BY <1>4, <2>2, <2>3, EmptySeq
  <2>5. old \o new = old
    BY <1>3, <2>4
  <2> QED BY <1>3, <2>1, <2>5 DEF old
<1> QED BY <1>6, <1>7

LEMMA StepSignature ==
  ASSUME IInv, IInv', [Next]_vars, NEW s \in Sessions,
         Signature(blockIds'[s]) = Signature(blockIds[s])
  PROVE  blockIds'[s] = blockIds[s]
<1>1. blockIds[s] \in Seq(Blocks) /\ blockIds'[s] \in Seq(Blocks)
  BY DEF IInv, ListsTypeOK
<1>2. SUFFICES ASSUME blockIds'[s] # blockIds[s]
               PROVE  blockIds[s] = <<>> \/ blockIds'[s] = <<>>
  BY <1>1, EmptySignature
<1>3. ASSUME NEW r \in Sessions, Release(r) PROVE blockIds'[s] = <<>>
  BY <1>2, <1>3 DEF Release, IInv, ListsTypeOK
<1>4. ASSUME NEW r \in Sessions,
             LookupHit(r) \/ LookupPrefix(r) \/ LookupChunked(r) \/ CopyDup(r)
      PROVE  blockIds[s] = <<>>
  <2>1. blockIds[r] = <<>>
    BY <1>4 DEF LookupHit, LookupPrefix, LookupChunked, CopyDup, IInv, StageInv, Listless
  <2>2. \E ids : blockIds' = [blockIds EXCEPT ![r] = ids]
    BY <1>2, <1>4 DEF LookupHit, LookupPrefix, LookupChunked, Attach, CopyDup
  <2> QED BY <1>2, <2>1, <2>2 DEF IInv, ListsTypeOK
<1>5. ASSUME NEW r \in Sessions, Reserve(r) PROVE FALSE
  <2>1. r = s
    BY <1>2, <1>5 DEF Reserve, ReserveAppend, IInv, ListsTypeOK
  <2> QED BY <1>2, <1>5, <2>1, ReserveSignature
<1>6. ASSUME InCall
      PROVE  blockIds[s] = <<>> \/ blockIds'[s] = <<>>
  <2>1. ASSUME NEW r \in Sessions, \/ LookupDup(r) \/ LookupMiss(r) \/ OutOfBlocks(r)
                                   \/ PutPrompt(r) \/ Continue(r) \/ FinishOffline(r)
                                   \/ LookupOffline(r)
        PROVE  FALSE
    BY <1>2, <2>1 DEF LookupDup, LookupMiss, LookupOffline, OutOfBlocks, PutPrompt,
                      Continue, FinishOffline
  <2>2. ~PrefillWrite /\ ~SuffixWrite /\ ~DecodeWrite /\ ~ChunkWrite /\ ~SoloWrite
    BY <1>2 DEF PrefillWrite, SuffixWrite, DecodeWrite, ChunkWrite, SoloWrite
  <2> QED BY <1>3, <1>4, <1>5, <1>6, <2>1, <2>2 DEF InCall, Finish, GenerateRaises
<1>7. ASSUME \/ \E S \in SUBSET Sessions : AddRequests(S) \/ StartStep(S) \/ StartChunks(S)
             \/ \E r \in Sessions : Generate(r)
             \/ RunEnds
      PROVE  FALSE
  BY <1>2, <1>7 DEF AddRequests, StartStep, StartChunks, Generate, RunEnds
<1>8. ~ClearCache /\ ~UNCHANGED vars
  BY <1>2 DEF ClearCache, vars
<1>9. ASSUME NEW r \in Sessions, Discard(r) \/ GenerateEnds(r) PROVE blockIds'[s] = <<>>
  BY <1>3, <1>9 DEF Discard, GenerateEnds
<1> QED BY <1>6, <1>7, <1>8, <1>9 DEF Next

\* A session's block list never changes without its signature: the row of the
\* block table that get_paged_block_table_row_cpu_and_dirty leaves alone is the
\* one the kernels need, whatever is shared, copied, evicted and reused.
THEOREM RowsNeverStale == Spec => RowsFresh
<1>1. IInv /\ IInv' /\ [Next]_vars
        => [\A s \in Sessions : Signature(blockIds'[s]) = Signature(blockIds[s])
                                  => blockIds'[s] = blockIds[s]]_vars
  BY StepSignature
<1> QED BY <1>1, Invariance, PTL DEF Spec, RowsFresh

-----------------------------------------------------------------------------
(***************************************************************************)
(* Theorems about what the blocks of KVCache hold: gathering the block     *)
(* list of a session or of a cache entry gives exactly the K/V of its own  *)
(* tokens, although blocks are shared by attaching, copied on write,       *)
(* evicted and used again; and the key order of the prefix cache stays in  *)
(* step with its entries.  The counts are those proved above.              *)
(***************************************************************************)

\* A list keeps positions block by block: Base(i) positions come before block i,
\* and position p lies in block Index(p), at slot SlotAt(p).
Base(i) == (i - 1) * BlockSize
Index(p) == ((p - 1) \div BlockSize) + 1

\* The arithmetic of blocks and positions.
LEMMA BaseInt == ASSUME NEW i \in Nat PROVE Base(i) \in Int
BY ConstantsAssumption DEF Base

LEMMA BaseNat == ASSUME NEW i \in Nat, i # 0 PROVE Base(i) \in Nat
<1>1. i - 1 \in Nat /\ BlockSize \in Nat
  BY ConstantsAssumption
<1> QED BY ONLY <1>1 DEF Base

LEMMA BaseFirst == Base(1) = 0
BY ConstantsAssumption DEF Base

LEMMA BaseAfter == ASSUME NEW i \in Nat
                   PROVE  /\ i * BlockSize = Base(i) + BlockSize
                          /\ Base(i + 1) = Base(i) + BlockSize
BY ConstantsAssumption DEF Base

LEMMA BaseApart ==
  ASSUME NEW i \in Nat, NEW j \in Nat, i < j
  PROVE  Base(i) + BlockSize <= Base(j)
<1> DEFINE d == j - i - 1
<1>1. d \in Nat /\ d * BlockSize \in Nat /\ BlockSize \in Nat
  BY ConstantsAssumption
<1>2. (j - 1) * BlockSize = (i - 1) * BlockSize + BlockSize + d * BlockSize
  BY <1>1
<1>3. (i - 1) * BlockSize \in Int
  BY <1>1
<1> HIDE DEF d
<1> QED BY ONLY <1>1, <1>2, <1>3 DEF Base

\* A position lies in one block at one slot, and each slot of a block is one
\* position.
LEMMA Positions ==
  ASSUME NEW p \in Nat \ {0}
  PROVE  /\ Index(p) \in Nat \ {0} /\ SlotAt(p) \in 1..BlockSize
         /\ p = Base(Index(p)) + SlotAt(p)
<1> DEFINE q == (p - 1) \div BlockSize
           r == (p - 1) % BlockSize
<1>1. q \in Nat /\ r \in 0..(BlockSize - 1) /\ p - 1 = BlockSize * q + r
  BY ConstantsAssumption
<1>2. (q + 1 - 1) * BlockSize = BlockSize * q
  BY <1>1, ConstantsAssumption
<1> QED BY <1>1, <1>2, ConstantsAssumption DEF Index, SlotAt, Base

LEMMA OnePosition ==
  ASSUME NEW i \in Nat \ {0}, NEW k \in 1..BlockSize
  PROVE  /\ Base(i) + k \in Nat \ {0}
         /\ Index(Base(i) + k) = i /\ SlotAt(Base(i) + k) = k
<1> DEFINE p == Base(i) + k
<1>1. p \in Nat \ {0}
  <2>1. Base(i) \in Nat /\ BlockSize \in Nat
    BY BaseNat, ConstantsAssumption
  <2> QED BY <2>1
<1>2. /\ Index(p) \in Nat \ {0} /\ SlotAt(p) \in 1..BlockSize
      /\ p = Base(Index(p)) + SlotAt(p)
  BY <1>1, Positions
<1>3. ~ (i < Index(p)) /\ ~ (Index(p) < i)
  <2>1. i < Index(p) => Base(i) + BlockSize <= Base(Index(p))
    BY <1>2, BaseApart
  <2>2. Index(p) < i => Base(Index(p)) + BlockSize <= Base(i)
    BY <1>2, BaseApart
  <2>3. Base(i) \in Int /\ Base(Index(p)) \in Int /\ BlockSize \in Int
    BY <1>2, BaseInt, ConstantsAssumption
  <2>4. Base(Index(p)) + SlotAt(p) = Base(i) + k
    BY <1>2
  <2> QED BY ONLY <2>1, <2>2, <2>3, <2>4, <1>2, k \in 1..BlockSize
<1>4. Index(p) = i
  BY <1>2, <1>3
<1>5. SlotAt(p) = k
  <2>1. Base(i) \in Int /\ Base(i) + k = Base(i) + SlotAt(p)
    BY <1>2, <1>4, BaseInt
  <2> HIDE DEF p
  <2> QED BY ONLY <2>1, <1>2, k \in 1..BlockSize
<1> QED BY <1>1, <1>4, <1>5

\* NumBlocks(n) is the only number of blocks that n positions fill but for the
\* end of the last.
LEMMA PagesNeeded ==
  ASSUME NEW n \in Nat
  PROVE  /\ NumBlocks(n) \in Nat
         /\ Base(NumBlocks(n)) < n /\ n <= Base(NumBlocks(n)) + BlockSize
         /\ \A c \in Nat : Base(c) < n /\ n <= Base(c) + BlockSize => c = NumBlocks(n)
<1> DEFINE c == NumBlocks(n)
           r == (n + BlockSize - 1) % BlockSize
<1>1. c \in Nat /\ r \in 0..(BlockSize - 1) /\ n + BlockSize - 1 = BlockSize * c + r
  BY ConstantsAssumption DEF NumBlocks
<1>2. BlockSize * c = Base(c) + BlockSize /\ Base(c) \in Int
  BY <1>1, ConstantsAssumption DEF Base
<1>3. Base(c) < n /\ n <= Base(c) + BlockSize
  <2> HIDE DEF c, r
  <2> QED BY <1>1, <1>2, ConstantsAssumption
<1>4. ASSUME NEW d \in Nat, Base(d) < n, n <= Base(d) + BlockSize
      PROVE  d = c
  <2>1. ~ (d < c) /\ ~ (c < d)
    <3> HIDE DEF c
    <3>1. d < c => Base(d) + BlockSize <= Base(c)
      BY <1>1, BaseApart
    <3>2. c < d => Base(c) + BlockSize <= Base(d)
      BY <1>1, BaseApart
    <3>3. Base(d) \in Int /\ Base(c) \in Int /\ BlockSize \in Int
      BY <1>1, BaseInt, ConstantsAssumption
    <3> QED BY ONLY <3>1, <3>2, <3>3, <1>3, <1>4, n \in Nat
  <2> QED BY <1>1, <2>1
<1> QED BY <1>1, <1>3, <1>4

\* Slots of the i-th block of a list that covers n positions.
Room(n, i) == IF n >= Base(i) + BlockSize THEN BlockSize ELSE n - Base(i)

LEMMA RoomType ==
  ASSUME NEW n \in Nat, NEW i \in 1..NumBlocks(n)
  PROVE  /\ Room(n, i) \in 1..BlockSize
         /\ i < NumBlocks(n) => Room(n, i) = BlockSize
         /\ Base(i) \in Nat /\ Base(i) + Room(n, i) <= n
<1>1. /\ NumBlocks(n) \in Nat /\ Base(NumBlocks(n)) \in Int
      /\ Base(i) \in Nat /\ BlockSize \in Nat \ {0}
      /\ Base(NumBlocks(n)) < n /\ n <= Base(NumBlocks(n)) + BlockSize
  BY PagesNeeded, BaseInt, BaseNat, ConstantsAssumption
<1>2. i < NumBlocks(n) => Base(i) + BlockSize <= Base(NumBlocks(n))
  BY <1>1, BaseApart
<1>3. Base(i) < n
  BY <1>1, <1>2
<1> QED BY ONLY <1>1, <1>2, <1>3, n \in Nat DEF Room

LEMMA Reaches ==
  ASSUME NEW n \in Nat, NEW p \in 1..n
  PROVE  Index(p) \in 1..NumBlocks(n) /\ SlotAt(p) \in 1..Room(n, Index(p))
<1>1. /\ Index(p) \in Nat \ {0} /\ SlotAt(p) \in 1..BlockSize
      /\ p = Base(Index(p)) + SlotAt(p)
  BY Positions
<1>2. /\ NumBlocks(n) \in Nat /\ Base(NumBlocks(n)) \in Int
      /\ Base(Index(p)) \in Nat /\ BlockSize \in Nat \ {0}
      /\ Base(NumBlocks(n)) < n /\ n <= Base(NumBlocks(n)) + BlockSize
  BY <1>1, PagesNeeded, BaseInt, BaseNat, ConstantsAssumption
<1>3. NumBlocks(n) < Index(p) => Base(NumBlocks(n)) + BlockSize <= Base(Index(p))
  BY <1>1, <1>2, BaseApart
<1> QED BY ONLY <1>1, <1>2, <1>3, n \in Nat, p \in 1..n DEF Room

\* What block i holds in a list that has room for n positions and whose tokens
\* are x: the K/V of the tokens, and unwritten slots after them.
Page(x, n, i) ==
  [k \in 1..Room(n, i) |-> IF Base(i) + k <= Len(x) THEN SubSeq(x, 1, Base(i) + k)
                                                    ELSE Unwritten]

\* The store st holds the tokens x in the blocks ids, which have room for n.
Paged(st, ids, x, n) == /\ Len(ids) = NumBlocks(n)
                        /\ \A i \in 1..Len(ids) : st[ids[i]] = Page(x, n, i)

\* What Paged is for: the kernels gather from such a list the K/V of its tokens.
LEMMA PagedGathers ==
  ASSUME NEW ids \in Seq(Blocks), NEW x \in Seq(Tokens), NEW n \in Nat, Len(x) <= n,
         Paged(store, ids, x, n)
  PROVE  Gather(ids, Len(x)) = KV(x)
<1> SUFFICES ASSUME NEW p \in 1..Len(x)
             PROVE  store[BlockAt(ids, p)][SlotAt(p)] = SubSeq(x, 1, p)
  BY DEF Gather, KV
<1>1. p \in 1..n /\ p \in Nat \ {0}
  OBVIOUS
<1>2. /\ Index(p) \in 1..Len(ids) /\ SlotAt(p) \in 1..Room(n, Index(p))
      /\ p = Base(Index(p)) + SlotAt(p)
  BY <1>1, Reaches, Positions DEF Paged
<1>3. store[ids[Index(p)]] = Page(x, n, Index(p))
  BY <1>2 DEF Paged
<1>4. Page(x, n, Index(p))[SlotAt(p)] = SubSeq(x, 1, p)
  BY <1>2 DEF Page
<1> QED BY <1>3, <1>4 DEF BlockAt, Index

-----------------------------------------------------------------------------
(***************************************************************************)
(* The inductive invariant of the contents. A session that reserved slots  *)
(* and has not written them yet (_reserve_append, then the forward pass)   *)
(* covers more positions than it has tokens, in every other stage just its *)
(* tokens. Covers says what its blocks hold; it is kept up only because    *)
(* nobody else names a block that a pending write will reach (Private:     *)
(* copy on write replaced the last block if it was shared, and the blocks  *)
(* after it are fresh), because the text of a session that attaches is a   *)
(* prefix of its prompt (TextFits), and because entries are as good as     *)
(* sessions (EntryPaged). A session whose step raised (stage lost) keeps   *)
(* its reserved slots unwritten.                                           *)
(***************************************************************************)
\* The stages between a reservation and the write into it.
Ahead == {"fill", "solofill", "splice", "append", "chunkfill"}

\* How many tokens that write adds.
Pending(s) == IF stage[s] \in {"fill", "solofill"} THEN Len(prompt[s])
              ELSE IF stage[s] \in {"splice", "append"} THEN 1
              ELSE IF stage[s] = "chunkfill" THEN Len(Chunk(s)) ELSE 0

\* How the written tokens stand to the prompt, stage by stage.
TextFits(s) ==
  /\ stage[s] \in {"none", "new", "miss", "fill", "dup", "solo", "solofill"}
       => text[s] = <<>>
  /\ stage[s] \in {"suffix", "splice", "queued", "chunk", "chunkfill"}
       => Len(text[s]) < Len(prompt[s]) /\ text[s] = SubSeq(prompt[s], 1, Len(text[s]))
  /\ stage[s] \in {"put", "sufput", "ready"} => text[s] = prompt[s]

\* The block list of s has room for n positions and holds the text of s.
Covers(s, n) == /\ Len(text[s]) <= n
                /\ Paged(store, blockIds[s], text[s], n)
                /\ stage[s] # "lost" => n = Len(text[s]) + Pending(s)

\* Another session or a cache entry names block b as well.
Shared(s, b) == \/ \E r \in Sessions : r # s /\ b \in Range(blockIds[r])
                \/ \E k \in Prompts : b \in Range(entries[k])

\* The blocks that the pending write of s reaches are its own.
Private(s) ==
  stage[s] \in Ahead =>
    \A i \in 1..Len(blockIds[s]) : Base(i) + BlockSize > Len(text[s])
                                     => ~Shared(s, blockIds[s][i])

\* An entry holds the K/V of its key, in full.
EntryPaged(k) == Cached(k) => Paged(store, entries[k], k, Len(k))

Content == /\ \A s \in Sessions : /\ TextFits(s) /\ Private(s)
                                  /\ \E n \in Nat : Covers(s, n)
           /\ \A k \in Prompts : EntryPaged(k)

\* The two halves of the OrderedDict fit: lru lists each cached key once, and never
\* more than max_entries of them.
OneDict == /\ MaxEntries > 0 => Len(lru) <= MaxEntries
           /\ IsInjective(lru)
           /\ Range(lru) = {k \in Prompts : Cached(k)}

\* The invariant gives what the runs check.
LEMMA ContentFaithful == ASSUME ListsTypeOK, Content PROVE Faithful
<1>1. ASSUME NEW s \in Sessions PROVE Gather(blockIds[s], Len(text[s])) = KV(text[s])
  <2>1. PICK n \in Nat : Covers(s, n)
    BY DEF Content
  <2> QED BY <2>1, PagedGathers DEF ListsTypeOK, Covers
<1>2. ASSUME NEW k \in Prompts, Cached(k) PROVE Gather(entries[k], Len(k)) = KV(k)
  BY <1>2, PagedGathers, ConstantsAssumption DEF ListsTypeOK, Content, EntryPaged
<1> QED BY <1>1, <1>2 DEF Faithful

LEMMA EmptyPaged == ASSUME NEW st PROVE Paged(st, <<>>, <<>>, 0)
BY ConstantsAssumption DEF Paged, NumBlocks

LEMMA InitContent == ASSUME Init PROVE Content
<1>1. ASSUME NEW s \in Sessions PROVE TextFits(s) /\ Private(s) /\ Covers(s, 0)
  BY EmptyPaged DEF Init, TextFits, Private, Covers, Ahead, Pending
<1>2. ASSUME NEW k \in Prompts PROVE EntryPaged(k)
  BY DEF Init, EntryPaged, Cached
<1> QED BY <1>1, <1>2 DEF Content

\* A list whose blocks keep what they hold covers what it covered.
LEMMA PagedKept ==
  ASSUME NEW st, NEW tu, NEW ids, NEW x, NEW n,
         \A b \in Range(ids) : tu[b] = st[b], ids \in Seq(Blocks),
         Paged(st, ids, x, n)
  PROVE  Paged(tu, ids, x, n)
BY DEF Paged, Range

\* So does a session that the step does not move.
LEMMA SessionKept ==
  ASSUME ListsTypeOK, NEW s \in Sessions,
         blockIds'[s] = blockIds[s], text'[s] = text[s], stage'[s] = stage[s],
         prompt'[s] = prompt[s], \A b \in Range(blockIds[s]) : store'[b] = store[b]
  PROVE  /\ TextFits(s) => TextFits(s)'
         /\ \A n \in Nat : Covers(s, n) => Covers(s, n)'
<1>1. TextFits(s) => TextFits(s)'
  BY DEF TextFits
<1>2. Pending(s)' = Pending(s)
  BY DEF Pending, Chunk
<1>3. ASSUME NEW n \in Nat, Covers(s, n) PROVE Covers(s, n)'
  <2>1. Paged(store', blockIds[s], text[s], n)
    BY <1>3, PagedKept DEF Covers, ListsTypeOK
  <2> QED BY <1>2, <1>3, <2>1 DEF Covers
<1> QED BY <1>1, <1>3

\* Private blocks stay so when no list gains a block that was not shared before.
LEMMA PrivateKept ==
  ASSUME NEW s \in Sessions, Private(s),
         stage'[s] \in Ahead => /\ stage'[s] = stage[s] /\ blockIds'[s] = blockIds[s]
                                /\ text'[s] = text[s],
         \A b \in Range(blockIds[s]) : Shared(s, b)' => Shared(s, b)
  PROVE  Private(s)'
BY DEF Private, Range

-----------------------------------------------------------------------------
\* Steps that move sessions between stages and touch no block.
LEMMA MovesContent ==
  ASSUME ListsTypeOK, Content, UNCHANGED <<store, blockIds, text, entries>>,
         \A s \in Sessions :
           \/ stage'[s] = stage[s] /\ prompt'[s] = prompt[s]
           \/ stage'[s] = "lost"
           \/ /\ stage[s] \notin Ahead \cup {"lost"} /\ stage'[s] \notin Ahead
              /\ TextFits(s)'
  PROVE  Content'
<1>1. ASSUME NEW s \in Sessions
      PROVE  TextFits(s)' /\ Private(s)' /\ \E n \in Nat : Covers(s, n)'
  <2>1. TextFits(s) /\ Private(s)
    BY DEF Content
  <2>2. PICK n \in Nat : Covers(s, n)
    BY DEF Content
  <2>3. Private(s)'
    BY <2>1 DEF Private, Shared, Ahead
  <2>4. TextFits(s)'
    BY <2>1 DEF TextFits
  <2>5. CASE stage'[s] = stage[s] /\ prompt'[s] = prompt[s]
    BY <2>2, <2>3, <2>4, <2>5 DEF Covers, Pending, Chunk
  <2>6. CASE stage'[s] = "lost"
    BY <2>2, <2>3, <2>4, <2>6 DEF Covers
  <2>7. CASE stage[s] \notin Ahead \cup {"lost"} /\ stage'[s] \notin Ahead
    BY <2>2, <2>3, <2>4, <2>7 DEF Covers, Pending, Ahead
  <2> QED BY <2>5, <2>6, <2>7
<1>2. ASSUME NEW k \in Prompts PROVE EntryPaged(k)'
  BY DEF Content, EntryPaged, Cached
<1> QED BY <1>1, <1>2 DEF Content

LEMMA StageMoveContent ==
  ASSUME IInv, Content,
         \/ \E S \in SUBSET Sessions : AddRequests(S) \/ StartStep(S) \/ StartChunks(S)
         \/ \E s \in Sessions : \/ LookupDup(s) \/ LookupMiss(s) \/ LookupOffline(s)
                                \/ Generate(s) \/ Continue(s) \/ FinishOffline(s)
                                \/ OutOfBlocks(s)
         \/ RunEnds
  PROVE  Content'
<1> USE DEF IInv, ListsTypeOK
<1>1. ASSUME NEW S \in SUBSET Sessions, AddRequests(S) \/ StartStep(S) \/ StartChunks(S)
      PROVE  Content'
  <2>1. UNCHANGED <<store, blockIds, text, entries>>
    BY <1>1 DEF AddRequests, StartStep, StartChunks
  <2>2. ASSUME NEW s \in Sessions
        PROVE  \/ stage'[s] = stage[s] /\ prompt'[s] = prompt[s]
               \/ /\ stage[s] \notin Ahead \cup {"lost"} /\ stage'[s] \notin Ahead
                  /\ TextFits(s)'
    <3>1. TextFits(s)
      BY DEF Content
    <3> QED BY <1>1, <3>1 DEF AddRequests, StartStep, StartChunks, TextFits, Ahead
  <2> QED BY <2>1, <2>2, MovesContent
<1>2. ASSUME NEW s \in Sessions,
             \/ LookupDup(s) \/ LookupMiss(s) \/ LookupOffline(s) \/ Generate(s)
             \/ Continue(s) \/ FinishOffline(s)
      PROVE  Content'
  <2> USE DEF LookupDup, LookupMiss, LookupOffline, Generate, Continue, FinishOffline
  <2>1. UNCHANGED <<store, blockIds, text, entries>>
    BY <1>2
  <2>2. /\ stage[s] \notin Ahead \cup {"lost"} /\ stage'[s] \notin Ahead
        /\ TextFits(s)'
    <3>1. TextFits(s)
      BY DEF Content
    <3> QED BY <1>2, <3>1 DEF TextFits, Ahead, TokenDue
  <2>3. \A r \in Sessions : r # s => stage'[r] = stage[r] /\ prompt'[r] = prompt[r]
    BY <1>2
  <2> QED BY <2>1, <2>2, <2>3, MovesContent
<1>3. ASSUME NEW s \in Sessions, OutOfBlocks(s) PROVE Content'
  <2>1. UNCHANGED <<store, blockIds, text, entries, prompt>>
    BY <1>3 DEF OutOfBlocks
  <2>2. \A r \in Sessions : stage'[r] = stage[r] \/ stage'[r] = "lost"
    BY <1>3 DEF OutOfBlocks
  <2> QED BY <2>1, <2>2, MovesContent
<1>4. CASE RunEnds
  <2>1. UNCHANGED <<store, blockIds, text, entries>>
    BY <1>4 DEF RunEnds
  <2>2. ASSUME NEW s \in Sessions
        PROVE  \/ stage'[s] = stage[s] /\ prompt'[s] = prompt[s]
               \/ /\ stage[s] \notin Ahead \cup {"lost"} /\ stage'[s] \notin Ahead
                  /\ TextFits(s)'
    BY <1>4 DEF RunEnds, TextFits, Ahead
  <2> QED BY <2>1, <2>2, MovesContent
<1> QED BY <1>1, <1>2, <1>3, <1>4

-----------------------------------------------------------------------------
\* A session that has no list takes one that somebody else holds already: an
\* attach to a cache entry or the copy of a session with the same prompt.
LEMMA ShareContent ==
  ASSUME IInv, Content, NEW s \in Sessions, blockIds[s] = <<>>, stage[s] \notin Ahead,
         NEW ids \in Seq(Blocks), NEW x \in Seq(Tokens), Paged(store, ids, x, Len(x)),
         \A r \in Sessions : stage[r] \in Ahead =>
           \A b \in Range(ids) : Shared(r, b),
         blockIds' = [blockIds EXCEPT ![s] = ids], text' = [text EXCEPT ![s] = x],
         NEW st \in Stages \ (Ahead \cup {"lost"}), stage' = [stage EXCEPT ![s] = st],
         TextFits(s)', UNCHANGED <<store, prompt, entries>>
  PROVE  Content'
<1> USE DEF IInv, ListsTypeOK
<1>1. ASSUME NEW r \in Sessions
      PROVE  TextFits(r)' /\ Private(r)' /\ \E n \in Nat : Covers(r, n)'
  <2>1. TextFits(r) /\ Private(r) /\ \E n \in Nat : Covers(r, n)
    BY DEF Content
  <2>2. CASE r = s
    <3>1. Private(r)'
      BY <2>2 DEF Private
    <3>2. Covers(r, Len(x))' /\ Len(x) \in Nat
      BY <2>2 DEF Covers, Pending, Ahead
    <3> QED BY <2>2, <3>1, <3>2
  <2>3. CASE r # s
    <3>1. TextFits(r)' /\ \E n \in Nat : Covers(r, n)'
      BY <2>1, <2>3, SessionKept
    <3>2. Private(r)'
      <4>1. CASE stage[r] \in Ahead
        <5>1. \A b : Shared(r, b)' => Shared(r, b)
          BY <4>1 DEF Shared
        <5> QED BY <2>1, <2>3, <5>1, PrivateKept
      <4>2. CASE stage[r] \notin Ahead
        BY <2>3, <4>2 DEF Private
      <4> QED BY <4>1, <4>2
    <3> QED BY <3>1, <3>2
  <2> QED BY <2>2, <2>3
<1>2. ASSUME NEW k \in Prompts PROVE EntryPaged(k)'
  BY DEF Content, EntryPaged, Cached
<1> QED BY <1>1, <1>2 DEF Content

\* The prefixes of a sequence, itself and the empty one among them.
LEMMA PrefixFacts ==
  ASSUME NEW k \in Seq(Tokens)
  PROVE  /\ k \in Prefixes(k) /\ <<>> \in Prefixes(k)
         /\ \A n \in Prefixes(k) : /\ n \in Seq(Tokens)
                                   /\ Len(n) \in 0..Len(k)
                                   /\ n = SubSeq(k, 1, Len(n))
<1>1. Len(k) \in Nat /\ SubSeq(k, 1, Len(k)) = k
  OBVIOUS
<1>2. SubSeq(k, 1, 0) = <<>>
  OBVIOUS
<1>3. \A l \in 0..Len(k) : SubSeq(k, 1, l) \in Seq(Tokens) /\ Len(SubSeq(k, 1, l)) = l
  BY <1>1
<1>4. k \in Prefixes(k) /\ <<>> \in Prefixes(k)
  <2>1. 0 \in 0..Len(k) /\ Len(k) \in 0..Len(k)
    BY <1>1
  <2> QED BY <1>1, <1>2, <2>1 DEF Prefixes
<1>5. ASSUME NEW n \in Prefixes(k)
      PROVE  n \in Seq(Tokens) /\ Len(n) \in 0..Len(k) /\ n = SubSeq(k, 1, Len(n))
  <2>1. PICK l \in 0..Len(k) : n = SubSeq(k, 1, l)
    BY DEF Prefixes
  <2> QED BY <1>3, <2>1
<1> QED BY <1>4, <1>5

\* move_to_end finds the key of an entry only.
LEMMA AttachCached ==
  ASSUME IInv, OneDict PROVE \A s \in Sessions : \A k \in Prompts : Attach(s, k) => Cached(k)
<1>1. lru \in Seq(Prompts)
  BY DEF IInv, ListsTypeOK
<1>2. \A i \in 1..Len(lru) : lru[i] \in Range(lru)
  BY <1>1 DEF Range
<1> QED BY <1>2 DEF Attach, MoveToEnd, OneDict

LEMMA LookupContent ==
  ASSUME IInv, Content, OneDict, NEW s \in Sessions,
         LookupHit(s) \/ LookupPrefix(s) \/ LookupChunked(s)
  PROVE  Content'
<1> USE DEF IInv, ListsTypeOK
<1>1. /\ stage[s] = "new" /\ prompt[s] \in Prompts /\ prompt' = prompt
      /\ blockIds[s] = <<>>
  BY DEF LookupHit, LookupPrefix, LookupChunked, StageInv, Listless, Prompted, Adding
<1>2. ASSUME NEW k \in Prompts, Cached(k), Attach(s, k), NEW st \in {"ready", "suffix", "queued"},
             stage' = [stage EXCEPT ![s] = st],
             IF st = "ready" THEN k = prompt[s]
             ELSE k \in Prefixes(prompt[s]) /\ Len(k) < Len(prompt[s])
      PROVE  Content'
  <2>1. k \in Seq(Tokens) /\ prompt[s] \in Seq(Tokens)
    BY <1>1, ConstantsAssumption
  <2>2. TextFits(s)'
    <3>1. text'[s] = k /\ stage'[s] = st /\ prompt'[s] = prompt[s]
      BY <1>1, <1>2 DEF Attach
    <3>2. CASE st = "ready"
      BY <1>2, <3>1, <3>2 DEF TextFits
    <3>3. CASE st # "ready"
      <4>1. Len(k) < Len(prompt[s]) /\ k = SubSeq(prompt[s], 1, Len(k))
        BY <1>2, <2>1, <3>3, PrefixFacts
      <4> QED BY <1>2, <3>1, <3>3, <4>1 DEF TextFits
    <3> QED BY <3>2, <3>3
  <2>3. Paged(store, entries[k], k, Len(k))
    BY <1>2 DEF Content, EntryPaged
  <2>4. \A r \in Sessions : \A b \in Range(entries[k]) : Shared(r, b)
    BY DEF Shared
  <2>5. stage[s] \notin Ahead /\ st \in Stages \ (Ahead \cup {"lost"})
    BY <1>1, <1>2 DEF Stages, Between, Busy, InPass, Adding, Ahead
  <2>6. entries[k] \in Seq(Blocks)
    OBVIOUS
  <2> QED BY <1>1, <1>2, <2>1, <2>2, <2>3, <2>4, <2>5, <2>6, ShareContent DEF Attach
<1>3. CASE LookupHit(s)
  BY <1>1, <1>2, <1>3 DEF LookupHit
<1>4. CASE LookupPrefix(s)
  BY <1>1, <1>2, <1>4, AttachCached DEF LookupPrefix, IsLongestPrefix, OnTheWay
<1>5. CASE LookupChunked(s)
  <2>1. CASE \E k \in Prompts : IsLongestPrefix(k, prompt[s]) /\ Attach(s, k)
    BY <1>1, <1>2, <1>5, <2>1, AttachCached DEF LookupChunked, IsLongestPrefix, OnTheWay
  <2>2. CASE UNCHANGED <<refcount, free, store, blockIds, text, entries, lru, trie>>
    <3>1. TextFits(s) /\ text[s] = <<>>
      BY <1>1 DEF Content, TextFits
    <3>2. Len(prompt[s]) > 0 /\ SubSeq(prompt[s], 1, 0) = <<>>
      BY <1>1, ConstantsAssumption
    <3>3. stage' = [stage EXCEPT ![s] = "queued"]
      BY <1>5 DEF LookupChunked
    <3>4. TextFits(s)'
      BY <1>1, <2>2, <3>1, <3>2, <3>3 DEF TextFits
    <3>5. stage[s] \notin Ahead \cup {"lost"} /\ stage'[s] \notin Ahead
      BY <1>1, <3>3 DEF Ahead
    <3>6. \A r \in Sessions : r # s => stage'[r] = stage[r] /\ prompt'[r] = prompt[r]
      BY <1>1, <3>3
    <3> QED BY <2>2, <3>4, <3>5, <3>6, MovesContent
  <2> QED BY <1>5, <2>1, <2>2 DEF LookupChunked
<1> QED BY <1>3, <1>4, <1>5

LEMMA CopyDupContent ==
  ASSUME IInv, Content, NEW s \in Sessions, CopyDup(s) PROVE Content'
<1> USE DEF IInv, ListsTypeOK
<1>1. PICK q \in Sessions : /\ stage[q] = "ready" /\ prompt[q] = prompt[s]
                            /\ blockIds' = [blockIds EXCEPT ![s] = blockIds[q]]
                            /\ text' = [text EXCEPT ![s] = text[q]]
  BY DEF CopyDup, At
<1>2. stage[s] = "dup" /\ blockIds[s] = <<>> /\ stage' = [stage EXCEPT ![s] = "ready"]
  BY DEF CopyDup, StageInv, Listless
<1>3. TextFits(q) /\ text[q] = prompt[q] /\ \E n \in Nat : Covers(q, n)
  BY <1>1 DEF Content, TextFits
<1>4. Paged(store, blockIds[q], text[q], Len(text[q]))
  BY <1>1, <1>3 DEF Covers, Pending
<1>5. TextFits(s)'
  BY <1>1, <1>2, <1>3 DEF TextFits, CopyDup
<1>6. \A r \in Sessions : stage[r] \in Ahead => \A b \in Range(blockIds[q]) : Shared(r, b)
  BY <1>1 DEF Shared, Ahead
<1>7. stage[s] \notin Ahead /\ "ready" \in Stages \ (Ahead \cup {"lost"})
  BY <1>2 DEF Stages, Between, Busy, InPass, Adding, Ahead
<1>8. UNCHANGED <<store, prompt, entries>>
  BY DEF CopyDup
<1> QED BY <1>1, <1>2, <1>4, <1>5, <1>6, <1>7, <1>8, ShareContent

-----------------------------------------------------------------------------
(***************************************************************************)
(* Blocks that a step empties are on the free list after it, so no list of *)
(* the new state names them.                                               *)
(***************************************************************************)
NamedInUse ==
  /\ \A s \in Sessions : \A b \in Range(blockIds[s]) : b \in Blocks /\ b \notin free
  /\ \A k \in Prompts : \A b \in Range(entries[k]) : b \in Blocks /\ b \notin free

LEMMA InvNamedInUse == IInv => NamedInUse
BY NamedCounted DEF NamedInUse

LEMMA NextNamedInUse == IInv' => NamedInUse'
BY InvNamedInUse, PTL

LEMMA EmptiedUnnamed ==
  ASSUME IInv', \A b \in Blocks : store'[b] = store[b] \/ b \in free'
  PROVE  /\ \A s \in Sessions : \A b \in Range(blockIds'[s]) : store'[b] = store[b]
         /\ \A k \in Prompts : \A b \in Range(entries'[k]) : store'[b] = store[b]
BY NextNamedInUse DEF NamedInUse

LEMMA FreeBlocksEmpties ==
  ASSUME NEW rc \in [Blocks -> Nat], NEW ids \in Seq(Blocks), FreeBlocks(rc, ids)
  PROVE  \A b \in Blocks : store'[b] = store[b] \/ b \in free'
BY DEF FreeBlocks

LEMMA ReleaseContent ==
  ASSUME IInv, IInv', Content, NEW s \in Sessions, Release(s), stage[s] \notin Ahead
  PROVE  Content'
<1> USE DEF IInv, ListsTypeOK
<1>1. /\ \A r \in Sessions : \A b \in Range(blockIds'[r]) : store'[b] = store[b]
      /\ \A k \in Prompts : \A b \in Range(entries'[k]) : store'[b] = store[b]
  BY EmptiedUnnamed, FreeBlocksEmpties DEF Release
<1>2. ASSUME NEW r \in Sessions, r # s
      PROVE  /\ blockIds'[r] = blockIds[r] /\ text'[r] = text[r]
             /\ stage'[r] = stage[r] /\ prompt'[r] = prompt[r]
  BY <1>2 DEF Release
<1>3. /\ blockIds'[s] = <<>> /\ text'[s] = <<>> /\ stage'[s] = "none"
      /\ entries' = entries
  BY DEF Release
<1>4. ASSUME NEW r \in Sessions
      PROVE  TextFits(r)' /\ Private(r)' /\ \E n \in Nat : Covers(r, n)'
  <2>1. TextFits(r) /\ Private(r) /\ \E n \in Nat : Covers(r, n)
    BY DEF Content
  <2>2. CASE r = s
    <3>1. TextFits(s)' /\ Private(s)'
      BY <1>3 DEF TextFits, Private, Ahead
    <3>2. Covers(s, 0)'
      BY <1>3, EmptyPaged DEF Covers, Pending
    <3> QED BY <2>2, <3>1, <3>2
  <2>3. CASE r # s
    <3>1. TextFits(r)' /\ \E n \in Nat : Covers(r, n)'
      BY <1>1, <1>2, <2>1, <2>3, SessionKept
    <3>2. \A b : Shared(r, b)' => Shared(r, b)
      <4>1. \A q \in Sessions : Range(blockIds'[q]) \subseteq Range(blockIds[q])
        <5>1. Range(<<>>) = {}
          BY DEF Range
        <5> QED BY <1>2, <1>3, <5>1
      <4> QED BY <1>3, <4>1 DEF Shared
    <3>3. Private(r)'
      BY <1>2, <2>1, <2>3, <3>2, PrivateKept
    <3> QED BY <3>1, <3>3
  <2> QED BY <2>2, <2>3
<1>5. ASSUME NEW k \in Prompts PROVE EntryPaged(k)'
  <2>1. \A b \in Range(entries[k]) : store'[b] = store[b]
    BY <1>1, <1>3
  <2> QED BY <1>3, <2>1, PagedKept DEF Content, EntryPaged, Cached
<1> QED BY <1>4, <1>5 DEF Content

LEMMA FinishContent ==
  ASSUME IInv, IInv', Content, NEW s \in Sessions,
         Finish(s) \/ Discard(s) \/ GenerateRaises(s) \/ GenerateEnds(s)
  PROVE  Content'
<1>1. Release(s)
  BY DEF Finish, Discard, GenerateRaises, GenerateEnds
<1>2. stage[s] \notin Ahead
  BY DEF Finish, TokenDue, Discard, GenerateRaises, GenerateEnds, Ahead
<1> QED BY <1>1, <1>2, ReleaseContent

\* The passes that put a prompt into the cache, and what clears the cache.
LEMMA EntriesContent ==
  ASSUME IInv, IInv', Content, UNCHANGED <<blockIds, text, prompt>>,
         \A b \in Blocks : store'[b] = store[b] \/ b \in free',
         \A s \in Sessions : \/ stage'[s] = stage[s]
                             \/ stage[s] \in {"put", "sufput"} /\ stage'[s] = "ready",
         \A k \in Prompts : \/ entries'[k] \in {<<>>, entries[k]}
                            \/ \E s \in Sessions : /\ stage[s] \in {"put", "sufput"}
                                                   /\ entries'[k] = blockIds[s]
                                                   /\ prompt[s] = k
  PROVE  Content'
<1> USE DEF IInv, ListsTypeOK
<1>1. /\ \A r \in Sessions : \A b \in Range(blockIds[r]) : store'[b] = store[b]
      /\ \A k \in Prompts : \A b \in Range(entries'[k]) : store'[b] = store[b]
  BY EmptiedUnnamed
<1>2. ASSUME NEW s \in Sessions, stage[s] \in {"put", "sufput"}
      PROVE  text[s] = prompt[s] /\ Paged(store, blockIds[s], text[s], Len(text[s]))
  <2>1. PICK n \in Nat : Covers(s, n)
    BY DEF Content
  <2>2. TextFits(s)
    BY DEF Content
  <2>3. Len(text[s]) \in Nat
    OBVIOUS
  <2>4. n = Len(text[s])
    BY <1>2, <2>1, <2>3 DEF Covers, Pending
  <2> QED BY <1>2, <2>1, <2>2, <2>4 DEF TextFits, Covers
<1>3. ASSUME NEW r \in Sessions
      PROVE  TextFits(r)' /\ Private(r)' /\ \E m \in Nat : Covers(r, m)'
  <2>1. TextFits(r) /\ Private(r) /\ \E m \in Nat : Covers(r, m)
    BY DEF Content
  <2>2. CASE stage'[r] = stage[r]
    <3>1. TextFits(r)' /\ \E m \in Nat : Covers(r, m)'
      BY <1>1, <2>1, <2>2, SessionKept
    <3>2. CASE stage[r] \in Ahead
      <4>1. Range(<<>>) = {} /\ \A s \in Sessions : stage[s] \in {"put", "sufput"} => s # r
        BY <3>2 DEF Range, Ahead
      <4>2. ASSUME NEW b, Shared(r, b)' PROVE Shared(r, b)
        <5>1. CASE \E q \in Sessions : q # r /\ b \in Range(blockIds'[q])
          BY <5>1 DEF Shared
        <5>2. ASSUME NEW k \in Prompts, b \in Range(entries'[k]) PROVE Shared(r, b)
          <6>1. CASE entries'[k] \in {<<>>, entries[k]}
            BY <4>1, <5>2, <6>1 DEF Shared
          <6>2. CASE \E s \in Sessions : stage[s] \in {"put", "sufput"} /\ entries'[k] = blockIds[s]
            BY <4>1, <5>2, <6>2 DEF Shared
          <6> QED BY <6>1, <6>2
        <5> QED BY <4>2, <5>1, <5>2 DEF Shared
      <4> QED BY <2>1, <2>2, <3>1, <4>2, PrivateKept
    <3>3. CASE stage[r] \notin Ahead
      BY <2>2, <3>1, <3>3 DEF Private
    <3> QED BY <3>2, <3>3
  <2>3. CASE stage[r] \in {"put", "sufput"} /\ stage'[r] = "ready"
    <3>1. TextFits(r)' /\ Private(r)'
      BY <1>2, <2>3 DEF TextFits, Private, Ahead
    <3>2. Paged(store', blockIds[r], text[r], Len(text[r]))
      <4>1. blockIds[r] \in Seq(Blocks) /\ \A b \in Range(blockIds[r]) : store'[b] = store[b]
        BY <1>1
      <4>2. Paged(store, blockIds[r], text[r], Len(text[r]))
        BY <1>2, <2>3
      <4> QED BY ONLY <4>1, <4>2, PagedKept
    <3>3. Covers(r, Len(text[r]))' /\ Len(text[r]) \in Nat
      BY <2>3, <3>2 DEF Covers, Pending
    <3> QED BY <3>1, <3>3
  <2> QED BY <2>2, <2>3
<1>4. ASSUME NEW k \in Prompts PROVE EntryPaged(k)'
  <2>1. CASE entries'[k] \in {<<>>, entries[k]}
    <3>1. CASE entries'[k] = <<>>
      BY <3>1 DEF EntryPaged, Cached
    <3>2. CASE entries'[k] = entries[k]
      <4>1. Cached(k) => Paged(store, entries[k], k, Len(k))
        BY DEF Content, EntryPaged
      <4>2. entries[k] \in Seq(Blocks) /\ \A b \in Range(entries[k]) : store'[b] = store[b]
        BY <1>1, <3>2
      <4>3. Cached(k) => Paged(store', entries[k], k, Len(k))
        BY ONLY <4>1, <4>2, PagedKept
      <4> QED BY <3>2, <4>3 DEF EntryPaged, Cached
    <3> QED BY <2>1, <3>1, <3>2
  <2>2. ASSUME NEW s \in Sessions, stage[s] \in {"put", "sufput"},
               entries'[k] = blockIds[s], prompt[s] = k
        PROVE  EntryPaged(k)'
    <3>1. Paged(store, blockIds[s], k, Len(k))
      BY <1>2, <2>2
    <3>2. blockIds[s] \in Seq(Blocks) /\ \A b \in Range(blockIds[s]) : store'[b] = store[b]
      BY <1>1
    <3>3. Paged(store', blockIds[s], k, Len(k))
      BY ONLY <3>1, <3>2, PagedKept
    <3> QED BY <2>2, <3>3 DEF EntryPaged
  <2> QED BY <2>1, <2>2
<1> QED BY <1>3, <1>4 DEF Content

LEMMA PutPromptContent ==
  ASSUME IInv, IInv', Content, NEW s \in Sessions, PutPrompt(s) PROVE Content'
<1> USE DEF IInv, ListsTypeOK
<1>1. /\ stage[s] \in {"put", "sufput"} /\ stage' = [stage EXCEPT ![s] = "ready"]
      /\ UNCHANGED <<blockIds, text, prompt>> /\ Put(s)
  BY DEF PutPrompt
<1>2. prompt[s] \in Prompts
  BY <1>1 DEF StageInv, Prompted, Adding
<1>3. \A k \in Prompts : \/ entries'[k] \in {<<>>, entries[k]}
                         \/ entries'[k] = blockIds[s] /\ prompt[s] = k
  <2> SUFFICES ASSUME NEW k \in Prompts
               PROVE  \/ entries'[k] \in {<<>>, entries[k]}
                      \/ entries'[k] = blockIds[s] /\ prompt[s] = k
    OBVIOUS
  <2>1. CASE entries' = entries
    BY <2>1
  <2>2. CASE entries' = [entries EXCEPT ![prompt[s]] = blockIds[s]]
    BY <1>2, <2>2
  <2>3. CASE entries' = [entries EXCEPT ![Head(lru)] = <<>>, ![prompt[s]] = blockIds[s]]
    BY <1>2, <2>3
  <2> QED BY <1>1, <2>1, <2>2, <2>3 DEF Put
<1>4. \A b \in Blocks : store'[b] = store[b] \/ b \in free'
  BY <1>1 DEF Put, FreeBlocks
<1>5. \A r \in Sessions : stage'[r] = stage[r] \/ (r = s /\ stage'[r] = "ready")
  BY <1>1
<1> QED BY <1>1, <1>3, <1>4, <1>5, EntriesContent

LEMMA ClearCacheContent ==
  ASSUME IInv, IInv', Content, ClearCache PROVE Content'
BY EntriesContent DEF ClearCache

-----------------------------------------------------------------------------
LEMMA BaseSum ==
  ASSUME NEW i \in Nat, NEW j \in Nat
  PROVE  Base(i + j) = Base(i) + Base(j) + BlockSize
BY ConstantsAssumption DEF Base

\* Slots for n more positions: what is left in the last block, then new blocks.
LEMMA PagesGrow ==
  ASSUME NEW m \in Nat, NEW n \in Nat,
         NEW room \in Int,
         room = IF NumBlocks(m) = 0 THEN 0 ELSE Base(NumBlocks(m)) + BlockSize - m
  PROVE  NumBlocks(m + n) = NumBlocks(m) + NumBlocks(IF n > room THEN n - room ELSE 0)
<1> DEFINE L == NumBlocks(m)
           ext == IF n > room THEN n - room ELSE 0
           q == NumBlocks(ext)
<1>1. /\ L \in Nat /\ Base(L) \in Int /\ BlockSize \in Nat \ {0}
      /\ Base(L) < m /\ m <= Base(L) + BlockSize
  BY PagesNeeded, BaseInt, ConstantsAssumption
<1>2. Base(0) + BlockSize = 0
  BY ConstantsAssumption DEF Base
<1>3. (L = 0 => m = 0) /\ room \in Nat /\ ext \in Nat
  <2>1. /\ L = 0 => Base(L) + BlockSize = 0
        /\ room = IF L = 0 THEN 0 ELSE Base(L) + BlockSize - m
    BY <1>2
  <2> HIDE DEF L
  <2>2. (L = 0 => m = 0) /\ room \in Nat
    BY <1>1, <2>1
  <2> QED BY <2>2
<1>4. /\ q \in Nat /\ Base(q) \in Int
      /\ Base(q) < ext /\ ext <= Base(q) + BlockSize
  BY <1>3, PagesNeeded, BaseInt
<1>5. Base(L + q) = Base(L) + Base(q) + BlockSize /\ L + q \in Nat
  <2> HIDE DEF L, q, ext
  <2> QED BY <1>1, <1>4, BaseSum
<1>6. q = 0 => ext = 0
  <2> HIDE DEF q, ext, L
  <2> QED BY <1>2, <1>3, <1>4
<1>7. ext = 0 => q = 0
  <2>1. Base(0) < 0 /\ 0 <= Base(0) + BlockSize
    BY <1>1, <1>2, BaseInt
  <2>2. 0 = NumBlocks(0)
    BY <2>1, PagesNeeded
  <2> QED BY <2>2
<1>8. Base(L + q) < m + n /\ m + n <= Base(L + q) + BlockSize
  <2>1. CASE ext = 0
    <3>1. L + q = L /\ n <= room
      BY <1>1, <1>3, <1>7, <2>1
    <3>2. CASE L = 0
      <4>1. m = 0 /\ n = 0 /\ room = 0
        BY <1>3, <3>1, <3>2
      <4> HIDE DEF L, q, ext
      <4> QED BY <1>1, <3>1, <4>1
    <3>3. CASE L # 0
      <4>1. room = Base(L) + BlockSize - m
        BY <3>3
      <4> HIDE DEF L, q, ext
      <4> QED BY <1>1, <1>3, <3>1, <4>1
    <3> QED BY <3>2, <3>3
  <2>2. CASE ext # 0
    <3>1. ext = n - room
      BY <2>2
    <3>2. CASE L = 0
      <4>1. m = 0 /\ room = 0
        BY <1>3, <3>2
      <4>2. Base(L) + BlockSize = 0
        BY <1>2, <3>2
      <4> HIDE DEF L, q, ext
      <4> QED BY <1>1, <1>4, <1>5, <3>1, <4>1, <4>2
    <3>3. CASE L # 0
      <4>1. room = Base(L) + BlockSize - m
        BY <3>3
      <4> HIDE DEF L, q, ext
      <4> QED BY <1>1, <1>4, <1>5, <3>1, <4>1
    <3> QED BY <3>2, <3>3
  <2> QED BY <2>1, <2>2
<1>9. L + q = NumBlocks(m + n)
  <2>1. m + n \in Nat
    OBVIOUS
  <2> HIDE DEF L, q
  <2> QED BY <1>5, <1>8, <2>1, PagesNeeded
<1> QED BY <1>9

\* A block with one holder is in no other list.
LEMMA OneHolder ==
  ASSUME IInv, NEW s \in Sessions, NEW b \in Range(blockIds[s]), refcount[b] = 1
  PROVE  ~Shared(s, b)
<1>1. b \in Blocks
  BY NamedCounted
<1>2. /\ IsFiniteSet(Holders(b)) /\ Cardinality(Holders(b)) \in Nat
      /\ IsFiniteSet(EntriesOn(b)) /\ Cardinality(EntriesOn(b)) \in Nat
  BY OwnersFinite, ConstantsAssumption DEF Holders, EntriesOn, IInv, ListsTypeOK
<1>3. Cardinality(Holders(b)) + Cardinality(EntriesOn(b)) = 1
  BY <1>1 DEF IInv, RefcountExact
<1>4. s \in Holders(b)
  BY DEF Holders, Owners, IInv, ListsTypeOK
<1>5. Cardinality(Holders(b)) # 0
  BY <1>2, <1>4, FS_EmptySet
<1>6. Cardinality(Holders(b)) = 1 /\ Cardinality(EntriesOn(b)) = 0
  BY <1>2, <1>3, <1>5
<1>7. EntriesOn(b) = {} /\ \E x : Holders(b) = {x}
  BY <1>2, <1>6, FS_EmptySet, FS_Singleton
<1>8. Holders(b) = {s}
  BY <1>4, <1>7
<1> QED BY <1>7, <1>8 DEF Shared, Holders, EntriesOn, Owners, IInv, ListsTypeOK

\* The length of the last block tells how many positions a list covers.
LEMMA CoveredLength ==
  ASSUME NEW ids \in Seq(Blocks), NEW x, NEW m \in Nat, Paged(store, ids, x, m)
  PROVE  /\ Reserved(ids) = m
         /\ LastRoom(ids) = IF NumBlocks(m) = 0 THEN 0
                            ELSE Base(NumBlocks(m)) + BlockSize - m
         /\ LastRoom(ids) \in Nat
<1> DEFINE L == NumBlocks(m)
<1>1. /\ L \in Nat /\ Base(L) \in Int /\ BlockSize \in Nat \ {0}
      /\ Base(L) < m /\ m <= Base(L) + BlockSize /\ Len(ids) = L
  BY PagesNeeded, BaseInt, ConstantsAssumption DEF Paged
<1>2. Base(0) + BlockSize = 0
  BY ConstantsAssumption DEF Base
<1>3. CASE L = 0
  <2>1. ids = <<>>
    BY <1>1, <1>3
  <2>2. m = 0
    <3>1. Base(0) + BlockSize = 0 /\ m <= Base(0) + BlockSize
      BY <1>1, <1>2, <1>3
    <3> QED BY ONLY <3>1, m \in Nat
  <2> QED BY <1>3, <2>1, <2>2 DEF Reserved, LastRoom
<1>4. CASE L # 0
  <2>1. ids # <<>> /\ Last(ids) = ids[L]
    BY <1>1, <1>4 DEF Last
  <2>2. store[ids[L]] = Page(x, m, L)
    BY <1>1, <1>4 DEF Paged
  <2>3. Room(m, L) = m - Base(L)
    <3> HIDE DEF L
    <3> QED BY <1>1 DEF Room
  <2>4. Len(Page(x, m, L)) = m - Base(L)
    <3>1. m - Base(L) \in Nat
      <4> HIDE DEF L
      <4> QED BY <1>1
    <3> HIDE DEF L
    <3> QED BY <2>3, <3>1 DEF Page
  <2>5. Reserved(ids) = (L - 1) * BlockSize + (m - Base(L))
    BY <1>1, <2>1, <2>2, <2>4 DEF Reserved
  <2>6. LastRoom(ids) = BlockSize - (m - Base(L))
    BY <1>1, <2>1, <2>2, <2>4 DEF LastRoom
  <2>7. (L - 1) * BlockSize = Base(L)
    BY DEF Base
  <2> HIDE DEF L
  <2>8. Reserved(ids) = m
    BY <1>1, <2>5, <2>7
  <2>9. LastRoom(ids) = Base(L) + BlockSize - m /\ LastRoom(ids) \in Nat
    BY <1>1, <2>6
  <2> QED BY <1>4, <2>8, <2>9 DEF L
<1> QED BY <1>3, <1>4

\* Where the blocks of the extended list come from.
\* The blocks of a list that was extended.
LEMMA ExtendedAt ==
  ASSUME IInv, NEW s \in Sessions, NEW n \in Nat,
         NEW new \in Injection(1..n, free)
  PROVE  /\ Len(Extended(s, new)) = Len(blockIds[s]) + n - (IF MustCopy(s) THEN 1 ELSE 0)
         /\ \A i \in 1..Len(Extended(s, new)) :
              /\ i < Len(blockIds[s]) => Extended(s, new)[i] = blockIds[s][i]
              /\ i = Len(blockIds[s]) /\ ~MustCopy(s) => Extended(s, new)[i] = blockIds[s][i]
              /\ i > Len(blockIds[s]) \/ (i = Len(blockIds[s]) /\ MustCopy(s))
                   => Extended(s, new)[i] \in free
<1> DEFINE old == blockIds[s]
<1>1. old \in Seq(Blocks) /\ free \subseteq Blocks
  BY DEF IInv, ListsTypeOK
<1>2. new \in [1..n -> free] /\ new \in Seq(free) /\ Len(new) = n
  BY DEF Injection
<1>3. CASE MustCopy(s)
  <2>1. old # <<>>
    BY <1>1, <1>3, LastRoomInt DEF MustCopy, IInv, ListsTypeOK
  <2>2. /\ Front(old) \in Seq(Blocks) /\ Len(Front(old)) = Len(old) - 1
        /\ \A i \in 1..(Len(old) - 1) : Front(old)[i] = old[i]
    <3> HIDE DEF old
    <3> QED BY <1>1, <2>1, FrontFacts
  <2>3. Extended(s, new) = Front(old) \o new
    BY <1>3 DEF Extended
  <2> HIDE DEF old
  <2>4. /\ Len(Front(old) \o new) = Len(old) - 1 + n
        /\ \A i \in 1..(Len(old) - 1) : (Front(old) \o new)[i] = old[i]
        /\ \A i \in 1..(Len(old) - 1 + n) : i >= Len(old) => (Front(old) \o new)[i] \in free
    BY <1>1, <1>2, <2>2
  <2>5. /\ Len(Extended(s, new)) = Len(old) + n - 1
        /\ \A i \in 1..Len(Extended(s, new)) :
             /\ i < Len(old) => Extended(s, new)[i] = old[i]
             /\ i >= Len(old) => Extended(s, new)[i] \in free
    BY <1>1, <1>2, <2>3, <2>4
  <2>6. Len(old) \in Nat
    BY <1>1
  <2> QED BY <1>3, <2>5, <2>6 DEF old
<1>4. CASE ~MustCopy(s)
  <2>1. Extended(s, new) = old \o new
    BY <1>4 DEF Extended
  <2> HIDE DEF old
  <2>2. /\ Len(old \o new) = Len(old) + n
        /\ \A i \in 1..Len(old) : (old \o new)[i] = old[i]
        /\ \A i \in 1..(Len(old) + n) : i > Len(old) => (old \o new)[i] \in free
    BY <1>1, <1>2
  <2> QED BY <1>1, <1>2, <1>4, <2>1, <2>2 DEF old
<1> QED BY <1>3, <1>4

\* What reserve_append_tokens leaves in the blocks from the last one on.
LEMMA SlotsPage ==
  ASSUME ListsTypeOK, NEW s \in Sessions, NEW x \in Seq(Tokens), NEW n \in Nat,
         Paged(store, blockIds[s], x, Len(x)),
         NEW i \in 1..NumBlocks(Len(x) + n), i >= Len(blockIds[s])
  PROVE  Slots(s, i, Len(x) + n) = Page(x, Len(x) + n, i)
<1> DEFINE m == Len(x)
           L == Len(blockIds[s])
           had == IF i <= L THEN store[blockIds[s][i]] ELSE <<>>
<1>1. /\ m \in Nat /\ L \in Nat /\ L = NumBlocks(m) /\ Base(L) \in Int
      /\ Base(L) < m /\ m <= Base(L) + BlockSize /\ BlockSize \in Nat \ {0}
  <2>1. m \in Nat /\ L = NumBlocks(m)
    BY DEF Paged
  <2> HIDE DEF L, m
  <2> QED BY <2>1, PagesNeeded, BaseInt, ConstantsAssumption
<1>2. i \in Nat \ {0} /\ Base(i) \in Nat /\ i * BlockSize = Base(i) + BlockSize
  <2>1. i \in Nat \ {0}
    BY <1>1, PagesNeeded
  <2> QED BY <2>1, BaseNat, BaseAfter
<1>3. (i - 1) * BlockSize = Base(i)
  BY DEF Base
<1>4. Slots(s, i, m + n) =
        [k \in 1..Room(m + n, i) |-> IF k <= Len(had) THEN had[k] ELSE Unwritten]
  BY <1>2, <1>3 DEF Slots, Room
<1>5. ASSUME NEW k \in Nat \ {0}
      PROVE  (IF k <= Len(had) THEN had[k] ELSE Unwritten)
               = (IF Base(i) + k <= m THEN SubSeq(x, 1, Base(i) + k) ELSE Unwritten)
  <2>1. CASE i = L
    <3>1. had = Page(x, m, i)
      BY <1>1, <1>2, <2>1 DEF Paged
    <3>2. Room(m, i) = m - Base(i) /\ m - Base(i) \in Nat
      <4> HIDE DEF m, L
      <4> QED BY <1>1, <2>1 DEF Room
    <3>3. Len(had) = m - Base(i)
      BY <3>1, <3>2 DEF Page
    <3>4. k <= Len(had) <=> Base(i) + k <= m
      <4> HIDE DEF had, m, L
      <4> QED BY <1>1, <1>2, <3>3
    <3>5. ASSUME k <= Len(had) PROVE had[k] = SubSeq(x, 1, Base(i) + k)
      <4>1. k \in 1..Room(m, i) /\ Base(i) + k <= Len(x)
        BY <3>2, <3>3, <3>4, <3>5
      <4> HIDE DEF had
      <4> QED BY <3>1, <4>1 DEF Page
    <3> HIDE DEF had, m
    <3> QED BY <3>4, <3>5
  <2>2. CASE i > L
    <3>1. had = <<>> /\ Len(had) = 0
      BY <1>1, <1>2, <2>2
    <3>2. Base(L) + BlockSize <= Base(i)
      BY <1>1, <1>2, <2>2, BaseApart
    <3> HIDE DEF had, m, L
    <3> QED BY <1>1, <1>2, <3>1, <3>2
  <2>3. i = L \/ i > L
    <3> HIDE DEF m
    <3> QED BY <1>1, <1>2
  <2> QED BY <2>1, <2>2, <2>3
<1>6. \A k \in 1..Room(m + n, i) : k \in Nat \ {0}
  <2>1. m + n \in Nat
    BY <1>1
  <2>2. Room(m + n, i) \in Int
    BY <2>1, RoomType
  <2> QED BY <2>2
<1> HIDE DEF had
<1> QED BY <1>4, <1>5, <1>6 DEF Page

\* Slots that held something before still hold it.
Keeps(old, new) == /\ Len(old) <= Len(new)
                   /\ \A k \in 1..Len(old) : new[k] = old[k]

\* _reserve_append: the list covers n positions more, its text is where it was,
\* the blocks to be written are nobody else's, and no block that another list
\* names is touched.
LEMMA ReserveEffect ==
  ASSUME IInv, NEW s \in Sessions, NEW n \in Nat, ReserveAppend(s, n),
         Paged(store, blockIds[s], text[s], Len(text[s]))
  PROVE  /\ Paged(store', blockIds'[s], text[s], Len(text[s]) + n)
         /\ \A r \in Sessions : r # s => blockIds'[r] = blockIds[r]
         /\ \A b \in Range(blockIds'[s]) : b \in Range(blockIds[s]) \/ b \in free
         /\ \A i \in 1..Len(blockIds'[s]) : Base(i) + BlockSize > Len(text[s])
              => ~Shared(s, blockIds'[s][i])
         /\ \A b \in Blocks : \/ store'[b] = store[b]
                              \/ b \in free
                              \/ ~Shared(s, b) /\ Keeps(store[b], store'[b])
<1> DEFINE x == text[s]
           m == Len(x)
           old == blockIds[s]
           L == Len(old)
           need == BlocksNeeded(s, n)
<1>1. PICK new \in Injection(1..need, free) :
        /\ blockIds' = [blockIds EXCEPT ![s] = Extended(s, new)]
        /\ store' = [b \in Blocks |->
             IF \E i \in {i \in 1..Len(Extended(s, new)) : i >= L} : Extended(s, new)[i] = b
             THEN Slots(s, CHOOSE i \in {i \in 1..Len(Extended(s, new)) : i >= L} :
                             Extended(s, new)[i] = b, Reserved(old) + n)
             ELSE store[b]]
  BY DEF ReserveAppend
<1> DEFINE ids == Extended(s, new)
<1>2. /\ x \in Seq(Tokens) /\ m \in Nat /\ old \in Seq(Blocks) /\ L \in Nat
      /\ ListsTypeOK /\ IsInjective(old)
  BY DEF IInv, ListsTypeOK, Distinct
<1>3. /\ Reserved(old) = m
      /\ LastRoom(old) = (IF NumBlocks(m) = 0 THEN 0 ELSE Base(NumBlocks(m)) + BlockSize - m)
      /\ LastRoom(old) \in Nat
  BY <1>2, CoveredLength
<1>4. need \in Nat
  BY <1>2, BlocksNeededNat
<1>5. /\ ids \in Seq(Blocks) /\ IsInjective(ids)
      /\ Len(ids) = L + need - (IF MustCopy(s) THEN 1 ELSE 0)
      /\ \A i \in 1..Len(ids) :
           /\ i < L => ids[i] = old[i]
           /\ i = L /\ ~MustCopy(s) => ids[i] = old[i]
           /\ i > L \/ (i = L /\ MustCopy(s)) => ids[i] \in free
  BY <1>4, ExtendedFacts, ExtendedAt
<1>6. /\ L = NumBlocks(m)
      /\ Base(L) < m /\ m <= Base(L) + BlockSize
      /\ Base(L) \in Int /\ BlockSize \in Nat \ {0}
      /\ \A i \in Nat : i < L => Base(i) + BlockSize <= Base(L) /\ Base(i) \in Int
  <2>1. L = NumBlocks(m)
    BY DEF Paged
  <2> HIDE DEF L, m
  <2> QED BY <1>2, <2>1, PagesNeeded, BaseInt, BaseApart, ConstantsAssumption
<1>7. Len(ids) = NumBlocks(m + n)
  <2>1. NumBlocks(m + n)
          = NumBlocks(m) + NumBlocks(IF n > LastRoom(old) THEN n - LastRoom(old) ELSE 0)
    <3> DEFINE room == LastRoom(old)
    <3>1. room \in Int /\ room = IF NumBlocks(m) = 0 THEN 0
                                 ELSE Base(NumBlocks(m)) + BlockSize - m
      BY <1>3
    <3> HIDE DEF m, room
    <3>2. NumBlocks(m + n) = NumBlocks(m) + NumBlocks(IF n > room THEN n - room ELSE 0)
      BY ONLY <1>2, <3>1, n \in Nat, PagesGrow
    <3> QED BY <3>2 DEF room
  <2>2. need = NumBlocks(IF n > LastRoom(old) THEN n - LastRoom(old) ELSE 0)
                 + (IF MustCopy(s) THEN 1 ELSE 0)
    BY DEF BlocksNeeded
  <2>3. NumBlocks(IF n > LastRoom(old) THEN n - LastRoom(old) ELSE 0) \in Nat
    <3>1. PICK k : k = IF n > LastRoom(old) THEN n - LastRoom(old) ELSE 0
      OBVIOUS
    <3>2. k \in Nat
      <4> DEFINE room == LastRoom(old)
      <4>1. room \in Nat /\ k = IF n > room THEN n - room ELSE 0
        BY <1>3, <3>1
      <4> HIDE DEF room
      <4> QED BY ONLY <4>1, n \in Nat
    <3>3. NumBlocks(k) \in Nat
      BY ONLY <3>2, PagesNeeded
    <3> QED BY ONLY <3>1, <3>3
  <2> HIDE DEF ids, need, m, L, old
  <2> QED BY <1>2, <1>5, <1>6, <2>1, <2>2, <2>3
<1>8. blockIds'[s] = ids /\ \A r \in Sessions : r # s => blockIds'[r] = blockIds[r]
  BY <1>1, <1>2 DEF ListsTypeOK
<1>9. /\ Len(ids) \in Nat
      /\ \A i, j \in 1..Len(ids) : ids[i] = ids[j] => i = j
      /\ \A i \in 1..Len(ids) : ids[i] \in Blocks
  BY <1>5 DEF IsInjective
<1>10. ASSUME NEW i \in 1..Len(ids), i >= L
       PROVE  store'[ids[i]] = Page(x, m + n, i)
  <2>1. (CHOOSE j \in {j \in 1..Len(ids) : j >= L} : ids[j] = ids[i]) = i
    BY <1>9, <1>10
  <2>2. store'[ids[i]] = Slots(s, i, m + n)
    BY <1>1, <1>3, <1>9, <1>10, <2>1
  <2>3. Slots(s, i, m + n) = Page(x, m + n, i)
    BY <1>2, <1>7, <1>10, SlotsPage
  <2> QED BY <2>2, <2>3
<1>11. \A b \in Blocks : store'[b] = store[b]
                           \/ \E i \in 1..Len(ids) : i >= L /\ ids[i] = b
  BY <1>1
<1>12. ASSUME NEW i \in 1..Len(ids), i < L
       PROVE  store'[ids[i]] = Page(x, m + n, i)
  <2>1. ids[i] = old[i] /\ i \in 1..L
    BY <1>2, <1>5, <1>12
  <2>2. store'[ids[i]] = store[ids[i]]
    BY <1>9, <1>11, <1>12
  <2>3. store[old[i]] = Page(x, m, i)
    BY <2>1 DEF Paged
  <2>4. Room(m, i) = BlockSize /\ Base(i) \in Nat
    BY <1>2, <1>6, <1>12, <2>1, RoomType
  <2>5. Base(i) + BlockSize <= Base(L)
    BY <1>6, <1>9, <1>12
  <2>6. Room(m + n, i) = BlockSize
    <3> HIDE DEF m, L
    <3> QED BY <1>2, <1>6, <2>4, <2>5 DEF Room
  <2> QED BY <2>1, <2>2, <2>3, <2>4, <2>6 DEF Page
<1>13. Paged(store', ids, x, m + n)
  <2>1. \A i \in 1..Len(ids) : store'[ids[i]] = Page(x, m + n, i)
    BY <1>2, <1>10, <1>12
  <2> QED BY <1>7, <2>1 DEF Paged
<1>14. \A b \in free : ~Shared(s, b)
  BY NamedCounted DEF Shared
<1>15. ASSUME L # 0, ~MustCopy(s), LastRoom(old) > 0
       PROVE  ~Shared(s, old[L])
  <2>1. Last(old) = old[L] /\ old[L] \in Range(old)
    BY <1>2, <1>15 DEF Last, Range
  <2>2. refcount[old[L]] = 1
    BY <1>15, <2>1 DEF MustCopy
  <2> QED BY <2>1, <2>2, OneHolder
<1>16. ASSUME NEW i \in 1..Len(ids), Base(i) + BlockSize > m
       PROVE  ~Shared(s, ids[i])
  <2>1. CASE i < L
    <3>1. Base(i) + BlockSize <= Base(L) /\ Base(i) \in Int
      BY <1>6, <1>9, <2>1
    <3> HIDE DEF m, L
    <3> QED BY <1>2, <1>6, <1>16, <3>1
  <2>2. CASE i = L /\ ~MustCopy(s)
    <3>1. L # 0 /\ ids[i] = old[L]
      BY <1>5, <2>2
    <3>2. LastRoom(old) > 0
      BY <1>2, <1>3, <1>6, <1>16, <2>2, <3>1
    <3> QED BY <1>15, <2>2, <3>1, <3>2
  <2>3. CASE i > L \/ (i = L /\ MustCopy(s))
    BY <1>5, <1>14, <2>3
  <2>4. i < L \/ i = L \/ i > L
    <3> HIDE DEF L
    <3> QED BY <1>2, <1>9
  <2> HIDE DEF ids, L, m, old
  <2> QED BY <2>1, <2>2, <2>3, <2>4
<1>17. ASSUME NEW b \in Blocks
       PROVE  \/ store'[b] = store[b]
              \/ b \in free
              \/ ~Shared(s, b) /\ Keeps(store[b], store'[b])
  <2>1. CASE store'[b] = store[b]
    BY <2>1
  <2>2. ASSUME NEW i \in 1..Len(ids), i >= L, ids[i] = b
        PROVE  b \in free \/ store'[b] = store[b] \/ (~Shared(s, b) /\ Keeps(store[b], store'[b]))
    <3>1. CASE i > L \/ (i = L /\ MustCopy(s))
      BY <1>5, <2>2, <3>1
    <3>2. CASE i = L /\ ~MustCopy(s)
      <4>1. L # 0 /\ b = old[L] /\ store[b] = Page(x, m, L) /\ store'[b] = Page(x, m + n, L)
        BY <1>2, <1>5, <1>10, <2>2, <3>2 DEF Paged
      <4>2. CASE LastRoom(old) > 0
        <5>1. ~Shared(s, b)
          BY <1>15, <3>2, <4>1, <4>2
        <5>2. /\ Room(m, L) = m - Base(L) /\ Room(m, L) \in Nat /\ Room(m + n, L) \in Nat
              /\ Room(m, L) <= Room(m + n, L)
          <6> HIDE DEF m, L
          <6> QED BY <1>2, <1>6 DEF Room
        <5>3. Keeps(Page(x, m, L), Page(x, m + n, L))
          <6>1. /\ Len(Page(x, m, L)) = Room(m, L) /\ Len(Page(x, m + n, L)) = Room(m + n, L)
            BY <5>2 DEF Page
          <6>2. \A k \in 1..Room(m, L) : Page(x, m + n, L)[k] = Page(x, m, L)[k]
            BY <5>2 DEF Page
          <6> QED BY <5>2, <6>1, <6>2 DEF Keeps
        <5> QED BY <4>1, <5>1, <5>3
      <4>3. CASE LastRoom(old) = 0
        <5>1. m = Base(L) + BlockSize
          <6>1. Base(L) + BlockSize - m = 0
            BY <1>3, <1>6, <4>1, <4>3
          <6> HIDE DEF L, m
          <6> QED BY <1>2, <1>6, <6>1
        <5>2. Room(m, L) = BlockSize /\ Room(m + n, L) = BlockSize
          <6> HIDE DEF m, L
          <6> QED BY <1>2, <1>6, <5>1 DEF Room
        <5> QED BY <4>1, <5>2 DEF Page
      <4> QED BY <1>3, <4>2, <4>3
    <3> QED BY <1>2, <1>9, <2>2, <3>1, <3>2
  <2> QED BY <1>11, <2>1, <2>2
<1>18. \A b \in Range(ids) : b \in Range(old) \/ b \in free
  <2> SUFFICES ASSUME NEW i \in 1..Len(ids) PROVE ids[i] \in Range(old) \/ ids[i] \in free
    BY <1>5 DEF Range
  <2>1. CASE i > L \/ (i = L /\ MustCopy(s))
    BY <1>5, <2>1
  <2>2. CASE i < L \/ (i = L /\ ~MustCopy(s))
    BY <1>2, <1>5, <2>2 DEF Range
  <2> QED BY <1>2, <1>9, <2>1, <2>2
<1> HIDE DEF ids
<1> QED BY <1>8, <1>13, <1>16, <1>17, <1>18

\* So reserving keeps the invariant, in each of the stages that reserve.
LEMMA ReserveContent ==
  ASSUME IInv, IInv', Content, NEW s \in Sessions, Reserve(s) PROVE Content'
<1> USE DEF IInv, ListsTypeOK
<1>1. /\ stage[s] \in {"miss", "suffix", "decode", "chunk", "solo"}
      /\ ReserveAppend(s, Amount(s)) /\ UNCHANGED <<text, prompt, entries>>
      /\ \A r \in Sessions : r # s => stage'[r] = stage[r]
      /\ \/ stage[s] = "miss" /\ stage'[s] = "fill"
         \/ stage[s] = "suffix" /\ stage'[s] = "splice"
         \/ stage[s] = "decode" /\ stage'[s] = "append"
         \/ stage[s] = "chunk" /\ stage'[s] = "chunkfill"
         \/ stage[s] = "solo" /\ stage'[s] = "solofill"
  BY DEF Reserve, CanReserve
<1>2. Amount(s) \in Nat /\ Len(text[s]) \in Nat
  BY AmountNat
<1>3. TextFits(s) /\ Paged(store, blockIds[s], text[s], Len(text[s]))
  <2>1. PICK n \in Nat : Covers(s, n)
    BY DEF Content
  <2>2. n = Len(text[s])
    BY <1>1, <1>2, <2>1 DEF Covers, Pending
  <2> QED BY <2>1, <2>2 DEF Covers, Content
<1>4. /\ Paged(store', blockIds'[s], text[s], Len(text[s]) + Amount(s))
      /\ \A r \in Sessions : r # s => blockIds'[r] = blockIds[r]
      /\ \A b \in Range(blockIds'[s]) : b \in Range(blockIds[s]) \/ b \in free
      /\ \A i \in 1..Len(blockIds'[s]) : Base(i) + BlockSize > Len(text[s])
           => ~Shared(s, blockIds'[s][i])
      /\ \A b \in Blocks : \/ store'[b] = store[b]
                           \/ b \in free
                           \/ ~Shared(s, b) /\ Keeps(store[b], store'[b])
  BY <1>1, <1>2, <1>3, ReserveEffect
<1>5. Pending(s)' = Amount(s)
  BY <1>1 DEF Pending, Amount, Chunk
<1>6. \E n \in Nat : Covers(s, n)'
  <2>1. PICK n \in Nat : n = Len(text[s]) + Amount(s)
    BY <1>2
  <2>2. Len(text[s]) <= n /\ Pending(s)' = Amount(s) /\ text'[s] = text[s]
    BY <1>1, <1>2, <1>5, <2>1
  <2>3. Covers(s, n)'
    BY <1>4, <2>1, <2>2 DEF Covers
  <2> QED BY <2>3
<1>7. TextFits(s)'
  BY <1>1, <1>3 DEF TextFits
<1>8. Private(s)'
  BY <1>1, <1>4 DEF Private, Shared
<1>9. ASSUME NEW r \in Sessions, r # s
      PROVE  TextFits(r)' /\ Private(r)' /\ \E n \in Nat : Covers(r, n)'
  <2>1. TextFits(r) /\ Private(r) /\ \E n \in Nat : Covers(r, n)
    BY DEF Content
  <2>2. \A b \in Range(blockIds[r]) : b \in Blocks /\ b \notin free /\ Shared(s, b)
    BY <1>9, NamedCounted DEF Shared
  <2>3. \A b \in Range(blockIds[r]) : store'[b] = store[b]
    BY <1>4, <2>2
  <2>4. TextFits(r)' /\ \E n \in Nat : Covers(r, n)'
    BY <1>1, <1>4, <1>9, <2>1, <2>3, SessionKept
  <2>5. \A b \in Range(blockIds[r]) : Shared(r, b)' => Shared(r, b)
    <3> SUFFICES ASSUME NEW b \in Range(blockIds[r]), Shared(r, b)' PROVE Shared(r, b)
      OBVIOUS
    <3>1. CASE b \in Range(blockIds'[s])
      BY <1>4, <1>9, <2>2, <3>1 DEF Shared
    <3>2. CASE b \notin Range(blockIds'[s])
      BY <1>1, <1>4, <3>2 DEF Shared
    <3> QED BY <3>1, <3>2
  <2>6. Private(r)'
    BY <1>1, <1>4, <1>9, <2>1, <2>5, PrivateKept
  <2> QED BY <2>4, <2>6
<1>10. ASSUME NEW k \in Prompts PROVE EntryPaged(k)'
  <2>1. \A b \in Range(entries[k]) : b \in Blocks /\ b \notin free /\ Shared(s, b)
    BY NamedCounted DEF Shared
  <2>2. entries[k] \in Seq(Blocks) /\ \A b \in Range(entries[k]) : store'[b] = store[b]
    BY <1>4, <2>1
  <2>3. Cached(k) => Paged(store, entries[k], k, Len(k))
    BY DEF Content, EntryPaged
  <2>4. Cached(k) => Paged(store', entries[k], k, Len(k))
    BY ONLY <2>2, <2>3, PagedKept
  <2> QED BY <1>1, <2>4 DEF EntryPaged, Cached
<1>11. \A r \in Sessions : TextFits(r)' /\ Private(r)' /\ \E n \in Nat : Covers(r, n)'
  BY <1>2, <1>6, <1>7, <1>8, <1>9
<1> QED BY <1>10, <1>11 DEF Content

-----------------------------------------------------------------------------
\* The positions at which the write of s reaches slot k of block b.
Spots(s, xs, b, k) == {p \in (Len(text[s]) + 1)..Len(text[s] \o xs[s]) :
                         BlockAt(blockIds[s], p) = b /\ SlotAt(p) = k}

\* What that write puts there.
Filled(s, xs, p) == SubSeq(text[s] \o xs[s], 1, p)

\* A write changes slots, never the number of them; it leaves a slot alone that
\* no writer reaches, and puts there the K/V of the one position that reaches it.
LEMMA SlotLengths ==
  ASSUME ListsTypeOK, NEW W \in SUBSET Sessions, NEW xs, WriteTokens(W, xs),
         NEW b \in Blocks
  PROVE  Len(store'[b]) = Len(store[b])
<1>1. \E f : store'[b] = [k \in 1..Len(store[b]) |-> f[k]]
  <2> DEFINE writers(k) == {s \in W : Spots(s, xs, b, k) # {}}
             written(k) == LET s == CHOOSE s \in writers(k) : TRUE
                           IN  SubSeq(text[s] \o xs[s], 1, CHOOSE p \in Spots(s, xs, b, k) : TRUE)
  <2>1. store'[b] = [k \in 1..Len(store[b]) |->
                       IF writers(k) # {} THEN written(k) ELSE store[b][k]]
    BY DEF WriteTokens, Spots
  <2> HIDE DEF writers, written
  <2>2. store'[b] = [k \in 1..Len(store[b]) |-> store'[b][k]]
    BY <2>1
  <2> QED BY <2>2
<1>2. Len(store[b]) \in Nat
  BY DEF ListsTypeOK
<1> QED BY <1>1, <1>2

LEMMA SlotKept ==
  ASSUME ListsTypeOK, NEW W \in SUBSET Sessions, NEW xs, WriteTokens(W, xs),
         NEW b \in Blocks, NEW k \in 1..Len(store[b]),
         \A s \in W : Spots(s, xs, b, k) = {}
  PROVE  store'[b][k] = store[b][k]
<1> DEFINE writers(j) == {s \in W : Spots(s, xs, b, j) # {}}
           written(j) == LET s == CHOOSE s \in writers(j) : TRUE
                         IN  SubSeq(text[s] \o xs[s], 1, CHOOSE p \in Spots(s, xs, b, j) : TRUE)
<1>1. store'[b] = [j \in 1..Len(store[b]) |->
                     IF writers(j) # {} THEN written(j) ELSE store[b][j]]
  BY DEF WriteTokens, Spots
<1>2. writers(k) = {}
  OBVIOUS
<1> HIDE DEF writers, written
<1> QED BY <1>1, <1>2

LEMMA SlotWritten ==
  ASSUME ListsTypeOK, NEW W \in SUBSET Sessions, NEW xs, WriteTokens(W, xs),
         NEW b \in Blocks, NEW k \in 1..Len(store[b]), NEW s \in W,
         NEW p \in Spots(s, xs, b, k), \A q \in Spots(s, xs, b, k) : q = p,
         \A r \in W : r # s => Spots(r, xs, b, k) = {}
  PROVE  store'[b][k] = Filled(s, xs, p)
<1> DEFINE writers(j) == {r \in W : Spots(r, xs, b, j) # {}}
           written(j) == LET r == CHOOSE r \in writers(j) : TRUE
                         IN  Filled(r, xs, CHOOSE q \in Spots(r, xs, b, j) : TRUE)
<1>1. store'[b] = [j \in 1..Len(store[b]) |->
                     IF writers(j) # {} THEN written(j) ELSE store[b][j]]
  BY DEF WriteTokens, Spots, Filled
<1>2. writers(k) = {s}
  OBVIOUS
<1>3. (CHOOSE r \in writers(k) : TRUE) = s /\ (CHOOSE q \in Spots(s, xs, b, k) : TRUE) = p
  BY <1>2
<1>4. written(k) = Filled(s, xs, p)
  BY <1>3
<1> HIDE DEF writers, written
<1> QED BY <1>1, <1>2, <1>4

\* A write goes to blocks that no other list names.
LEMMA SpotsPrivate ==
  ASSUME IInv, Content, NEW s \in Sessions, stage[s] \in Ahead, NEW xs,
         xs[s] \in Seq(Tokens), Len(xs[s]) = Pending(s), NEW b, NEW k,
         NEW p \in Spots(s, xs, b, k)
  PROVE  /\ Index(p) \in 1..Len(blockIds[s]) /\ blockIds[s][Index(p)] = b
         /\ p = Base(Index(p)) + k
         /\ b \in Range(blockIds[s]) /\ ~Shared(s, b)
<1> USE DEF IInv, ListsTypeOK
<1>1. PICK n \in Nat : Covers(s, n)
  BY DEF Content
<1>2. Len(text[s]) \in Nat /\ n = Len(text[s]) + Pending(s)
      /\ Len(text[s] \o xs[s]) = n
  <2>1. text[s] \in Seq(Tokens) /\ Len(text[s]) \in Nat
    OBVIOUS
  <2>2. n = Len(text[s]) + Pending(s)
    BY <1>1 DEF Covers, Ahead
  <2>3. Len(text[s] \o xs[s]) = Len(text[s]) + Len(xs[s])
    BY ONLY <2>1, xs[s] \in Seq(Tokens), ConcatLen
  <2> QED BY <2>1, <2>2, <2>3
<1>3. p \in Nat \ {0} /\ p \in 1..n /\ p > Len(text[s]) /\ SlotAt(p) = k
      /\ BlockAt(blockIds[s], p) = b
  BY <1>2 DEF Spots
<1>4. /\ Index(p) \in 1..NumBlocks(n) /\ SlotAt(p) \in 1..BlockSize
      /\ p = Base(Index(p)) + SlotAt(p) /\ Index(p) \in Nat \ {0}
  BY <1>3, Positions, Reaches
<1>5. Len(blockIds[s]) = NumBlocks(n)
  BY <1>1 DEF Covers, Paged
<1>6. blockIds[s][Index(p)] = b
  BY <1>3 DEF BlockAt, Index
<1>7. Base(Index(p)) + BlockSize > Len(text[s])
  <2>1. Base(Index(p)) \in Nat /\ BlockSize \in Nat
    BY <1>4, BaseNat, ConstantsAssumption
  <2> QED BY ONLY <2>1, <1>2, <1>3, <1>4
<1>8. ~Shared(s, b)
  <2>1. Private(s)
    BY DEF Content
  <2> QED BY <1>4, <1>5, <1>6, <1>7, <2>1 DEF Private
<1>9. b \in Range(blockIds[s])
  BY <1>4, <1>5, <1>6 DEF Range
<1> QED BY <1>3, <1>4, <1>5, <1>6, <1>8, <1>9

\* Writing after the text of a session does not change the K/V of the text.
LEMMA PrefixOfConcat ==
  ASSUME NEW S, NEW x \in Seq(S), NEW y \in Seq(S), NEW n \in 0..Len(x)
  PROVE  SubSeq(x \o y, 1, n) = SubSeq(x, 1, n)
OBVIOUS

\* A slot that holds something keeps it.
SlotsKept == \A b \in Blocks : /\ Len(store'[b]) = Len(store[b])
                               /\ \A k \in 1..Len(store[b]) :
                                    store[b][k] # Unwritten => store'[b][k] = store[b][k]

\* A forward pass of several sessions at once: each of them then holds its longer
\* text, and no other list sees a change.
LEMMA WriteEffect ==
  ASSUME IInv, Content, NEW W \in SUBSET Sessions, NEW xs, WriteTokens(W, xs),
         \A s \in W : stage[s] \in Ahead /\ xs[s] \in Seq(Tokens) /\ Len(xs[s]) = Pending(s)
  PROVE  /\ \A s \in W : Paged(store', blockIds[s], text'[s], Len(text[s]) + Pending(s))
         /\ \A s \in Sessions \ W : \A b \in Range(blockIds[s]) : store'[b] = store[b]
         /\ \A k \in Prompts : \A b \in Range(entries[k]) : store'[b] = store[b]
         /\ SlotsKept
<1>0. /\ ListsTypeOK /\ W \subseteq Sessions
      /\ \A s \in Sessions : /\ text[s] \in Seq(Tokens) /\ Len(text[s]) \in Nat
                            /\ blockIds[s] \in Seq(Blocks)
      /\ \A s \in W : xs[s] \in Seq(Tokens)
  BY DEF IInv, ListsTypeOK
<1>1. \A s \in Sessions : text'[s] = IF s \in W THEN text[s] \o xs[s] ELSE text[s]
  BY <1>0 DEF WriteTokens
<1>2. ASSUME NEW b \in Blocks, \A s \in W : \A k : Spots(s, xs, b, k) = {}
      PROVE  store'[b] = store[b]
  <2>1. store[b] \in Seq(Values) /\ store'[b] \in Seq(Values)
    BY <1>0, WriteTokensType DEF ListsTypeOK
  <2>2. Len(store'[b]) = Len(store[b])
    BY <1>0, SlotLengths
  <2>3. \A k \in 1..Len(store[b]) : store'[b][k] = store[b][k]
    BY <1>0, <1>2, SlotKept
  <2> QED BY ONLY <2>1, <2>2, <2>3
<1>3. ASSUME NEW s \in W, NEW b, NEW k, Spots(s, xs, b, k) # {}
      PROVE  b \in Range(blockIds[s]) /\ ~Shared(s, b)
  BY <1>0, <1>3, SpotsPrivate
<1>4. ASSUME NEW s \in Sessions \ W, NEW b \in Range(blockIds[s])
      PROVE  store'[b] = store[b]
  <2>1. b \in Blocks
    BY <1>0 DEF Range, ListsTypeOK
  <2>2. \A r \in W : \A k : Spots(r, xs, b, k) = {}
    BY <1>0, <1>3 DEF Shared
  <2> QED BY <1>2, <2>1, <2>2
<1>5. ASSUME NEW j \in Prompts, NEW b \in Range(entries[j])
      PROVE  store'[b] = store[b]
  <2>1. b \in Blocks
    BY <1>0 DEF Range, ListsTypeOK
  <2>2. \A r \in W : \A k : Spots(r, xs, b, k) = {}
    BY <1>0, <1>3 DEF Shared
  <2> QED BY <1>2, <2>1, <2>2
<1>6. ASSUME NEW s \in W, NEW i \in 1..Len(blockIds[s]), NEW b, b = blockIds[s][i],
             NEW k \in 1..Len(store[b]), NEW p, p = Base(i) + k
      PROVE  store'[b][k] = IF p <= Len(text[s]) THEN store[b][k]
                                                 ELSE Filled(s, xs, p)
  <2>1. b \in Blocks /\ b \in Range(blockIds[s])
    BY <1>0, <1>6 DEF Range
  <2>2. PICK n \in Nat : Covers(s, n)
    BY <1>0 DEF Content
  <2>3. /\ Len(text[s]) \in Nat /\ n = Len(text[s]) + Pending(s)
        /\ Len(text[s] \o xs[s]) = n
    <3>1. text[s] \in Seq(Tokens) /\ xs[s] \in Seq(Tokens)
      BY <1>0
    <3>2. Len(text[s] \o xs[s]) = Len(text[s]) + Len(xs[s])
      BY ONLY <3>1, ConcatLen
    <3>3. n = Len(text[s]) + Pending(s)
      BY <1>0, <2>2 DEF Covers, Ahead
    <3> QED BY <1>0, <2>1, <3>1, <3>2, <3>3
  <2>4. /\ Len(blockIds[s]) = NumBlocks(n) /\ store[b] = Page(text[s], n, i)
    BY <1>6, <2>2 DEF Covers, Paged
  <2>5. /\ Room(n, i) \in 1..BlockSize /\ Base(i) \in Nat /\ Base(i) + Room(n, i) <= n
    BY <2>4, RoomType
  <2>6. k \in 1..Room(n, i) /\ i \in Nat \ {0}
    <3>1. Len(Page(text[s], n, i)) = Room(n, i)
      BY <2>5 DEF Page
    <3> QED BY <2>4, <3>1
  <2>7. k \in 1..BlockSize /\ p \in 1..n
    BY <1>6, <2>5, <2>6, ConstantsAssumption
  <2>8. Index(p) = i /\ SlotAt(p) = k
    BY <1>6, <2>6, <2>7, OnePosition
  <2>9. ASSUME NEW q \in Spots(s, xs, b, k) PROVE q = p
    <3>1. Index(q) \in 1..Len(blockIds[s]) /\ blockIds[s][Index(q)] = b /\ q = Base(Index(q)) + k
      BY <1>0, SpotsPrivate
    <3>2. Index(q) = i
      BY <1>6, <2>9, <3>1, <1>0 DEF IInv, Distinct, IsInjective
    <3> QED BY <1>6, <3>1, <3>2
  <2>10. \A r \in W : r # s => Spots(r, xs, b, k) = {}
    BY <1>0, <1>3, <2>1 DEF Shared
  <2>11. CASE p <= Len(text[s])
    <3>1. Spots(s, xs, b, k) = {}
      <4>1. p \notin Spots(s, xs, b, k)
        BY <2>3, <2>7, <2>11 DEF Spots
      <4> QED BY <2>9, <4>1
    <3>2. \A r \in W : Spots(r, xs, b, k) = {}
      BY <2>10, <3>1
    <3>3. store'[b][k] = store[b][k]
      BY ONLY <1>0, WriteTokens(W, xs), W \in SUBSET Sessions, k \in 1..Len(store[b]), <2>1, <3>2, SlotKept
    <3> QED BY <2>3, <2>7, <2>11, <3>3
  <2>12. CASE p > Len(text[s])
    <3>1. p \in Spots(s, xs, b, k)
      BY <2>3, <2>7, <2>8, <1>6, <2>12 DEF Spots, BlockAt, Index
    <3>2. store'[b][k] = Filled(s, xs, p)
      <4>1. /\ ListsTypeOK /\ b \in Blocks
            /\ \A q \in Spots(s, xs, b, k) : q = p
        BY <1>0, <2>1, <2>9
      <4> QED BY ONLY <2>10, <3>1, <4>1, WriteTokens(W, xs), W \in SUBSET Sessions, s \in W,
                      k \in 1..Len(store[b]), SlotWritten
    <3>3. ~(p <= Len(text[s]))
      BY ONLY <2>3, <2>7, <2>12
    <3> QED BY <3>2, <3>3
  <2>13. p <= Len(text[s]) \/ p > Len(text[s])
    BY ONLY <2>3, <2>7
  <2> QED BY <2>11, <2>12, <2>13
<1>7. ASSUME NEW s \in W
      PROVE  Paged(store', blockIds[s], text'[s], Len(text[s]) + Pending(s))
  <2>1. PICK n \in Nat : Covers(s, n)
    BY <1>0 DEF Content
  <2>2. /\ text[s] \in Seq(Tokens) /\ xs[s] \in Seq(Tokens)
        /\ Len(text[s]) \in Nat /\ n = Len(text[s]) + Pending(s)
        /\ text[s] \o xs[s] \in Seq(Tokens) /\ Len(text[s] \o xs[s]) = n
    <3>1. text[s] \in Seq(Tokens) /\ xs[s] \in Seq(Tokens)
      BY <1>0
    <3>2. /\ Len(text[s] \o xs[s]) = Len(text[s]) + Len(xs[s])
          /\ text[s] \o xs[s] \in Seq(Tokens)
      BY ONLY <3>1, JoinFacts
    <3>3. n = Len(text[s]) + Pending(s)
      BY <1>0, <2>1 DEF Covers, Ahead
    <3> QED BY <1>0, <2>1, <3>1, <3>2, <3>3
  <2>3. ASSUME NEW i \in 1..Len(blockIds[s])
        PROVE  store'[blockIds[s][i]] = Page(text[s] \o xs[s], n, i)
    <3> DEFINE b == blockIds[s][i]
    <3>1. Len(blockIds[s]) = NumBlocks(n) /\ store[b] = Page(text[s], n, i)
      BY <2>1 DEF Covers, Paged
    <3>2. Room(n, i) \in 1..BlockSize /\ Base(i) \in Nat /\ Base(i) + Room(n, i) <= n
      BY <3>1, RoomType
    <3>3. b \in Blocks /\ Len(store[b]) = Room(n, i)
      <4>0. b \in Blocks
        BY <1>0
      <4>1. Len(Page(text[s], n, i)) = Room(n, i)
        BY <3>2 DEF Page
      <4> QED BY <3>1, <4>0, <4>1
    <3>4. Len(store'[b]) = Room(n, i) /\ store'[b] \in Seq(Values)
      <4>1. store' \in [Blocks -> Seq(Values)]
        BY <1>0, WriteTokensType DEF ListsTypeOK
      <4> QED BY <1>0, <3>3, <4>1, SlotLengths
    <3>5. ASSUME NEW k \in 1..Room(n, i)
          PROVE  store'[b][k] = Filled(s, xs, Base(i) + k)
      <4> DEFINE p == Base(i) + k
      <4>0. /\ k \in 1..Len(store[b])
            /\ store'[b][k] = IF p <= Len(text[s]) THEN store[b][k]
                                                   ELSE Filled(s, xs, p)
        BY <1>6, <3>3
      <4>1. ASSUME Base(i) + k <= Len(text[s]) PROVE store'[b][k] = Filled(s, xs, Base(i) + k)
        <5>1. store'[b][k] = store[b][k]
          BY <4>0, <4>1
        <5>2. store[b][k] = SubSeq(text[s], 1, Base(i) + k)
          BY <3>1, <4>1 DEF Page
        <5>3. Base(i) + k \in 0..Len(text[s])
          BY <3>2, <4>1
        <5>4. SubSeq(text[s] \o xs[s], 1, Base(i) + k) = SubSeq(text[s], 1, Base(i) + k)
          BY ONLY <2>2, <5>3, PrefixOfConcat
        <5> QED BY <5>1, <5>2, <5>4 DEF Filled
      <4>2. ASSUME Base(i) + k > Len(text[s]) PROVE store'[b][k] = Filled(s, xs, Base(i) + k)
        <5>1. ~(p <= Len(text[s]))
          BY <2>2, <3>2, <4>2
        <5> HIDE DEF p
        <5>2. store'[b][k] = Filled(s, xs, p)
          BY ONLY <4>0, <5>1
        <5> QED BY <5>2 DEF p
      <4>3. Base(i) + k <= Len(text[s]) \/ Base(i) + k > Len(text[s])
        BY <2>2, <3>2
      <4> QED BY <4>1, <4>2, <4>3
    <3>6. Page(text[s] \o xs[s], n, i)
            = [k \in 1..Room(n, i) |-> SubSeq(text[s] \o xs[s], 1, Base(i) + k)]
      <4>1. \A k \in 1..Room(n, i) : Base(i) + k <= n
        BY <3>2
      <4> QED BY <2>2, <4>1 DEF Page
    <3>7. store'[b] = [k \in 1..Room(n, i) |-> store'[b][k]]
      <4> HIDE DEF b
      <4> QED BY <3>4
    <3> HIDE DEF b
    <3>8. store'[b] = [k \in 1..Room(n, i) |-> SubSeq(text[s] \o xs[s], 1, Base(i) + k)]
      BY <3>5, <3>7 DEF Filled
    <3> QED BY <3>6, <3>8 DEF b
  <2>4. Len(blockIds[s]) = NumBlocks(n)
    BY <2>1 DEF Covers, Paged
  <2>5. text'[s] = text[s] \o xs[s]
    BY <1>1
  <2> QED BY <2>2, <2>3, <2>4, <2>5 DEF Paged
<1>8. ASSUME NEW b \in Blocks, NEW k \in 1..Len(store[b]), store[b][k] # Unwritten
      PROVE  store'[b][k] = store[b][k]
  <2>1. ASSUME NEW s \in W, NEW p \in Spots(s, xs, b, k) PROVE FALSE
    <3>1. PICK n \in Nat : Covers(s, n)
      BY <1>0 DEF Content
    <3>2. /\ Index(p) \in 1..Len(blockIds[s]) /\ blockIds[s][Index(p)] = b
          /\ p = Base(Index(p)) + k
      BY <1>0, SpotsPrivate
    <3>3. store[b] = Page(text[s], n, Index(p)) /\ Len(blockIds[s]) = NumBlocks(n)
      BY <3>1, <3>2 DEF Covers, Paged
    <3>4. Room(n, Index(p)) \in 1..BlockSize
      BY <3>2, <3>3, RoomType
    <3>5. k \in 1..Room(n, Index(p))
      <4>1. Len(Page(text[s], n, Index(p))) = Room(n, Index(p))
        BY <3>4 DEF Page
      <4> QED BY <3>3, <4>1
    <3>6. Len(text[s]) \in Nat /\ p > Len(text[s]) /\ p \in Int
      BY <1>0 DEF Spots
    <3>7. ~(Base(Index(p)) + k <= Len(text[s]))
      BY <3>2, <3>6
    <3>8. store[b][k] = Unwritten
      BY <3>3, <3>5, <3>7 DEF Page
    <3> QED BY <1>8, <3>8
  <2>2. \A s \in W : Spots(s, xs, b, k) = {}
    BY <2>1
  <2> QED BY <1>0, <2>2, SlotKept
<1>9. \A b \in Blocks : Len(store'[b]) = Len(store[b])
  BY <1>0, SlotLengths
<1> QED BY <1>4, <1>5, <1>7, <1>8, <1>9 DEF SlotsKept

LEMMA WriteContent ==
  ASSUME IInv, Content, NEW W \in SUBSET Sessions, NEW xs, WriteTokens(W, xs),
         \A s \in W : stage[s] \in Ahead /\ xs[s] \in Seq(Tokens) /\ Len(xs[s]) = Pending(s),
         UNCHANGED <<blockIds, prompt, entries>>,
         \A s \in Sessions \ W : stage'[s] = stage[s],
         \A s \in W : stage'[s] \notin Ahead \cup {"lost"} /\ TextFits(s)'
  PROVE  Content' /\ SlotsKept
<1>0. \A s \in Sessions : text'[s] = IF s \in W THEN text[s] \o xs[s] ELSE text[s]
  BY DEF WriteTokens
<1>1. /\ \A s \in W : Paged(store', blockIds[s], text'[s], Len(text[s]) + Pending(s))
      /\ \A s \in Sessions \ W : \A b \in Range(blockIds[s]) : store'[b] = store[b]
      /\ \A k \in Prompts : \A b \in Range(entries[k]) : store'[b] = store[b]
      /\ SlotsKept
  BY WriteEffect
<1>2. \A s \in Sessions : \A b : Shared(s, b)' <=> Shared(s, b)
  BY DEF Shared
<1>3. ASSUME NEW s \in W
      PROVE  TextFits(s)' /\ Private(s)' /\ \E n \in Nat : Covers(s, n)'
  <2>1. Private(s)'
    BY DEF Private
  <2>2. text[s] \in Seq(Tokens) /\ xs[s] \in Seq(Tokens)
    BY DEF IInv, ListsTypeOK
  <2>3. Len(text[s] \o xs[s]) = Len(text[s]) + Pending(s) /\ Len(text[s] \o xs[s]) \in Nat
    <3>1. /\ Len(text[s] \o xs[s]) = Len(text[s]) + Len(xs[s])
          /\ text[s] \o xs[s] \in Seq(Tokens)
      BY ONLY <2>2, JoinFacts
    <3>2. Len(text[s]) \in Nat /\ Len(xs[s]) \in Nat /\ Len(xs[s]) = Pending(s)
      BY <2>2
    <3> QED BY ONLY <2>2, <3>1, <3>2
  <2>4. PICK n \in Nat : n = Len(text[s]) + Pending(s)
    BY <2>3
  <2>5. text'[s] = text[s] \o xs[s] /\ Paged(store', blockIds'[s], text'[s], n)
        /\ Len(text'[s]) = n
    BY <1>0, <1>1, <2>3, <2>4
  <2>6. Pending(s)' = 0
    BY DEF Pending, Ahead
  <2>7. Covers(s, n)'
    BY <2>4, <2>5, <2>6 DEF Covers
  <2> QED BY <2>1, <2>7
<1>4. ASSUME NEW s \in Sessions \ W
      PROVE  TextFits(s)' /\ Private(s)' /\ \E n \in Nat : Covers(s, n)'
  <2>1. TextFits(s) /\ Private(s) /\ \E n \in Nat : Covers(s, n)
    BY DEF Content
  <2>2. /\ blockIds'[s] = blockIds[s] /\ text'[s] = text[s] /\ stage'[s] = stage[s]
        /\ prompt'[s] = prompt[s] /\ ListsTypeOK
    BY <1>0 DEF IInv
  <2>3. \A b \in Range(blockIds[s]) : store'[b] = store[b]
    BY <1>1
  <2>4. TextFits(s)' /\ \E n \in Nat : Covers(s, n)'
    BY <2>1, <2>2, <2>3, SessionKept
  <2>5. Private(s)'
    BY <1>2, <2>1, <2>2, PrivateKept
  <2> QED BY <2>4, <2>5
<1>5. ASSUME NEW k \in Prompts PROVE EntryPaged(k)'
  <2>1. entries[k] \in Seq(Blocks) /\ \A b \in Range(entries[k]) : store'[b] = store[b]
    BY <1>1 DEF IInv, ListsTypeOK
  <2>2. Cached(k) => Paged(store, entries[k], k, Len(k))
    BY DEF Content, EntryPaged
  <2>3. Cached(k) => Paged(store', entries[k], k, Len(k))
    BY ONLY <2>1, <2>2, PagedKept
  <2> QED BY <2>3 DEF EntryPaged, Cached
<1> QED BY <1>1, <1>3, <1>4, <1>5 DEF Content

LEMMA PrefixGrows ==
  ASSUME NEW S, NEW x \in Seq(S), NEW m \in 0..Len(x), NEW n \in m..Len(x)
  PROVE  /\ SubSeq(x, 1, m) \o SubSeq(x, m + 1, n) = SubSeq(x, 1, n)
         /\ SubSeq(x, m + 1, n) \in Seq(S) /\ Len(SubSeq(x, m + 1, n)) = n - m
         /\ SubSeq(x, 1, Len(x)) = x
OBVIOUS

LEMMA OneToken ==
  ASSUME NEW S, NEW x \in Seq(S), NEW i \in 1..Len(x)
  PROVE  SubSeq(x, i, i) = <<x[i]>>
<1>1. /\ SubSeq(x, i, i) \in Seq(S) /\ Len(SubSeq(x, i, i)) = 1
      /\ SubSeq(x, i, i)[1] = x[i]
  OBVIOUS
<1>2. <<x[i]>> \in Seq(S) /\ Len(<<x[i]>>) = 1 /\ <<x[i]>>[1] = x[i]
  OBVIOUS
<1>3. PICK y \in Seq(S) : y = SubSeq(x, i, i)
  BY ONLY <1>1
<1>4. PICK z \in Seq(S) : z = <<x[i]>>
  BY ONLY <1>2
<1>5. Len(y) = 1 /\ Len(z) = 1 /\ y[1] = x[i] /\ z[1] = x[i]
  BY ONLY <1>1, <1>2, <1>3, <1>4
<1>6. y = z
  BY ONLY <1>5, y \in Seq(S), z \in Seq(S)
<1> QED BY ONLY <1>3, <1>4, <1>6

\* What is left of the prompt of a session that is in the middle of it.
LEMMA PromptLeft ==
  ASSUME IInv, Content, NEW s \in Sessions,
         stage[s] \in {"fill", "solofill", "splice", "chunkfill"}
  PROVE  /\ prompt[s] \in Seq(Tokens) /\ text[s] \in Seq(Tokens)
         /\ Len(text[s]) \in Nat /\ Len(prompt[s]) \in Nat
         /\ stage[s] \in {"fill", "solofill"} => text[s] = <<>>
         /\ stage[s] \in {"splice", "chunkfill"}
              => Len(text[s]) < Len(prompt[s]) /\ text[s] = SubSeq(prompt[s], 1, Len(text[s]))
<1>1. prompt[s] \in Prompts
  BY DEF IInv, StageInv, Prompted, Adding
<1>2. prompt[s] \in Seq(Tokens) /\ text[s] \in Seq(Tokens)
  BY <1>1, ConstantsAssumption DEF IInv, ListsTypeOK
<1>3. TextFits(s)
  BY DEF Content
<1> QED BY <1>2, <1>3 DEF TextFits

\* The five forward passes.
LEMMA PrefillContent ==
  ASSUME IInv, Content, PrefillWrite \/ SoloWrite PROVE Content' /\ SlotsKept
<1>1. PICK W \in SUBSET Sessions :
        /\ WriteTokens(W, prompt) /\ UNCHANGED <<blockIds, prompt, entries>>
        /\ \A s \in W : stage[s] \in {"fill", "solofill"} /\ stage'[s] \in {"put", "held"}
        /\ \A s \in Sessions \ W : stage'[s] = stage[s]
  <2>1. CASE PrefillWrite
    <3>1. At("fill") \in SUBSET Sessions
      BY DEF At
    <3> QED BY <2>1, <3>1 DEF PrefillWrite, At
  <2>2. CASE SoloWrite
    <3>1. At("solofill") \in SUBSET Sessions
      BY DEF At
    <3> QED BY <2>2, <3>1 DEF SoloWrite, At
  <2> QED BY <2>1, <2>2
<1>2. ASSUME NEW s \in W
      PROVE  /\ stage[s] \in Ahead /\ prompt[s] \in Seq(Tokens) /\ Len(prompt[s]) = Pending(s)
             /\ stage'[s] \notin Ahead \cup {"lost"} /\ TextFits(s)'
  <2>1. stage[s] \in {"fill", "solofill"} /\ stage'[s] \in {"put", "held"} /\ s \in Sessions
    BY <1>1
  <2>2. prompt[s] \in Seq(Tokens) /\ text[s] = <<>>
    BY <2>1, PromptLeft
  <2>3. text'[s] = text[s] \o prompt[s]
    BY <1>1 DEF WriteTokens
  <2>4. text'[s] = prompt'[s]
    BY <1>1, <2>2, <2>3
  <2> QED BY <2>1, <2>2, <2>4 DEF TextFits, Ahead, Pending
<1> QED BY <1>1, <1>2, WriteContent

LEMMA DecodeContent ==
  ASSUME IInv, Content, DecodeWrite PROVE Content' /\ SlotsKept
<1> DEFINE W == At("append")
<1>1. PICK ts \in [W -> Tokens] : WriteTokens(W, [s \in W |-> <<ts[s]>>])
  BY DEF DecodeWrite
<1> DEFINE xs == [s \in W |-> <<ts[s]>>]
<1>2. /\ W \in SUBSET Sessions /\ WriteTokens(W, xs) /\ UNCHANGED <<blockIds, prompt, entries>>
      /\ \A s \in W : stage[s] = "append" /\ stage'[s] = "emit"
      /\ \A s \in Sessions \ W : stage'[s] = stage[s]
  BY <1>1 DEF DecodeWrite, At
<1>3. \A s \in W : xs[s] \in Seq(Tokens) /\ Len(xs[s]) = 1
  OBVIOUS
<1> HIDE DEF xs, W
<1>4. \A s \in W : /\ stage[s] \in Ahead /\ Len(xs[s]) = Pending(s)
                   /\ stage'[s] \notin Ahead \cup {"lost"} /\ TextFits(s)'
  BY <1>2, <1>3 DEF TextFits, Ahead, Pending
<1> QED BY <1>2, <1>3, <1>4, WriteContent

\* A write of the next tokens of a prompt: it is through with these, or goes on.
LEMMA IngestContent ==
  ASSUME IInv, Content, NEW W \in SUBSET Sessions, NEW xs, WriteTokens(W, xs),
         UNCHANGED <<blockIds, prompt, entries>>,
         \A s \in Sessions \ W : stage'[s] = stage[s],
         \A s \in W : stage[s] \in {"splice", "chunkfill"} /\ Len(xs[s]) = Pending(s),
         \A s \in W : \E n \in (Len(text[s]) + 1)..Len(prompt[s]) :
           /\ xs[s] = SubSeq(prompt[s], Len(text[s]) + 1, n)
           /\ IF n = Len(prompt[s]) THEN stage'[s] \in {"put", "sufput"}
                                    ELSE stage'[s] \in {"suffix", "queued"}
  PROVE  Content' /\ SlotsKept
<1>1. ASSUME NEW s \in W
      PROVE  /\ stage[s] \in Ahead /\ xs[s] \in Seq(Tokens)
             /\ stage'[s] \notin Ahead \cup {"lost"} /\ TextFits(s)'
  <2>1. /\ prompt[s] \in Seq(Tokens) /\ Len(text[s]) \in Nat /\ Len(prompt[s]) \in Nat
        /\ Len(text[s]) < Len(prompt[s]) /\ text[s] = SubSeq(prompt[s], 1, Len(text[s]))
    BY PromptLeft
  <2>2. PICK n \in (Len(text[s]) + 1)..Len(prompt[s]) :
          /\ xs[s] = SubSeq(prompt[s], Len(text[s]) + 1, n)
          /\ IF n = Len(prompt[s]) THEN stage'[s] \in {"put", "sufput"}
                                   ELSE stage'[s] \in {"suffix", "queued"}
    OBVIOUS
  <2>3. PICK m \in Nat : m = Len(text[s])
    BY <2>1
  <2>4. m \in 0..Len(prompt[s]) /\ n \in m..Len(prompt[s]) /\ n \in 0..Len(prompt[s])
    BY <2>1, <2>2, <2>3
  <2>5. SubSeq(prompt[s], 1, m) \o SubSeq(prompt[s], m + 1, n) = SubSeq(prompt[s], 1, n)
    BY ONLY <2>1, <2>4, PrefixGrows
  <2>6. SubSeq(prompt[s], m + 1, n) \in Seq(Tokens) /\ SubSeq(prompt[s], 1, Len(prompt[s])) = prompt[s]
    BY ONLY <2>1, <2>4, PrefixGrows
  <2>7. text'[s] = SubSeq(prompt[s], 1, n) /\ prompt'[s] = prompt[s]
    <3>1. text'[s] = text[s] \o xs[s]
      BY DEF WriteTokens
    <3> QED BY <2>1, <2>2, <2>3, <2>5, <3>1
  <2>8. Len(SubSeq(prompt[s], 1, n)) = n
    BY ONLY <2>1, <2>4
  <2>9. TextFits(s)'
    <3>1. CASE n = Len(prompt[s])
      BY <2>2, <2>6, <2>7, <3>1 DEF TextFits
    <3>2. CASE n # Len(prompt[s])
      <4>1. Len(text'[s]) = n /\ n < Len(prompt'[s]) /\ text'[s] = SubSeq(prompt'[s], 1, n)
        BY <2>1, <2>4, <2>7, <2>8, <3>2
      <4> QED BY <2>2, <3>2, <4>1 DEF TextFits
    <3> QED BY <3>1, <3>2
  <2> QED BY <2>2, <2>3, <2>6, <2>9 DEF Ahead
<1> QED BY <1>1, WriteContent

LEMMA SuffixContent ==
  ASSUME IInv, Content, SuffixWrite PROVE Content' /\ SlotsKept
<1> DEFINE W == At("splice")
           xs == [s \in W |-> <<SuffixToken(s)>>]
<1>1. /\ W \in SUBSET Sessions /\ WriteTokens(W, xs) /\ UNCHANGED <<blockIds, prompt, entries>>
      /\ \A s \in Sessions \ W : stage'[s] = stage[s]
      /\ \A s \in W : /\ stage[s] = "splice" /\ Len(xs[s]) = 1
                      /\ stage'[s] = IF Len(text[s]) + 1 = Len(prompt[s]) THEN "sufput"
                                                                           ELSE "suffix"
  BY DEF SuffixWrite, At
<1>2. ASSUME NEW s \in W
      PROVE  /\ Len(text[s]) + 1 \in (Len(text[s]) + 1)..Len(prompt[s])
             /\ xs[s] = SubSeq(prompt[s], Len(text[s]) + 1, Len(text[s]) + 1)
  <2>1. /\ prompt[s] \in Seq(Tokens) /\ Len(text[s]) \in Nat /\ Len(prompt[s]) \in Nat
        /\ Len(text[s]) < Len(prompt[s])
    BY <1>1, PromptLeft
  <2>2. xs[s] = <<prompt[s][Len(text[s]) + 1]>>
    BY DEF SuffixToken
  <2>3. SubSeq(prompt[s], Len(text[s]) + 1, Len(text[s]) + 1) = <<prompt[s][Len(text[s]) + 1]>>
    <3>1. Len(text[s]) + 1 \in 1..Len(prompt[s])
      BY <2>1
    <3> QED BY ONLY <2>1, <3>1, OneToken
  <2> QED BY <2>1, <2>2, <2>3
<1> HIDE DEF W, xs
<1>3. \A s \in W : stage[s] \in {"splice", "chunkfill"} /\ Len(xs[s]) = Pending(s)
  BY <1>1 DEF Pending
<1>4. \A s \in W : \E n \in (Len(text[s]) + 1)..Len(prompt[s]) :
        /\ xs[s] = SubSeq(prompt[s], Len(text[s]) + 1, n)
        /\ IF n = Len(prompt[s]) THEN stage'[s] \in {"put", "sufput"}
                                 ELSE stage'[s] \in {"suffix", "queued"}
  BY <1>1, <1>2
<1> QED BY <1>1, <1>3, <1>4, IngestContent

LEMMA ChunkContent ==
  ASSUME IInv, Content, ChunkWrite PROVE Content' /\ SlotsKept
<1> DEFINE W == At("chunkfill")
           xs == [s \in W |-> Chunk(s)]
<1>1. /\ W \in SUBSET Sessions /\ WriteTokens(W, xs) /\ UNCHANGED <<blockIds, prompt, entries>>
      /\ \A s \in Sessions \ W : stage'[s] = stage[s]
      /\ \A s \in W : /\ stage[s] = "chunkfill" /\ xs[s] = Chunk(s)
                      /\ stage'[s] = IF Len(text[s]) + Len(Chunk(s)) = Len(prompt[s])
                                       THEN "put" ELSE "queued"
  BY DEF ChunkWrite, At
<1>2. ASSUME NEW s \in W
      PROVE  \E n \in (Len(text[s]) + 1)..Len(prompt[s]) :
               /\ Chunk(s) = SubSeq(prompt[s], Len(text[s]) + 1, n)
               /\ Len(text[s]) + Len(Chunk(s)) = n
  <2>1. /\ prompt[s] \in Seq(Tokens) /\ Len(text[s]) \in Nat /\ Len(prompt[s]) \in Nat
        /\ Len(text[s]) < Len(prompt[s])
    BY <1>1, PromptLeft
  <2>2. PICK m \in Nat : m = Len(text[s])
    BY <2>1
  <2>3. PICK n \in (m + 1)..Len(prompt[s]) :
          n = IF m + ChunkSize < Len(prompt[s]) THEN m + ChunkSize ELSE Len(prompt[s])
    BY <2>1, <2>2, ConstantsAssumption
  <2>4. Chunk(s) = SubSeq(prompt[s], m + 1, n)
    BY <2>2, <2>3 DEF Chunk
  <2>5. m \in 0..Len(prompt[s]) /\ n \in m..Len(prompt[s])
    BY <2>1, <2>2, <2>3
  <2>6. Len(SubSeq(prompt[s], m + 1, n)) = n - m
    BY ONLY <2>1, <2>5, PrefixGrows
  <2>7. Len(Chunk(s)) = n - m /\ m + (n - m) = n
    BY <2>1, <2>4, <2>5, <2>6
  <2> QED BY <2>2, <2>4, <2>7
<1> HIDE DEF W, xs
<1>3. \A s \in W : stage[s] \in {"splice", "chunkfill"} /\ Len(xs[s]) = Pending(s)
  BY <1>1 DEF Pending
<1>4. ASSUME NEW s \in W
      PROVE \E n \in (Len(text[s]) + 1)..Len(prompt[s]) :
              /\ xs[s] = SubSeq(prompt[s], Len(text[s]) + 1, n)
              /\ IF n = Len(prompt[s]) THEN stage'[s] \in {"put", "sufput"}
                                       ELSE stage'[s] \in {"suffix", "queued"}
  <2>1. PICK n \in (Len(text[s]) + 1)..Len(prompt[s]) :
               /\ Chunk(s) = SubSeq(prompt[s], Len(text[s]) + 1, n)
               /\ Len(text[s]) + Len(Chunk(s)) = n
    BY <1>2
  <2>2. Len(text[s]) \in Nat /\ Len(prompt[s]) \in Nat
    BY <1>1, PromptLeft
  <2> QED BY <1>1, <2>1, <2>2
<1> QED BY <1>1, <1>3, <1>4, IngestContent

-----------------------------------------------------------------------------
\* Every step keeps the invariant.
LEMMA NextContent ==
  ASSUME IInv, IInv', Content, OneDict, [Next]_vars PROVE Content'
<1>1. CASE UNCHANGED vars
  <2>1. UNCHANGED <<store, blockIds, text, entries>> /\ UNCHANGED <<stage, prompt>>
    BY <1>1 DEF vars
  <2> QED BY <2>1, MovesContent DEF IInv
<1>2. CASE \E S \in SUBSET Sessions : AddRequests(S) \/ StartStep(S) \/ StartChunks(S)
  BY <1>2, StageMoveContent
<1>3. CASE InCall
  <2>1. ASSUME NEW s \in Sessions,
               \/ LookupDup(s) \/ LookupMiss(s) \/ LookupOffline(s) \/ OutOfBlocks(s)
               \/ Continue(s) \/ FinishOffline(s)
        PROVE  Content'
    BY <2>1, StageMoveContent
  <2>2. ASSUME NEW s \in Sessions, LookupHit(s) \/ LookupPrefix(s) \/ LookupChunked(s)
        PROVE  Content'
    BY <2>2, LookupContent
  <2>3. ASSUME NEW s \in Sessions, Finish(s) \/ GenerateRaises(s) PROVE Content'
    BY <2>3, FinishContent
  <2>4. ASSUME NEW s \in Sessions, Reserve(s) \/ PutPrompt(s) \/ CopyDup(s) PROVE Content'
    BY <2>4, ReserveContent, PutPromptContent, CopyDupContent
  <2>5. ASSUME PrefillWrite \/ SuffixWrite \/ DecodeWrite \/ ChunkWrite \/ SoloWrite
        PROVE  Content'
    BY <2>5, PrefillContent, SuffixContent, DecodeContent, ChunkContent
  <2> QED BY <1>3, <2>1, <2>2, <2>3, <2>4, <2>5 DEF InCall
<1>4. ASSUME NEW s \in Sessions, Discard(s) \/ Generate(s) \/ GenerateEnds(s) PROVE Content'
  BY <1>4, FinishContent, StageMoveContent
<1>5. CASE RunEnds
  BY <1>5, StageMoveContent
<1>6. CASE ClearCache
  BY <1>6, ClearCacheContent
<1> QED BY <1>1, <1>2, <1>3, <1>4, <1>5, <1>6 DEF Next

-----------------------------------------------------------------------------
(***************************************************************************)
(* The key order of the prefix cache.                                      *)
(***************************************************************************)
LEMMA Slice ==
  ASSUME NEW S, NEW x \in Seq(S), NEW n \in Nat, n = Len(x), NEW i \in 1..n
  PROVE  /\ SubSeq(x, 1, i - 1) \in Seq(S) /\ Len(SubSeq(x, 1, i - 1)) = i - 1
         /\ \A j \in 1..(i - 1) : SubSeq(x, 1, i - 1)[j] = x[j]
         /\ SubSeq(x, i + 1, n) \in Seq(S) /\ Len(SubSeq(x, i + 1, n)) = n - i
         /\ \A j \in 1..(n - i) : SubSeq(x, i + 1, n)[j] = x[i + j]
OBVIOUS

\* Moving a key to the end of an order permutes it.
LEMMA MovedToEnd ==
  ASSUME NEW S, NEW x \in Seq(S), IsInjective(x), NEW i \in 1..Len(x),
         NEW y, y = Append(RemoveAt(x, i), x[i])
  PROVE  /\ Len(y) = Len(x) /\ IsInjective(y) /\ Range(y) = Range(x)
<1>0. PICK n \in Nat : n = Len(x) /\ i \in 1..n /\ DOMAIN x = 1..n
  OBVIOUS
<1>1. /\ y \in Seq(S) /\ Len(y) = n
      /\ \A j \in 1..n : y[j] = IF j < i THEN x[j] ELSE IF j < n THEN x[j + 1] ELSE x[i]
  <2> DEFINE u == SubSeq(x, 1, i - 1)
             v == SubSeq(x, i + 1, n)
  <2>1. u \in Seq(S) /\ Len(u) = i - 1 /\ \A j \in 1..(i - 1) : u[j] = x[j]
    BY ONLY <1>0, x \in Seq(S), Slice
  <2>2. v \in Seq(S) /\ Len(v) = n - i /\ \A j \in 1..(n - i) : v[j] = x[i + j]
    BY ONLY <1>0, x \in Seq(S), Slice
  <2>7. RemoveAt(x, i) = u \o v
    BY <1>0 DEF RemoveAt
  <2> HIDE DEF u, v
  <2>3. PICK w \in Seq(S) : w = u \o v /\ Len(w) = n - 1
                            /\ \A j \in 1..(n - 1) : w[j] = IF j < i THEN u[j] ELSE v[j - (i - 1)]
    <3>1. /\ u \o v \in Seq(S) /\ Len(u \o v) = Len(u) + Len(v)
          /\ \A j \in 1..(Len(u) + Len(v)) :
                (u \o v)[j] = IF j <= Len(u) THEN u[j] ELSE v[j - Len(u)]
      BY ONLY JoinFacts, <2>1, <2>2
    <3>2. PICK w \in Seq(S) : w = u \o v
      BY <3>1
    <3>3. Len(u) + Len(v) = n - 1
      BY ONLY <1>0, <2>1, <2>2
    <3>4. ASSUME NEW j \in 1..(n - 1) PROVE w[j] = IF j < i THEN u[j] ELSE v[j - (i - 1)]
      BY <1>0, <2>1, <3>1, <3>2, <3>3
    <3> QED BY <3>1, <3>2, <3>3, <3>4
  <2>4. y = Append(w, x[i]) /\ x[i] \in S
    BY <1>0, <2>7, <2>3
  <2>5. y \in Seq(S) /\ Len(y) = n /\ y[n] = x[i] /\ \A j \in 1..(n - 1) : y[j] = w[j]
    <3>1. Append(w, x[i]) \in Seq(S) /\ Len(Append(w, x[i])) = Len(w) + 1
      BY ONLY <2>4, w \in Seq(S)
    <3>2. /\ Append(w, x[i])[Len(w) + 1] = x[i]
          /\ \A j \in 1..Len(w) : Append(w, x[i])[j] = w[j]
      BY ONLY <2>4, w \in Seq(S)
    <3>3. Len(w) = n - 1 /\ Len(w) + 1 = n
      BY <1>0, <2>3
    <3> QED BY <2>4, <3>1, <3>2, <3>3
  <2>6. ASSUME NEW j \in 1..n
        PROVE  y[j] = IF j < i THEN x[j] ELSE IF j < n THEN x[j + 1] ELSE x[i]
    <3>1. ASSUME j = n PROVE (y[j] = IF j < i THEN x[j] ELSE IF j < n THEN x[j + 1] ELSE x[i])
      <4>1. ~(j < i) /\ ~(j < n)
        BY <1>0, <3>1
      <4> QED BY <2>5, <3>1, <4>1
    <3>2. CASE j # n /\ j < i
      <4>1. j \in 1..(n - 1) /\ j \in 1..(i - 1)
        BY <1>0, <3>2
      <4> QED BY <2>1, <2>3, <2>5, <3>2, <4>1
    <3>3. CASE j # n /\ ~(j < i)
      <4>1. j \in 1..(n - 1) /\ j - (i - 1) \in 1..(n - i) /\ i + (j - (i - 1)) = j + 1 /\ j < n
        BY <1>0, <3>3
      <4> QED BY <2>2, <2>3, <2>5, <3>3, <4>1
    <3> QED BY <3>1, <3>2, <3>3
  <2> QED BY <2>5, <2>6
<1>2. DOMAIN y = 1..n
  BY <1>1
<1>3. \A a, b \in 1..n : x[a] = x[b] => a = b
  BY <1>0 DEF IsInjective
<1> DEFINE at(j) == IF j < i THEN j ELSE IF j < n THEN j + 1 ELSE i
<1>4. \A a \in 1..n : at(a) \in 1..n /\ y[a] = x[at(a)]
  BY <1>0, <1>1
<1>5. \A a, b \in 1..n : at(a) = at(b) => a = b
  BY <1>0
<1>6. ASSUME NEW b \in 1..n PROVE \E a \in 1..n : at(a) = b
  <2>1. CASE b < i
    BY <2>1
  <2>2. CASE b = i
    <3>1. n \in 1..n /\ at(n) = b
      BY <1>0, <2>2
    <3> QED BY <3>1
  <2>3. CASE b > i
    <3>1. b - 1 \in 1..n /\ at(b - 1) = b
      BY <1>0, <2>3
    <3> QED BY <3>1
  <2> QED BY <1>0, <2>1, <2>2, <2>3
<1> HIDE DEF at
<1>7. IsInjective(y)
  <2>1. ASSUME NEW a \in 1..n, NEW b \in 1..n, y[a] = y[b] PROVE a = b
    <3>1. at(a) \in 1..n /\ at(b) \in 1..n /\ x[at(a)] = x[at(b)]
      BY ONLY <1>4, <2>1
    <3>2. at(a) = at(b)
      BY ONLY <1>3, <3>1
    <3> QED BY ONLY <1>5, <2>1, <3>2
  <2> QED BY <1>2, <2>1 DEF IsInjective
<1>8. Range(y) = Range(x)
  <2>1. ASSUME NEW a \in 1..n PROVE y[a] \in Range(x)
    BY <1>0, <1>4 DEF Range
  <2>2. ASSUME NEW b \in 1..n PROVE x[b] \in Range(y)
    <3>1. PICK a \in 1..n : at(a) = b
      BY <1>6
    <3> QED BY <1>2, <1>4, <3>1 DEF Range
  <2>3. \A e : e \in Range(y) <=> \E a \in 1..n : e = y[a]
    BY <1>2 DEF Range
  <2>4. \A e : e \in Range(x) <=> \E a \in 1..n : e = x[a]
    BY <1>0 DEF Range
  <2> QED BY ONLY <2>1, <2>2, <2>3, <2>4
<1> QED BY <1>0, <1>1, <1>7, <1>8

\* So does a new key make it longer by one, and dropping the oldest shorter.
LEMMA AppendedKey ==
  ASSUME NEW S, NEW x \in Seq(S), IsInjective(x), NEW e \in S, e \notin Range(x)
  PROVE  /\ Len(Append(x, e)) = Len(x) + 1 /\ IsInjective(Append(x, e))
         /\ Range(Append(x, e)) = Range(x) \cup {e}
<1> DEFINE y == Append(x, e)
<1>1. /\ y \in Seq(S) /\ Len(y) = Len(x) + 1 /\ Len(x) \in Nat
      /\ DOMAIN y = 1..(Len(x) + 1) /\ DOMAIN x = 1..Len(x)
      /\ \A j \in 1..Len(x) : y[j] = x[j]
      /\ y[Len(x) + 1] = e
  OBVIOUS
<1> HIDE DEF y
<1>2. IsInjective(y)
  BY <1>1 DEF IsInjective, Range
<1>3. Range(y) = Range(x) \cup {e}
  <2>1. \A j \in 1..(Len(x) + 1) : j \in 1..Len(x) \/ j = Len(x) + 1
    BY <1>1
  <2>2. Len(x) + 1 \in 1..(Len(x) + 1) /\ 1..Len(x) \subseteq 1..(Len(x) + 1)
    BY <1>1
  <2> QED BY <1>1, <2>1, <2>2 DEF Range
<1> QED BY <1>1, <1>2, <1>3 DEF y

LEMMA TailKeys ==
  ASSUME NEW S, NEW x \in Seq(S), x # <<>>, IsInjective(x)
  PROVE  /\ Tail(x) \in Seq(S) /\ Len(Tail(x)) = Len(x) - 1 /\ Head(x) \in Range(x)
         /\ IsInjective(Tail(x)) /\ Range(Tail(x)) = Range(x) \ {Head(x)}
<1> DEFINE y == Tail(x)
<1>1. /\ y \in Seq(S) /\ Len(y) = Len(x) - 1 /\ Len(x) \in Nat \ {0}
      /\ DOMAIN y = 1..(Len(x) - 1) /\ DOMAIN x = 1..Len(x)
      /\ \A j \in 1..(Len(x) - 1) : y[j] = x[j + 1]
      /\ Head(x) = x[1]
  OBVIOUS
<1>2. \A a, b \in 1..Len(x) : x[a] = x[b] => a = b
  BY <1>1 DEF IsInjective
<1> HIDE DEF y
<1>3. IsInjective(y)
  <2>1. \A a, b \in 1..(Len(x) - 1) : a + 1 \in 1..Len(x) /\ (a + 1 = b + 1 => a = b)
    BY <1>1
  <2> QED BY <1>1, <1>2, <2>1 DEF IsInjective
<1>4. Range(y) = Range(x) \ {Head(x)}
  <2>1. \A a \in 1..(Len(x) - 1) : a + 1 \in 1..Len(x) /\ a + 1 # 1
    BY <1>1
  <2>2. \A a \in 1..Len(x) : a # 1 => a - 1 \in 1..(Len(x) - 1) /\ (a - 1) + 1 = a
    BY <1>1
  <2>3. 1 \in 1..Len(x)
    BY <1>1
  <2>4. ASSUME NEW e \in Range(y) PROVE e \in Range(x) /\ e # Head(x)
    BY <1>1, <1>2, <2>1, <2>3 DEF Range
  <2>5. ASSUME NEW e \in Range(x), e # Head(x) PROVE e \in Range(y)
    <3>1. PICK a \in 1..Len(x) : e = x[a]
      BY <1>1 DEF Range
    <3>2. a - 1 \in 1..(Len(x) - 1) /\ y[a - 1] = x[a]
      BY <1>1, <2>2, <2>5, <3>1
    <3> QED BY <1>1, <3>1, <3>2 DEF Range
  <2> QED BY <2>4, <2>5
<1>5. Head(x) \in Range(x)
  BY <1>1 DEF Range
<1> QED BY <1>1, <1>3, <1>4, <1>5 DEF y

LEMMA MoveToEndInStep ==
  ASSUME IInv, OneDict, NEW k \in Prompts, MoveToEnd(k), entries' = entries
  PROVE  OneDict'
<1>1. PICK i \in 1..Len(lru) : lru[i] = k /\ lru' = Append(RemoveAt(lru, i), lru[i])
  BY DEF MoveToEnd
<1>2. lru \in Seq(Prompts) /\ IsInjective(lru)
  BY DEF IInv, ListsTypeOK, OneDict
<1>3. Len(lru') = Len(lru) /\ IsInjective(lru') /\ Range(lru') = Range(lru)
  BY <1>1, <1>2, MovedToEnd
<1> QED BY <1>3 DEF OneDict, Cached

\* A prompt that is put into the cache has blocks: an entry is never an empty list.
LEMMA PutHasBlocks ==
  ASSUME IInv, Content, NEW s \in Sessions, stage[s] \in {"put", "sufput"}
  PROVE  blockIds[s] # <<>> /\ prompt[s] \in Prompts
<1>1. prompt[s] \in Prompts /\ prompt[s] \in Seq(Tokens) /\ Len(prompt[s]) \in Nat \ {0}
  <2>1. prompt[s] \in Prompts
    BY DEF IInv, StageInv, Prompted, Adding
  <2> QED BY <2>1, ConstantsAssumption
<1>2. text[s] = prompt[s]
  BY DEF Content, TextFits
<1>3. PICK n \in Nat : Covers(s, n)
  BY DEF Content
<1>4. n # 0 /\ Len(blockIds[s]) = NumBlocks(n)
  BY <1>1, <1>2, <1>3 DEF Covers, Paged
<1>5. NumBlocks(n) # 0
  <2>1. Base(0) + BlockSize = 0
    BY ConstantsAssumption DEF Base
  <2>2. n <= Base(NumBlocks(n)) + BlockSize
    BY PagesNeeded
  <2> QED BY <1>4, <2>1, <2>2
<1>6. Len(<<>>) = 0
  OBVIOUS
<1> QED BY <1>1, <1>4, <1>5, <1>6

\* PrefixCache.put: the oldest key goes when the bound is reached, then the new
\* one comes last.
LEMMA PutInStep ==
  ASSUME IInv, OneDict, NEW s \in Sessions, Put(s), blockIds[s] # <<>>, prompt[s] \in Prompts
  PROVE  OneDict'
<1>1. PICK k \in Prompts : k = prompt[s]
  OBVIOUS
<1>2. /\ lru \in Seq(Prompts) /\ IsInjective(lru) /\ Len(lru) \in Nat
      /\ entries \in [Prompts -> Seq(Blocks)]
      /\ MaxEntries > 0 => Len(lru) <= MaxEntries
      /\ Range(lru) = {j \in Prompts : entries[j] # <<>>}
  BY DEF IInv, ListsTypeOK, OneDict, Cached
<1>3. CASE Cached(k) /\ MoveToEnd(k) /\ entries' = entries
  BY <1>3, MoveToEndInStep
<1>4. CASE /\ ~Cached(k) /\ (MaxEntries = 0 \/ Len(lru) < MaxEntries)
           /\ entries' = [entries EXCEPT ![k] = blockIds[s]] /\ lru' = Append(lru, k)
  <2>1. k \notin Range(lru)
    BY <1>2, <1>4 DEF Cached
  <2>2. /\ Len(lru') = Len(lru) + 1 /\ IsInjective(lru') /\ Range(lru') = Range(lru) \cup {k}
    BY <1>2, <1>4, <2>1, AppendedKey
  <2>3. Range(lru') = {j \in Prompts : entries'[j] # <<>>}
    BY <1>2, <1>4, <2>2
  <2>4. MaxEntries > 0 => Len(lru') <= MaxEntries
    BY <1>2, <1>4, <2>2, ConstantsAssumption
  <2> QED BY <2>2, <2>3, <2>4 DEF OneDict, Cached
<1>5. CASE /\ ~Cached(k) /\ MaxEntries > 0 /\ Len(lru) >= MaxEntries
           /\ entries' = [entries EXCEPT ![Head(lru)] = <<>>, ![k] = blockIds[s]]
           /\ lru' = Append(Tail(lru), k)
  <2>1. lru # <<>>
    BY <1>2, <1>5, ConstantsAssumption
  <2>2. /\ Tail(lru) \in Seq(Prompts) /\ Len(Tail(lru)) = Len(lru) - 1
        /\ Head(lru) \in Range(lru) /\ IsInjective(Tail(lru))
        /\ Range(Tail(lru)) = Range(lru) \ {Head(lru)}
    BY <1>2, <2>1, TailKeys
  <2>3. k \notin Range(lru)
    BY <1>2, <1>5 DEF Cached
  <2>4. /\ Len(lru') = Len(lru) - 1 + 1 /\ IsInjective(lru')
        /\ Range(lru') = (Range(lru) \ {Head(lru)}) \cup {k}
    <3>1. PICK x \in Seq(Prompts) : x = Tail(lru)
      BY <2>2
    <3>2. IsInjective(x) /\ k \notin Range(x)
      BY <2>2, <2>3, <3>1
    <3>3. /\ Len(Append(x, k)) = Len(x) + 1 /\ IsInjective(Append(x, k))
          /\ Range(Append(x, k)) = Range(x) \cup {k}
      BY ONLY <3>2, x \in Seq(Prompts), k \in Prompts, AppendedKey
    <3> QED BY <1>5, <2>2, <3>1, <3>3
  <2>5. \A j \in Prompts : entries'[j] = IF j = k THEN blockIds[s]
                                         ELSE IF j = Head(lru) THEN <<>> ELSE entries[j]
    BY <1>2, <1>5
  <2>6. Range(lru') = {j \in Prompts : entries'[j] # <<>>}
    BY <1>2, <2>2, <2>3, <2>4, <2>5
  <2>7. MaxEntries > 0 => Len(lru') <= MaxEntries
    BY <1>2, <2>4
  <2> QED BY <2>4, <2>6, <2>7 DEF OneDict, Cached
<1> QED BY <1>1, <1>3, <1>4, <1>5 DEF Put

\* Every step keeps the order in step with the entries.
LEMMA NextInStep ==
  ASSUME IInv, Content, OneDict, [Next]_vars PROVE OneDict'
<1>0. UNCHANGED <<entries, lru>> => OneDict'
  BY DEF OneDict, Cached
<1>1. ASSUME NEW s \in Sessions, Attach(s, prompt[s]) \/ \E k \in Prompts : Attach(s, k),
             prompt[s] \in Prompts
      PROVE OneDict'
  BY <1>1, MoveToEndInStep DEF Attach
<1>2. ASSUME NEW s \in Sessions, LookupHit(s) \/ LookupPrefix(s) \/ LookupChunked(s)
      PROVE OneDict'
  <2>1. prompt[s] \in Prompts
    BY <1>2 DEF LookupHit, LookupPrefix, LookupChunked, IInv, StageInv, Prompted, Adding
  <2> QED BY <1>0, <1>1, <1>2, <2>1 DEF LookupHit, LookupPrefix, LookupChunked
<1>3. ASSUME NEW s \in Sessions, PutPrompt(s) PROVE OneDict'
  <2>1. stage[s] \in {"put", "sufput"} /\ Put(s)
    BY <1>3 DEF PutPrompt
  <2> QED BY <2>1, PutHasBlocks, PutInStep
<1>4. CASE ClearCache
  <2>1. lru' = <<>> /\ entries' = [k \in Prompts |-> <<>>] /\ Range(<<>>) = {}
    BY <1>4 DEF ClearCache, Range
  <2> QED BY <2>1, ConstantsAssumption DEF OneDict, Cached, IsInjective
<1>5. ASSUME NEW s \in Sessions,
             \/ LookupDup(s) \/ LookupMiss(s) \/ LookupOffline(s) \/ OutOfBlocks(s)
             \/ Continue(s) \/ FinishOffline(s) \/ Reserve(s) \/ CopyDup(s)
             \/ Finish(s) \/ GenerateRaises(s) \/ Discard(s) \/ Generate(s) \/ GenerateEnds(s)
      PROVE  OneDict'
  <2>1. UNCHANGED <<entries, lru>>
    BY <1>5 DEF LookupDup, LookupMiss, LookupOffline, OutOfBlocks, Continue, FinishOffline,
       Reserve, CopyDup, Finish, GenerateRaises, Discard, Generate, GenerateEnds, Release
  <2> QED BY <1>0, <2>1
<1>6. ASSUME \/ PrefillWrite \/ SuffixWrite \/ DecodeWrite \/ ChunkWrite \/ SoloWrite
             \/ \E S \in SUBSET Sessions : AddRequests(S) \/ StartStep(S) \/ StartChunks(S)
             \/ RunEnds \/ UNCHANGED vars
      PROVE  OneDict'
  <2>1. UNCHANGED <<entries, lru>>
    BY <1>6 DEF PrefillWrite, SuffixWrite, DecodeWrite, ChunkWrite, SoloWrite, AddRequests,
       StartStep, StartChunks, RunEnds, vars
  <2> QED BY <1>0, <2>1
<1> QED BY <1>2, <1>3, <1>4, <1>5, <1>6 DEF Next, InCall

LEMMA Invariant == Spec => [](IInv /\ Content /\ OneDict)
<1>1. Init => Content
  BY InitContent
<1>2. Init => OneDict
  <2> SUFFICES ASSUME Init PROVE OneDict
    OBVIOUS
  <2>1. lru = <<>> /\ entries = [k \in Prompts |-> <<>>] /\ Range(<<>>) = {}
    BY DEF Init, Range
  <2> QED BY <2>1, ConstantsAssumption DEF OneDict, Cached, IsInjective
<1>3. IInv /\ IInv' /\ Content /\ OneDict /\ [Next]_vars => Content'
  BY NextContent
<1>4. IInv /\ Content /\ OneDict /\ [Next]_vars => OneDict'
  BY NextInStep
<1> QED BY <1>1, <1>2, <1>3, <1>4, Invariance, PTL DEF Spec

\* Attention reads the K/V of the session's own tokens, position by position, and
\* a cached entry gives the K/V of its key: no sharing, copy on write, eviction
\* or reuse of blocks ever mixes two histories, for every pool size, block size,
\* session set and cache bound.
THEOREM ReadsOwnHistory == Spec => []Faithful
<1>1. IInv /\ Content => Faithful
  BY ContentFaithful DEF IInv
<1> QED BY <1>1, Invariant, PTL

-----------------------------------------------------------------------------
\* In a step a block keeps what its slots hold, unless it was free or becomes free.
BlockKept(b) == \/ b \in free \/ b \in free'
                \/ \A i \in 1..Len(store[b]) :
                     store[b][i] # Unwritten
                       => i <= Len(store'[b]) /\ store'[b][i] = store[b][i]

LEMMA SameBlockKept ==
  ASSUME ListsTypeOK, NEW b \in Blocks, store'[b] = store[b] PROVE BlockKept(b)
BY DEF ListsTypeOK, BlockKept

LEMMA StepKeepsBlocks ==
  ASSUME IInv, IInv', Content, [Next]_vars, NEW b \in Blocks
  PROVE  BlockKept(b)
<1>0. ListsTypeOK /\ (store' = store => BlockKept(b))
  BY SameBlockKept DEF IInv
<1>1. CASE UNCHANGED vars
  BY <1>0, <1>1 DEF vars
<1>2. ASSUME NEW s \in Sessions, Release(s) PROVE BlockKept(b)
  BY <1>0, <1>2, SameBlockKept DEF Release, FreeBlocks, BlockKept
<1>3. CASE InCall
  <2>1. ASSUME NEW s \in Sessions,
               \/ LookupDup(s) \/ LookupMiss(s) \/ LookupOffline(s) \/ OutOfBlocks(s)
               \/ Continue(s) \/ FinishOffline(s) \/ LookupHit(s) \/ LookupPrefix(s)
               \/ LookupChunked(s) \/ CopyDup(s)
        PROVE  BlockKept(b)
    BY <1>0, <2>1 DEF LookupDup, LookupMiss, LookupOffline, OutOfBlocks, Continue,
       FinishOffline, LookupHit, LookupPrefix, LookupChunked, Attach, CopyDup
  <2>2. ASSUME NEW s \in Sessions, Finish(s) \/ GenerateRaises(s) PROVE BlockKept(b)
    BY <1>2, <2>2 DEF Finish, GenerateRaises
  <2>3. ASSUME NEW s \in Sessions, Reserve(s) PROVE BlockKept(b)
    <3>1. \/ store'[b] = store[b]
          \/ b \in free
          \/ ~Shared(s, b) /\ Keeps(store[b], store'[b])
      <4>1. PICK n \in Nat : Covers(s, n)
        BY DEF Content
      <4>2. stage[s] \in {"miss", "suffix", "decode", "chunk", "solo"} /\ ReserveAppend(s, Amount(s))
        BY <2>3 DEF Reserve, CanReserve
      <4>3. Paged(store, blockIds[s], text[s], Len(text[s])) /\ Amount(s) \in Nat
        <5>1. Len(text[s]) \in Nat
          BY <1>0 DEF ListsTypeOK
        <5>2. n = Len(text[s])
          <6>1. Pending(s) = 0 /\ stage[s] # "lost"
            BY <4>2 DEF Pending
          <6>2. n = Len(text[s]) + 0
            BY <4>1, <6>1 DEF Covers
          <6> QED BY <5>1, <6>2
        <5> QED BY <4>1, <5>2, AmountNat DEF Covers
      <4> QED BY <4>2, <4>3, ReserveEffect
    <3>2. ASSUME Keeps(store[b], store'[b]) PROVE BlockKept(b)
      <4>1. store[b] \in Seq(Values) /\ store'[b] \in Seq(Values)
        BY DEF IInv, ListsTypeOK
      <4> QED BY <3>2, <4>1 DEF Keeps, BlockKept
    <3> QED BY <1>0, <3>1, <3>2, SameBlockKept DEF BlockKept
  <2>4. ASSUME NEW s \in Sessions, PutPrompt(s) PROVE BlockKept(b)
    BY <1>0, <2>4, SameBlockKept DEF PutPrompt, Put, FreeBlocks, BlockKept
  <2>5. ASSUME PrefillWrite \/ SuffixWrite \/ DecodeWrite \/ ChunkWrite \/ SoloWrite
        PROVE  BlockKept(b)
    <3>1. SlotsKept
      BY <2>5, PrefillContent, SuffixContent, DecodeContent, ChunkContent
    <3>2. Len(store[b]) \in Nat
      BY <1>0 DEF ListsTypeOK
    <3> QED BY <3>1, <3>2 DEF SlotsKept, BlockKept
  <2> QED BY <1>3, <2>1, <2>2, <2>3, <2>4, <2>5 DEF InCall
<1>4. CASE ClearCache
  BY <1>0, <1>4, SameBlockKept DEF ClearCache, BlockKept
<1>5. ASSUME \/ \E S \in SUBSET Sessions : AddRequests(S) \/ StartStep(S) \/ StartChunks(S)
             \/ \E s \in Sessions : Generate(s)
             \/ RunEnds
      PROVE  BlockKept(b)
  BY <1>0, <1>5 DEF AddRequests, StartStep, StartChunks, Generate, RunEnds
<1>6. ASSUME NEW s \in Sessions, Discard(s) \/ GenerateEnds(s) PROVE BlockKept(b)
  BY <1>2, <1>6 DEF Discard, GenerateEnds
<1> QED BY <1>1, <1>3, <1>4, <1>5, <1>6 DEF Next

\* A slot that was written is not written again as long as somebody counts on its
\* block: a step changes the K/V of a block only where it had none, or when the
\* block is free before or after the step.
THEOREM NeverOverwritten == Spec => WriteOnce
<1>1. IInv /\ IInv' /\ Content /\ [Next]_vars
        => [\A b \in Blocks : refcount[b] > 0 /\ refcount'[b] > 0 =>
              \A i \in 1..Len(store[b]) :
                store[b][i] # Unwritten
                  => i <= Len(store'[b]) /\ store'[b][i] = store[b][i]]_vars
  <2> SUFFICES ASSUME IInv, IInv', Content, [Next]_vars, NEW b \in Blocks,
                      refcount[b] > 0, refcount'[b] > 0
               PROVE  \A i \in 1..Len(store[b]) :
                        store[b][i] # Unwritten
                          => i <= Len(store'[b]) /\ store'[b][i] = store[b][i]
    OBVIOUS
  <2>1. b \notin free /\ b \notin free'
    <3>1. ~(0 > 0)
      OBVIOUS
    <3> QED BY <3>1 DEF IInv, FreeUncounted
  <2> QED BY <2>1, StepKeepsBlocks DEF BlockKept
<1> QED BY <1>1, Invariant, PTL DEF Spec, WriteOnce

-----------------------------------------------------------------------------
(***************************************************************************)
(* KVCache implements KVContract: blocks, counts, sharing and copy on      *)
(* write are invisible, each session seems to own its history. The         *)
(* refinement mapping reads a history back through the block list, as      *)
(* attention does; ReadsOwnHistory makes it a function of the text alone,  *)
(* so a step of KVCache is the step of KVContract that does the same to    *)
(* the text.                                                               *)
(***************************************************************************)

\* The refinement mapping of KVCache!Contract: what attention reads for a
\* session, and what attaching to an entry would give.
View == [s \in Sessions |-> Gather(blockIds[s], Len(text[s]))]
Kept == [k \in Prompts |-> IF Cached(k) THEN Gather(entries[k], Len(k)) ELSE <<>>]

\* KVContract states its operators anew; they mean the same.
LEMMA SameKV == \A x : Contract!KV(x) = KV(x)
BY DEF Contract!KV, KV

LEMMA SameHistory == ASSUME NEW v, v # <<>> => v = KV(Last(v)) PROVE Contract!IsHistory(v)
BY SameKV DEF Contract!IsHistory, Contract!Last, Last

LEMMA SamePrefix == ASSUME NEW x, NEW y, IsStrictPrefix(x, y) PROVE Contract!IsStrictPrefix(x, y)
BY DEF Contract!IsStrictPrefix, Contract!IsPrefix, IsStrictPrefix, IsPrefix

\* What makes a step of the mapped variables a step of KVContract.
LEMMA AbstractAttach ==
  ASSUME NEW s \in Sessions, NEW k \in Prompts, View[s] = <<>>, Kept[k] # <<>>,
         View' = [View EXCEPT ![s] = Kept[k]], Kept' = Kept
  PROVE  Contract!CNext
BY DEF View, Kept, Contract!CNext, Contract!Attach

LEMMA AbstractCopy ==
  ASSUME NEW s \in Sessions, NEW r \in Sessions, View[s] = <<>>, View[r] # <<>>,
         View' = [View EXCEPT ![s] = View[r]], Kept' = Kept
  PROVE  Contract!CNext
BY DEF View, Kept, Contract!CNext, Contract!Copy

LEMMA AbstractDrop ==
  ASSUME NEW s \in Sessions, View' = [View EXCEPT ![s] = <<>>], Kept' = Kept
  PROVE  Contract!CNext
BY DEF View, Kept, Contract!CNext, Contract!Drop

LEMMA AbstractDropKept ==
  ASSUME Kept' = [k \in Prompts |-> <<>>], View' = View
  PROVE  Contract!CNext
BY DEF View, Kept, Contract!CNext, Contract!DropKept

LEMMA AbstractKeep ==
  ASSUME NEW s \in Sessions, NEW k \in Prompts, View[s] = KV(k), Kept[k] = <<>>,
         NEW out, out = {} \/ \E j \in Prompts \ {k} : out = {j},
         Kept' = [j \in Prompts |-> IF j = k THEN View[s] ELSE IF j \in out THEN <<>> ELSE Kept[j]],
         View' = View
  PROVE  Contract!CNext
<1>1. Kept' \in {[j \in Prompts |-> IF j = k THEN View[s]
                                    ELSE IF j \in o THEN <<>> ELSE Kept[j]] :
                     o \in {{}} \cup {{j} : j \in Prompts \ {k}}}
  <2>1. out \in {{}} \cup {{j} : j \in Prompts \ {k}}
    OBVIOUS
  <2> QED BY <2>1
<1>2. View[s] = Contract!KV(k)
  BY SameKV
<1>3. Contract!Keep(s, k)
  BY <1>1, <1>2 DEF View, Kept, Contract!Keep
<1> QED BY <1>3 DEF Contract!CNext

LEMMA AbstractCompute ==
  ASSUME Kept' = Kept,
         \A s \in Sessions : View'[s] # View[s] =>
            /\ View'[s] # <<>> => View'[s] = KV(Last(View'[s]))
            /\ IsStrictPrefix(View[s], View'[s])
  PROVE  Contract!CNext
<1>1. ASSUME NEW s \in Sessions, View'[s] # View[s]
      PROVE  Contract!IsHistory(View'[s]) /\ Contract!IsStrictPrefix(View[s], View'[s])
  <2>1. PICK v : v = View'[s]
    OBVIOUS
  <2>2. v # <<>> => v = KV(Last(v))
    BY <1>1, <2>1
  <2>3. Contract!IsHistory(v)
    BY <2>2, SameHistory
  <2>4. PICK u : u = View[s]
    OBVIOUS
  <2>5. Contract!IsStrictPrefix(u, v)
    BY <1>1, <2>1, <2>4, SamePrefix
  <2> QED BY <2>1, <2>3, <2>4, <2>5
<1>2. \A s \in Sessions : View'[s] # View[s] =>
        Contract!IsHistory(View'[s]) /\ Contract!IsStrictPrefix(View[s], View'[s])
  BY <1>1
<1>3. Contract!Compute
  BY <1>2, Zenon DEF View, Kept, Contract!Compute
<1> QED BY <1>3 DEF Contract!CNext

LEMMA AbstractStutter ==
  ASSUME Kept' = Kept, View' = View
  PROVE  UNCHANGED Contract!cvars
BY DEF View, Kept, Contract!cvars

-----------------------------------------------------------------------------
\* The K/V of a token sequence.
LEMMA HistoryEmpty == KV(<<>>) = <<>>
BY DEF KV

LEMMA HistoryFacts ==
  ASSUME NEW x \in Seq(Tokens), x # <<>>
  PROVE  KV(x) # <<>> /\ Last(KV(x)) = x
<1>1. KV(x) \in Seq(Values) /\ Len(KV(x)) = Len(x) /\ Len(x) \in Nat \ {0}
  BY DEF KV, Values
<1>2. SubSeq(x, 1, Len(x)) = x
  OBVIOUS
<1>3. KV(x)[Len(x)] = x
  BY <1>1, <1>2 DEF KV
<1> QED BY <1>1, <1>3 DEF Last

LEMMA HistoryGrows ==
  ASSUME NEW x \in Seq(Tokens), NEW y \in Seq(Tokens), KV(x \o y) # KV(x)
  PROVE  IsStrictPrefix(KV(x), KV(x \o y))
<1>1. PICK z \in Seq(Tokens) : z = x \o y
  BY JoinFacts
<1>2. Len(x) \in Nat /\ Len(z) \in Nat /\ Len(x) <= Len(z)
  BY <1>1
<1>3. \A i \in 1..Len(x) : SubSeq(z, 1, i) = SubSeq(x, 1, i)
  BY <1>1, PrefixOfConcat
<1>4. /\ KV(x) \in Seq(Values) /\ Len(KV(x)) = Len(x)
      /\ KV(z) \in Seq(Values) /\ Len(KV(z)) = Len(z)
  BY <1>2 DEF KV, Values
<1>5. \A i \in 1..Len(x) : KV(z)[i] = KV(x)[i]
  BY <1>2, <1>3 DEF KV
<1>6. SubSeq(KV(x), 1, Len(KV(x))) = SubSeq(KV(z), 1, Len(KV(x)))
  BY <1>2, <1>4, <1>5
<1> QED BY <1>1, <1>2, <1>4, <1>6 DEF IsStrictPrefix, IsPrefix

\* In a faithful state the mapping does not depend on the blocks.
Abstraction == /\ View = [s \in Sessions |-> KV(text[s])]
               /\ Kept = [k \in Prompts |-> IF Cached(k) THEN KV(k) ELSE <<>>]

LEMMA FaithfulAbstraction == Faithful => Abstraction
BY DEF Faithful, Abstraction, View, Kept

LEMMA NextAbstraction == Faithful' => Abstraction'
BY FaithfulAbstraction, PTL

LEMMA AbstractView ==
  ASSUME Abstraction, Abstraction'
  PROVE  /\ View' = [s \in Sessions |-> KV(text'[s])]
         /\ Kept' = [k \in Prompts |-> IF entries'[k] # <<>> THEN KV(k) ELSE <<>>]
         /\ \A s \in Sessions : View[s] = KV(text[s]) /\ View'[s] = KV(text'[s])
         /\ \A k \in Prompts : /\ Kept[k] = IF Cached(k) THEN KV(k) ELSE <<>>
                               /\ Kept'[k] = IF entries'[k] # <<>> THEN KV(k) ELSE <<>>
         /\ entries' = entries => Kept' = Kept
         /\ text' = text => View' = View
BY DEF Abstraction, Cached

\* A forward pass adds tokens to the texts of some sessions.
LEMMA WritesGrow ==
  ASSUME IInv, Content, PrefillWrite \/ SuffixWrite \/ DecodeWrite \/ ChunkWrite \/ SoloWrite
  PROVE  /\ entries' = entries
         /\ \A s \in Sessions : \E y \in Seq(Tokens) : text'[s] = text[s] \o y
<1>1. PICK W \in SUBSET Sessions :
        \E xs : WriteTokens(W, xs) /\ \A s \in W : xs[s] \in Seq(Tokens)
  <2>1. CASE PrefillWrite
    <3>1. At("fill") \in SUBSET Sessions /\ \A s \in At("fill") : prompt[s] \in Seq(Tokens)
      BY PromptLeft DEF At
    <3> QED BY <2>1, <3>1 DEF PrefillWrite
  <2>2. CASE SoloWrite
    <3>1. At("solofill") \in SUBSET Sessions /\ \A s \in At("solofill") : prompt[s] \in Seq(Tokens)
      BY PromptLeft DEF At
    <3> QED BY <2>2, <3>1 DEF SoloWrite
  <2>3. CASE SuffixWrite
    <3> DEFINE xs == [s \in At("splice") |-> <<SuffixToken(s)>>]
    <3>1. At("splice") \in SUBSET Sessions /\ WriteTokens(At("splice"), xs)
      BY <2>3 DEF At, SuffixWrite
    <3>2. ASSUME NEW s \in At("splice") PROVE xs[s] \in Seq(Tokens)
      <4>1. /\ prompt[s] \in Seq(Tokens) /\ Len(text[s]) \in Nat /\ Len(prompt[s]) \in Nat
            /\ Len(text[s]) < Len(prompt[s])
        BY PromptLeft DEF At
      <4>2. prompt[s][Len(text[s]) + 1] \in Tokens
        BY <4>1
      <4> QED BY <4>2 DEF SuffixToken
    <3> HIDE DEF xs
    <3> QED BY <3>1, <3>2
  <2>4. CASE DecodeWrite
    <3>1. PICK ts \in [At("append") -> Tokens] :
            WriteTokens(At("append"), [s \in At("append") |-> <<ts[s]>>])
      BY <2>4 DEF DecodeWrite
    <3> DEFINE xs == [s \in At("append") |-> <<ts[s]>>]
    <3>2. At("append") \in SUBSET Sessions /\ WriteTokens(At("append"), xs)
          /\ \A s \in At("append") : xs[s] \in Seq(Tokens)
      BY <3>1 DEF At
    <3> HIDE DEF xs
    <3> QED BY <3>2
  <2>5. CASE ChunkWrite
    <3> DEFINE xs == [s \in At("chunkfill") |-> Chunk(s)]
    <3>1. At("chunkfill") \in SUBSET Sessions /\ WriteTokens(At("chunkfill"), xs)
      BY <2>5 DEF At, ChunkWrite
    <3>2. ASSUME NEW s \in At("chunkfill") PROVE xs[s] \in Seq(Tokens)
      BY PromptLeft, ChunkType DEF At, IInv, ListsTypeOK
    <3> HIDE DEF xs
    <3> QED BY <3>1, <3>2
  <2> QED BY <2>1, <2>2, <2>3, <2>4, <2>5
<1>2. PICK xs : WriteTokens(W, xs) /\ \A s \in W : xs[s] \in Seq(Tokens)
  BY <1>1
<1>3. entries' = entries
  BY DEF PrefillWrite, SuffixWrite, DecodeWrite, ChunkWrite, SoloWrite
<1>4. ASSUME NEW s \in Sessions PROVE \E y \in Seq(Tokens) : text'[s] = text[s] \o y
  <2>1. CASE s \in W
    BY <1>2, <2>1 DEF WriteTokens
  <2>2. CASE s \notin W
    <3>1. text'[s] = text[s] /\ text[s] \in Seq(Tokens)
      BY <1>2, <2>2 DEF WriteTokens, IInv, ListsTypeOK
    <3>2. text[s] \o <<>> = text[s] /\ <<>> \in Seq(Tokens)
      BY <3>1
    <3> QED BY <3>1, <3>2
  <2> QED BY <2>1, <2>2
<1> QED BY <1>3, <1>4

\* The actions, one by one.
LEMMA AttachImplements ==
  ASSUME IInv, Content, Abstraction, Abstraction', NEW s \in Sessions, stage[s] = "new",
         NEW k \in Prompts, Cached(k), Attach(s, k)
  PROVE  Contract!CNext
<1>1. text[s] = <<>>
  BY DEF Content, TextFits
<1>2. View[s] = <<>>
  BY <1>1, AbstractView, HistoryEmpty
<1>3. Kept[k] = KV(k) /\ KV(k) # <<>>
  <2>1. k \in Seq(Tokens) /\ k # <<>>
    BY ConstantsAssumption
  <2> QED BY <2>1, AbstractView, HistoryFacts
<1>4. /\ entries' = entries
      /\ \A r \in Sessions : text'[r] = IF r = s THEN k ELSE text[r]
  BY DEF Attach, IInv, ListsTypeOK
<1>5. View' = [View EXCEPT ![s] = Kept[k]]
  BY <1>3, <1>4 DEF Abstraction
<1>6. Kept' = Kept
  BY <1>4, AbstractView
<1> QED BY <1>2, <1>3, <1>5, <1>6, AbstractAttach

LEMMA CopyImplements ==
  ASSUME IInv, Content, Abstraction, Abstraction', NEW s \in Sessions, CopyDup(s)
  PROVE  Contract!CNext
<1>1. PICK r \in Sessions : stage[r] = "ready" /\ text' = [text EXCEPT ![s] = text[r]]
  BY DEF CopyDup, At
<1>2. text[s] = <<>> /\ text[r] = prompt[r] /\ prompt[r] \in Prompts
  BY <1>1 DEF CopyDup, Content, TextFits, IInv, StageInv, Prompted, Adding
<1>3. text[r] \in Seq(Tokens) /\ text[r] # <<>>
  BY <1>2, ConstantsAssumption
<1>4. View[s] = <<>> /\ View[r] = KV(text[r]) /\ View[r] # <<>>
  BY <1>2, <1>3, AbstractView, HistoryEmpty, HistoryFacts
<1>5. /\ entries' = entries
      /\ \A q \in Sessions : text'[q] = IF q = s THEN text[r] ELSE text[q]
  BY <1>1 DEF CopyDup, IInv, ListsTypeOK
<1>6. View' = [View EXCEPT ![s] = View[r]]
  BY <1>4, <1>5 DEF Abstraction
<1> QED BY <1>4, <1>5, <1>6, AbstractView, AbstractCopy

LEMMA ReleaseImplements ==
  ASSUME IInv, Abstraction, Abstraction', NEW s \in Sessions, Release(s)
  PROVE  Contract!CNext
<1>1. /\ entries' = entries
      /\ \A q \in Sessions : text'[q] = IF q = s THEN <<>> ELSE text[q]
  BY DEF Release, IInv, ListsTypeOK
<1>2. View' = [View EXCEPT ![s] = <<>>]
  BY <1>1, HistoryEmpty DEF Abstraction
<1> QED BY <1>1, <1>2, AbstractView, AbstractDrop

LEMMA PutImplements ==
  ASSUME IInv, Content, OneDict, Abstraction, Abstraction', NEW s \in Sessions,
         PutPrompt(s)
  PROVE  [Contract!CNext]_(Contract!cvars)
<1>1. /\ stage[s] \in {"put", "sufput"} /\ Put(s) /\ text' = text
  BY DEF PutPrompt
<1>2. PICK k \in Prompts : k = prompt[s]
  BY <1>1, PutHasBlocks
<1>3. text[s] = k /\ blockIds[s] # <<>>
  BY <1>1, <1>2, PutHasBlocks DEF Content, TextFits
<1>4. View' = View /\ View[s] = KV(k)
  BY <1>1, <1>3, AbstractView
<1>5. entries \in [Prompts -> Seq(Blocks)]
  BY DEF IInv, ListsTypeOK
<1>6. CASE entries' = entries
  <2>1. Kept' = Kept
    BY <1>6, AbstractView
  <2> QED BY <1>4, <2>1, AbstractStutter
<1>7. ASSUME ~Cached(k), NEW out, out = {} \/ \E j \in Prompts \ {k} : out = {j},
             \A j \in Prompts : entries'[j] = IF j = k THEN blockIds[s]
                                              ELSE IF j \in out THEN <<>> ELSE entries[j]
      PROVE  Contract!CNext
  <2>1. Kept[k] = <<>>
    BY <1>7, AbstractView
  <2>2. Kept' = [j \in Prompts |-> IF j = k THEN View[s] ELSE IF j \in out THEN <<>> ELSE Kept[j]]
    BY <1>3, <1>4, <1>7 DEF Abstraction, Cached
  <2> QED BY <1>4, <1>7, <2>1, <2>2, AbstractKeep
<1>8. CASE ~Cached(k) /\ entries' = [entries EXCEPT ![k] = blockIds[s]]
  <2>1. PICK out : out = {}
    OBVIOUS
  <2>2. \A j \in Prompts : entries'[j] = IF j = k THEN blockIds[s]
                                         ELSE IF j \in out THEN <<>> ELSE entries[j]
    BY <1>5, <1>8, <2>1
  <2> QED BY <1>7, <1>8, <2>1, <2>2
<1>9. CASE /\ ~Cached(k) /\ MaxEntries > 0 /\ Len(lru) >= MaxEntries
           /\ entries' = [entries EXCEPT ![Head(lru)] = <<>>, ![k] = blockIds[s]]
  <2>1. lru \in Seq(Prompts) /\ lru # <<>>
    BY <1>9, ConstantsAssumption DEF IInv, ListsTypeOK
  <2>2. Head(lru) \in Range(lru) /\ Range(lru) = {j \in Prompts : Cached(j)}
    BY <2>1, TailKeys DEF OneDict
  <2>3. Head(lru) \in Prompts \ {k}
    BY <1>9, <2>2
  <2>4. \A j \in Prompts : entries'[j] = IF j = k THEN blockIds[s]
                                         ELSE IF j \in {Head(lru)} THEN <<>> ELSE entries[j]
    BY <1>5, <1>9, <2>3
  <2> QED BY <1>7, <1>9, <2>3, <2>4
<1>10. \/ entries' = entries
       \/ ~Cached(k) /\ entries' = [entries EXCEPT ![k] = blockIds[s]]
       \/ /\ ~Cached(k) /\ MaxEntries > 0 /\ Len(lru) >= MaxEntries
          /\ entries' = [entries EXCEPT ![Head(lru)] = <<>>, ![k] = blockIds[s]]
  BY <1>1, <1>2 DEF Put
<1> QED BY <1>6, <1>8, <1>9, <1>10

LEMMA ClearImplements ==
  ASSUME Abstraction, Abstraction', ClearCache PROVE Contract!CNext
<1>1. text' = text /\ entries' = [k \in Prompts |-> <<>>]
  BY DEF ClearCache
<1>2. Kept' = [k \in Prompts |-> <<>>]
  BY <1>1 DEF Abstraction, Cached
<1> QED BY <1>1, <1>2, AbstractView, AbstractDropKept

LEMMA WriteImplements ==
  ASSUME IInv, Content, Abstraction, Abstraction',
         PrefillWrite \/ SuffixWrite \/ DecodeWrite \/ ChunkWrite \/ SoloWrite
  PROVE  Contract!CNext
<1>1. Kept' = Kept
  BY WritesGrow, AbstractView
<1>2. ASSUME NEW s \in Sessions, View'[s] # View[s]
      PROVE  /\ View'[s] # <<>> => View'[s] = KV(Last(View'[s]))
             /\ IsStrictPrefix(View[s], View'[s])
  <2>1. PICK x \in Seq(Tokens) : x = text[s]
    BY DEF IInv, ListsTypeOK
  <2>2. PICK y \in Seq(Tokens) : text'[s] = x \o y
    BY <2>1, WritesGrow
  <2>3. PICK z \in Seq(Tokens) : z = x \o y
    BY JoinFacts
  <2>4. View[s] = KV(x) /\ View'[s] = KV(z)
    BY <2>1, <2>2, <2>3, AbstractView
  <2>5. IsStrictPrefix(KV(x), KV(z))
    BY <1>2, <2>3, <2>4, HistoryGrows
  <2>6. KV(z) # <<>> => KV(z) = KV(Last(KV(z)))
    BY HistoryEmpty, HistoryFacts
  <2> QED BY <2>4, <2>5, <2>6
<1> QED BY <1>1, <1>2, AbstractCompute

\* Every step maps to a step of KVContract or to no change at all.
LEMMA NextImplements ==
  ASSUME IInv, Content, OneDict, Abstraction, Abstraction', [Next]_vars
  PROVE  [Contract!CNext]_(Contract!cvars)
<1>1. UNCHANGED <<text, entries>> => UNCHANGED Contract!cvars
  BY AbstractView, AbstractStutter
<1>2. CASE UNCHANGED vars
  BY <1>1, <1>2 DEF vars
<1>3. ASSUME NEW s \in Sessions, LookupHit(s) \/ LookupPrefix(s) \/ LookupChunked(s)
      PROVE  [Contract!CNext]_(Contract!cvars)
  <2>1. stage[s] = "new" /\ prompt[s] \in Prompts
    BY <1>3 DEF LookupHit, LookupPrefix, LookupChunked, IInv, StageInv, Prompted, Adding
  <2>2. \/ UNCHANGED <<text, entries>>
        \/ \E k \in Prompts : Cached(k) /\ Attach(s, k)
    BY <1>3, <2>1, AttachCached DEF LookupHit, LookupPrefix, LookupChunked
  <2> QED BY <1>1, <2>1, <2>2, AttachImplements
<1>4. ASSUME NEW s \in Sessions,
             Finish(s) \/ GenerateRaises(s) \/ Discard(s) \/ GenerateEnds(s)
      PROVE  Contract!CNext
  BY <1>4, ReleaseImplements DEF Finish, GenerateRaises, Discard, GenerateEnds
<1>5. ASSUME NEW s \in Sessions,
             \/ LookupDup(s) \/ LookupMiss(s) \/ LookupOffline(s) \/ OutOfBlocks(s)
             \/ Continue(s) \/ FinishOffline(s) \/ Reserve(s) \/ Generate(s)
      PROVE  UNCHANGED Contract!cvars
  BY <1>1, <1>5 DEF LookupDup, LookupMiss, LookupOffline, OutOfBlocks, Continue,
     FinishOffline, Reserve, Generate
<1>6. ASSUME \/ \E S \in SUBSET Sessions : AddRequests(S) \/ StartStep(S) \/ StartChunks(S)
             \/ RunEnds
      PROVE  UNCHANGED Contract!cvars
  BY <1>1, <1>6 DEF AddRequests, StartStep, StartChunks, RunEnds
<1> QED BY <1>2, <1>3, <1>4, <1>5, <1>6, CopyImplements, PutImplements, ClearImplements,
           WriteImplements DEF Next, InCall

\* For all constants the paged cache behaves as if every session had a private,
\* immutable history: it starts empty, grows only by the session's own forward
\* passes, is taken as a whole from a kept one or from another session, and is
\* dropped as a whole.
THEOREM RefinesContract == Spec => ImplementsContract
<1>1. Init => Contract!CInit
  <2> SUFFICES ASSUME Init PROVE Contract!CInit
    OBVIOUS
  <2>1. Faithful
    BY InitIInv, InitContent, ContentFaithful DEF IInv
  <2>2. Abstraction
    BY <2>1, FaithfulAbstraction
  <2>3. View = [s \in Sessions |-> <<>>] /\ Kept = [k \in Prompts |-> <<>>]
    BY <2>2, HistoryEmpty DEF Abstraction, Init, Cached
  <2> QED BY <2>3 DEF View, Kept, Contract!CInit
<1>2. IInv /\ Content /\ OneDict /\ Faithful /\ Faithful' /\ [Next]_vars
        => [Contract!CNext]_(Contract!cvars)
  BY NextImplements, FaithfulAbstraction, NextAbstraction
<1> QED BY <1>1, <1>2, Invariant, ReadsOwnHistory, PTL
        DEF Spec, ImplementsContract, Contract!CSpec

-----------------------------------------------------------------------------
\* The prefixes of a sequence are a chain.
LEMMA PrefixChain ==
  ASSUME NEW k \in Seq(Tokens), NEW m \in Prefixes(k), NEW n \in Prefixes(k),
         Len(m) <= Len(n)
  PROVE  m \in Prefixes(n)
<1>1. /\ n \in Seq(Tokens) /\ Len(n) \in 0..Len(k) /\ n = SubSeq(k, 1, Len(n))
      /\ m \in Seq(Tokens) /\ Len(m) \in 0..Len(n) /\ m = SubSeq(k, 1, Len(m))
  BY PrefixFacts
<1>2. m = SubSeq(n, 1, Len(m))
  <2>1. /\ SubSeq(n, 1, Len(m)) \in Seq(Tokens) /\ Len(SubSeq(n, 1, Len(m))) = Len(m)
        /\ \A i \in 1..Len(m) : SubSeq(n, 1, Len(m))[i] = n[i]
    BY <1>1
  <2>2. \A i \in 1..Len(n) : n[i] = k[i]
    BY <1>1
  <2>3. \A i \in 1..Len(m) : m[i] = k[i]
    BY <1>1
  <2> QED BY <1>1, <2>1, <2>2, <2>3
<1> QED BY <1>1, <1>2 DEF Prefixes

LEMMA PrefixOfPrefix ==
  ASSUME NEW k \in Seq(Tokens), NEW n \in Prefixes(k), NEW m \in Prefixes(n)
  PROVE  m \in Prefixes(k)
<1>1. n \in Seq(Tokens) /\ Len(n) \in 0..Len(k) /\ n = SubSeq(k, 1, Len(n))
  BY PrefixFacts
<1>2. m \in Seq(Tokens) /\ Len(m) \in 0..Len(n) /\ m = SubSeq(n, 1, Len(m))
  BY <1>1, PrefixFacts
<1>3. m = SubSeq(k, 1, Len(m))
  <2>1. /\ SubSeq(k, 1, Len(m)) \in Seq(Tokens) /\ Len(SubSeq(k, 1, Len(m))) = Len(m)
        /\ \A i \in 1..Len(m) : SubSeq(k, 1, Len(m))[i] = k[i]
    BY <1>1, <1>2
  <2>2. \A i \in 1..Len(n) : n[i] = k[i]
    BY <1>1
  <2>3. \A i \in 1..Len(m) : m[i] = n[i]
    BY <1>1, <1>2
  <2> QED BY <1>1, <1>2, <2>1, <2>2, <2>3
<1>4. Len(m) \in 0..Len(k)
  BY <1>1, <1>2
<1> QED BY <1>3, <1>4 DEF Prefixes

-----------------------------------------------------------------------------
(***************************************************************************)
(* The trie of a set K of keys with the entries e: its nodes are on the    *)
(* way to the keys, and each counts those whose way goes through it.       *)
(* insert and remove make it the trie of one key more or less.             *)
(***************************************************************************)
Through(n, K) == {k \in K : n \in Prefixes(k)}
Nodes(K) == {<<>>} \cup UNION {Prefixes(k) : k \in K}
TrieOf(K, e) == [n \in Nodes(K) |-> [count |-> Cardinality(Through(n, K)),
                                     entry |-> IF n \in K THEN e[n] ELSE <<>>]]

LEMMA ThroughFinite ==
  ASSUME NEW K, IsFiniteSet(K), NEW n
  PROVE  IsFiniteSet(Through(n, K)) /\ Cardinality(Through(n, K)) \in Nat
BY FS_Subset, FS_CardinalityType DEF Through

LEMMA ThroughMore ==
  ASSUME NEW K, IsFiniteSet(K), NEW k, k \notin K, NEW n
  PROVE  Cardinality(Through(n, K \cup {k}))
           = Cardinality(Through(n, K)) + (IF n \in Prefixes(k) THEN 1 ELSE 0)
<1>1. /\ IsFiniteSet(Through(n, K)) /\ Cardinality(Through(n, K)) \in Nat
      /\ k \notin Through(n, K)
  BY ThroughFinite DEF Through
<1>2. CASE n \in Prefixes(k)
  <2>1. Through(n, K \cup {k}) = Through(n, K) \cup {k}
    BY <1>2 DEF Through
  <2>2. Cardinality(Through(n, K) \cup {k}) = Cardinality(Through(n, K)) + 1
    BY <1>1, FS_AddElement
  <2> QED BY <1>2, <2>1, <2>2
<1>3. CASE n \notin Prefixes(k)
  <2>1. Through(n, K \cup {k}) = Through(n, K)
    BY <1>3 DEF Through
  <2> QED BY <1>1, <1>3, <2>1
<1> QED BY <1>2, <1>3

LEMMA NodeCounted ==
  ASSUME NEW K, IsFiniteSet(K), NEW n
  PROVE  Cardinality(Through(n, K)) = 0 <=> n \notin UNION {Prefixes(k) : k \in K}
<1>1. IsFiniteSet(Through(n, K)) /\ Cardinality(Through(n, K)) \in Nat
  BY ThroughFinite
<1>2. Cardinality(Through(n, K)) = 0 <=> Through(n, K) = {}
  BY <1>1, FS_EmptySet
<1> QED BY <1>2 DEF Through

LEMMA TrieGrows ==
  ASSUME NEW K \in SUBSET Seq(Tokens), IsFiniteSet(K), NEW k \in Seq(Tokens), k \notin K,
         NEW L, L = K \cup {k}, NEW e, NEW d, \A j \in K : d[j] = e[j]
  PROVE  Inserted(TrieOf(K, e), k, d[k]) = TrieOf(L, d)
<1> DEFINE t == TrieOf(K, e)
<1>1. DOMAIN t = Nodes(K) /\ Nodes(L) = Nodes(K) \cup Prefixes(k)
  BY DEF TrieOf, Nodes
<1>2. ASSUME NEW n \in Nodes(L)
      PROVE  (IF n \in DOMAIN t THEN t[n].count ELSE 0) + (IF n \in Prefixes(k) THEN 1 ELSE 0)
               = Cardinality(Through(n, L))
  <2>1. Cardinality(Through(n, L))
          = Cardinality(Through(n, K)) + (IF n \in Prefixes(k) THEN 1 ELSE 0)
    BY ThroughMore
  <2>2. CASE n \in DOMAIN t
    BY <1>1, <2>1, <2>2 DEF TrieOf
  <2>3. CASE n \notin DOMAIN t
    <3>1. Cardinality(Through(n, K)) = 0
      BY <1>1, <2>3, NodeCounted DEF Nodes
    <3> QED BY <2>1, <2>3, <3>1
  <2> QED BY <2>2, <2>3
<1>3. ASSUME NEW n \in Nodes(L)
      PROVE  (IF n = k THEN d[k] ELSE IF n \in DOMAIN t THEN t[n].entry ELSE <<>>)
               = IF n \in L THEN d[n] ELSE <<>>
  <2>1. CASE n = k
    BY <2>1
  <2>2. CASE n # k /\ n \in DOMAIN t
    BY <1>1, <2>2 DEF TrieOf
  <2>3. CASE n # k /\ n \notin DOMAIN t
    <3>1. n \notin K
      <4>1. ASSUME n \in K PROVE FALSE
        <5>1. n \in Seq(Tokens) /\ n \in Prefixes(n)
          BY <4>1, PrefixFacts
        <5> QED BY <1>1, <2>3, <4>1, <5>1 DEF Nodes
      <4> QED BY <4>1
    <3> QED BY <2>3, <3>1
  <2> QED BY <2>1, <2>2, <2>3
<1> HIDE DEF t
<1>4. Inserted(t, k, d[k]) = [n \in Nodes(L) |->
         [count |-> Cardinality(Through(n, L)), entry |-> IF n \in L THEN d[n] ELSE <<>>]]
  BY <1>1, <1>2, <1>3 DEF Inserted
<1> QED BY <1>4 DEF TrieOf, t

LEMMA TrieShrinks ==
  ASSUME NEW K \in SUBSET Seq(Tokens), IsFiniteSet(K), NEW k \in K,
         NEW e, e[k] # <<>>, NEW d, \A j \in K \ {k} : d[j] = e[j]
  PROVE  Removed(TrieOf(K, e), k, e[k]) = TrieOf(K \ {k}, d)
<1> DEFINE t == TrieOf(K, e)
           L == K \ {k}
<1>0. k \in Seq(Tokens) /\ IsFiniteSet(L) /\ k \notin L /\ K = L \cup {k}
  BY FS_Subset
<1>1. /\ DOMAIN t = Nodes(K) /\ Nodes(K) = Nodes(L) \cup Prefixes(k)
      /\ k \in Prefixes(k) /\ <<>> \in Prefixes(k)
  BY <1>0, PrefixFacts DEF TrieOf, Nodes
<1>2. ASSUME NEW n \in DOMAIN t
      PROVE  /\ t[n].count = Cardinality(Through(n, L)) + (IF n \in Prefixes(k) THEN 1 ELSE 0)
             /\ t[n].entry = IF n \in K THEN e[n] ELSE <<>>
             /\ Cardinality(Through(n, L)) \in Nat
  BY <1>0, <1>1, ThroughMore, ThroughFinite DEF TrieOf
<1>3. ~(k \notin DOMAIN t \/ t[k].entry # e[k])
  BY <1>1, <1>2
<1>4. Pruned(t, k) = {n \in Prefixes(k) \ {<<>>} : n \notin Nodes(L)}
  <2>1. ASSUME NEW n \in Prefixes(k) \ {<<>>}
        PROVE  (\A m \in Prefixes(k) : Len(m) >= Len(n) => t[m].count <= 1) <=> n \notin Nodes(L)
    <3>1. n \in DOMAIN t /\ n \in Seq(Tokens) /\ Len(n) \in Nat
      BY <1>0, <1>1, PrefixFacts
    <3>2. t[n].count <= 1 => n \notin Nodes(L)
      <4>1. Cardinality(Through(n, L)) = 0 <=> n \notin UNION {Prefixes(j) : j \in L}
        BY <1>0, NodeCounted
      <4> QED BY <1>2, <2>1, <3>1, <4>1 DEF Nodes
    <3>3. ASSUME n \notin Nodes(L), NEW m \in Prefixes(k), Len(m) >= Len(n)
          PROVE  t[m].count <= 1
      <4>1. m \in DOMAIN t /\ m \in Seq(Tokens) /\ Len(m) \in Nat
        BY <1>0, <1>1, PrefixFacts
      <4>2. n \in Prefixes(m)
        BY <1>0, <3>1, <3>3, <4>1, PrefixChain
      <4>3. \A j \in L : m \notin Prefixes(j)
        <5>1. \A j \in L : m \in Prefixes(j) => n \in Prefixes(j)
          BY <4>2, PrefixOfPrefix
        <5> QED BY <3>3, <5>1 DEF Nodes
      <4>4. Cardinality(Through(m, L)) = 0
        <5>1. Cardinality(Through(m, L)) = 0 <=> m \notin UNION {Prefixes(j) : j \in L}
          BY <1>0, NodeCounted
        <5> QED BY <4>3, <5>1
      <4> QED BY <1>2, <4>1, <4>4
    <3> QED BY <3>1, <3>2, <3>3
  <2> QED BY <2>1 DEF Pruned
<1>5. {n \in DOMAIN t : Pruned(t, k) \cap Prefixes(n) = {}} = Nodes(L)
  <2>1. ASSUME NEW n \in DOMAIN t, Pruned(t, k) \cap Prefixes(n) = {} PROVE n \in Nodes(L)
    <3>1. CASE n \in Prefixes(k)
      <4>1. n \in Prefixes(n)
        BY <1>0, <3>1, PrefixFacts
      <4> QED BY <1>4, <2>1, <3>1, <4>1 DEF Nodes
    <3> QED BY <1>1, <2>1, <3>1
  <2>2. ASSUME NEW n \in Nodes(L) PROVE n \in DOMAIN t /\ Pruned(t, k) \cap Prefixes(n) = {}
    <3>1. ASSUME NEW m \in Prefixes(n) PROVE m \in Nodes(L)
      <4>1. CASE n = <<>>
        <5>1. <<>> \in Seq(Tokens) /\ Len(<<>>) = 0
          OBVIOUS
        <5>2. \A x \in Seq(Tokens) : Len(x) = 0 => x = <<>>
          OBVIOUS
        <5>3. m \in Seq(Tokens) /\ Len(m) = 0
          BY <3>1, <4>1, <5>1, PrefixFacts
        <5> QED BY <5>2, <5>3 DEF Nodes
      <4>2. CASE n # <<>>
        <5>1. PICK j \in L : n \in Prefixes(j)
          BY <2>2, <4>2 DEF Nodes
        <5>2. m \in Prefixes(j)
          BY <3>1, <5>1, PrefixOfPrefix
        <5> QED BY <5>2 DEF Nodes
      <4> QED BY <4>1, <4>2
    <3> QED BY <1>1, <1>4, <2>2, <3>1
  <2> QED BY <2>1, <2>2
<1>6. ASSUME NEW n \in Nodes(L)
      PROVE  /\ t[n].count - (IF n \in Prefixes(k) THEN 1 ELSE 0) = Cardinality(Through(n, L))
             /\ (IF n = k THEN <<>> ELSE t[n].entry) = IF n \in L THEN d[n] ELSE <<>>
  <2>1. n \in DOMAIN t
    BY <1>1
  <2>2. t[n].count - (IF n \in Prefixes(k) THEN 1 ELSE 0) = Cardinality(Through(n, L))
    <3>1. PICK c \in Nat : c = Cardinality(Through(n, L))
      BY <1>2, <2>1
    <3>2. t[n].count = c + (IF n \in Prefixes(k) THEN 1 ELSE 0)
      BY <1>2, <2>1, <3>1
    <3> HIDE DEF t
    <3>3. t[n].count - (IF n \in Prefixes(k) THEN 1 ELSE 0) = c
      BY <3>2
    <3> QED BY <3>1, <3>3
  <2>3. (IF n = k THEN <<>> ELSE t[n].entry) = IF n \in L THEN d[n] ELSE <<>>
    BY <1>0, <1>2, <2>1
  <2> QED BY <2>2, <2>3
<1> HIDE DEF t, L
<1>7. Removed(t, k, e[k]) = [n \in Nodes(L) |->
         [count |-> Cardinality(Through(n, L)), entry |-> IF n \in L THEN d[n] ELSE <<>>]]
  BY <1>3, <1>5, <1>6 DEF Removed
<1> QED BY <1>7 DEF TrieOf, t, L
-----------------------------------------------------------------------------
(***************************************************************************)
(* The trie is that of the cached prompts, node by node and count by       *)
(* count: a remove takes away exactly what is on the way to no other key   *)
(* only because the counts of the nodes are exact.                         *)
(***************************************************************************)
Keys == {k \in Prompts : Cached(k)}
TrieExact == trie = TrieOf(Keys, entries)

LEMMA KeysFinite == Keys \in SUBSET Seq(Tokens) /\ IsFiniteSet(Keys)
BY FS_Subset, ConstantsAssumption DEF Keys

\* put: the key that goes is removed before the new one is inserted.
LEMMA PutTrie ==
  ASSUME IInv, OneDict, TrieExact, NEW s \in Sessions, Put(s), blockIds[s] # <<>>,
         prompt[s] \in Prompts
  PROVE  TrieExact'
<1>1. PICK k \in Prompts : k = prompt[s]
  OBVIOUS
<1>2. k \in Seq(Tokens) /\ entries \in [Prompts -> Seq(Blocks)]
  BY ConstantsAssumption DEF IInv, ListsTypeOK
<1>3. CASE UNCHANGED <<entries, trie>>
  BY <1>3 DEF TrieExact, Keys, Cached
<1>4. CASE /\ ~Cached(k) /\ entries' = [entries EXCEPT ![k] = blockIds[s]]
           /\ trie' = Inserted(trie, k, blockIds[s])
  <2>1. Keys' = Keys \cup {k} /\ k \notin Keys /\ entries'[k] = blockIds[s]
    BY <1>2, <1>4 DEF Keys, Cached
  <2>2. \A j \in Keys : entries'[j] = entries[j]
    BY <1>2, <1>4, <2>1 DEF Keys
  <2>3. Inserted(TrieOf(Keys, entries), k, entries'[k]) = TrieOf(Keys \cup {k}, entries')
    <3>1. PICK d : d = entries'
      OBVIOUS
    <3>2. PICK L, e : L = Keys \cup {k} /\ e = entries
      OBVIOUS
    <3>3. k \notin Keys /\ \A j \in Keys : d[j] = e[j]
      BY <2>1, <2>2, <3>1, <3>2
    <3>4. Inserted(TrieOf(Keys, e), k, d[k]) = TrieOf(L, d)
      BY <1>2, <3>2, <3>3, KeysFinite, TrieGrows
    <3> QED BY <3>1, <3>2, <3>4
  <2> QED BY <1>4, <2>1, <2>3 DEF TrieExact
<1>5. CASE /\ ~Cached(k) /\ MaxEntries > 0 /\ Len(lru) >= MaxEntries
           /\ entries' = [entries EXCEPT ![Head(lru)] = <<>>, ![k] = blockIds[s]]
           /\ trie' = Inserted(Removed(trie, Head(lru), entries[Head(lru)]), k, blockIds[s])
  <2>1. PICK o : o = Head(lru)
    OBVIOUS
  <2>2. o \in Keys /\ o # k
    <3>1. lru \in Seq(Prompts) /\ lru # <<>>
      BY <1>5, ConstantsAssumption DEF IInv, ListsTypeOK
    <3>2. o \in Range(lru)
      BY <2>1, <3>1, TailKeys DEF OneDict
    <3> QED BY <1>5, <3>2 DEF OneDict, Keys
  <2>3. PICK K : K = Keys \ {o}
    OBVIOUS
  <2>4. /\ Keys' = K \cup {k} /\ k \notin K /\ entries'[k] = blockIds[s]
        /\ \A j \in K : entries'[j] = entries[j]
    BY <1>2, <1>5, <2>1, <2>2, <2>3 DEF Keys, Cached
  <2>5. K \in SUBSET Seq(Tokens) /\ IsFiniteSet(K)
    BY <2>3, KeysFinite, FS_Subset
  <2>6. Removed(trie, o, entries[o]) = TrieOf(K, entries)
    <3>1. entries[o] # <<>> /\ \A j \in Keys \ {o} : entries[j] = entries[j]
      BY <2>2 DEF Keys, Cached
    <3>2. Removed(TrieOf(Keys, entries), o, entries[o]) = TrieOf(Keys \ {o}, entries)
      BY <2>2, <3>1, KeysFinite, TrieShrinks
    <3> QED BY <2>3, <3>2 DEF TrieExact
  <2>7. Inserted(TrieOf(K, entries), k, entries'[k]) = TrieOf(K \cup {k}, entries')
    <3>1. PICK d : d = entries'
      OBVIOUS
    <3>2. PICK L, e : L = K \cup {k} /\ e = entries
      OBVIOUS
    <3>3. k \notin K /\ \A j \in K : d[j] = e[j]
      BY <2>4, <3>1, <3>2
    <3>4. Inserted(TrieOf(K, e), k, d[k]) = TrieOf(L, d)
      BY <1>2, <2>5, <3>2, <3>3, TrieGrows
    <3> QED BY <3>1, <3>2, <3>4
  <2> QED BY <1>5, <2>1, <2>4, <2>6, <2>7 DEF TrieExact
<1> QED BY <1>1, <1>3, <1>4, <1>5 DEF Put

\* clear pops the keys one by one; the i-th removal leaves the trie of the keys after it.
LEMMA ClearTrie ==
  ASSUME IInv, OneDict, TrieExact PROVE Cleared = TrieOf({}, entries)
<1>1. PICK n \in Nat : n = Len(lru)
  BY DEF IInv, ListsTypeOK
<1> DEFINE Left(i) == {lru[j] : j \in (i + 1)..n}
           R(x, i) == Removed(x, lru[i], entries[lru[i]])
           h == [i \in 0..n |-> TrieOf(Left(i), entries)]
           f == CHOOSE f : f = [i \in 0..n |-> IF i = 0 THEN trie ELSE R(f[i - 1], i)]
<1>2. /\ DOMAIN lru = 1..n /\ \A i \in 1..n : lru[i] \in Keys
      /\ \A i, j \in 1..n : lru[i] = lru[j] => i = j
      /\ Left(0) = Keys
  <2>1. DOMAIN lru = 1..n /\ Range(lru) = Keys /\ IsInjective(lru)
    BY <1>1 DEF IInv, ListsTypeOK, OneDict, Keys
  <2> QED BY <2>1 DEF Range, IsInjective
<1>3. ASSUME NEW i \in 1..n PROVE R(h[i - 1], i) = h[i]
  <2>1. i - 1 \in 0..n /\ i \in 0..n /\ (i - 1) + 1 = i
    OBVIOUS
  <2>2. lru[i] \in Left(i - 1) /\ Left(i) = Left(i - 1) \ {lru[i]} /\ Left(i - 1) \subseteq Keys
    <3>1. \A j : j \in i..n <=> j = i \/ j \in (i + 1)..n
      OBVIOUS
    <3>2. i \notin (i + 1)..n /\ i..n \subseteq 1..n
      OBVIOUS
    <3> QED BY <1>2, <2>1, <3>1, <3>2
  <2>3. /\ Left(i - 1) \in SUBSET Seq(Tokens) /\ IsFiniteSet(Left(i - 1))
        /\ entries[lru[i]] # <<>>
        /\ \A j \in Left(i - 1) \ {lru[i]} : entries[j] = entries[j]
    BY <1>2, <2>2, KeysFinite, FS_Subset DEF Keys, Cached
  <2> HIDE DEF Left
  <2>4. Removed(TrieOf(Left(i - 1), entries), lru[i], entries[lru[i]])
          = TrieOf(Left(i - 1) \ {lru[i]}, entries)
    <3>1. PICK K, k, e : K = Left(i - 1) /\ k = lru[i] /\ e = entries
      OBVIOUS
    <3>2. /\ K \in SUBSET Seq(Tokens) /\ IsFiniteSet(K) /\ k \in K /\ e[k] # <<>>
          /\ \A j \in K \ {k} : e[j] = e[j]
      BY <2>2, <2>3, <3>1
    <3>3. Removed(TrieOf(K, e), k, e[k]) = TrieOf(K \ {k}, e)
      BY ONLY <3>2, TrieShrinks
    <3> QED BY <3>1, <3>3
  <2> QED BY <2>1, <2>2, <2>4
<1> HIDE DEF R, Left
<1>4. h[0] = trie
  <2>1. 0 \in 0..n
    OBVIOUS
  <2>2. h[0] = TrieOf(Left(0), entries)
    BY <2>1
  <2> HIDE DEF h
  <2> QED BY <1>2, <2>2 DEF TrieExact
<1>5. h = [i \in 0..n |-> IF i = 0 THEN trie ELSE R(h[i - 1], i)]
  <2>1. \A i \in 0..n : h[i] = IF i = 0 THEN trie ELSE R(h[i - 1], i)
    <3>1. \A i \in 0..n : i = 0 \/ i \in 1..n
      OBVIOUS
    <3> HIDE DEF h
    <3> QED BY <1>3, <1>4, <3>1
  <2> QED BY <2>1
<1>6. f = [i \in 0..n |-> IF i = 0 THEN trie ELSE R(f[i - 1], i)]
  <2> HIDE DEF h
  <2> QED BY <1>5
<1>7. PICK g : g = f
  OBVIOUS
<1>8. /\ g[0] = trie /\ \A i \in 1..n : g[i] = R(g[i - 1], i)
  <2> HIDE DEF f
  <2>1. \A i \in 0..n : g[i] = IF i = 0 THEN trie ELSE R(g[i - 1], i)
    BY <1>6, <1>7
  <2> QED BY <2>1
<1> HIDE DEF f, h
<1>9. g[n] = h[n]
  <2> DEFINE T == {i \in 0..n : g[i] = h[i]}
  <2>1. 0 \in T
    BY <1>4, <1>8
  <2>2. \A i \in 1..n : i - 1 \in T => i \in T
    BY <1>3, <1>8
  <2> HIDE DEF T
  <2>3. n \in T
    BY <2>1, <2>2, InductionTo
  <2> QED BY <2>3 DEF T
<1>10. Cleared = g[n]
  BY <1>1, <1>7 DEF Cleared, f, R
<1>11. h[n] = TrieOf({}, entries)
  <2>1. Left(n) = {} /\ n \in 0..n
    BY DEF Left
  <2> QED BY <2>1 DEF h
<1> QED BY <1>9, <1>10, <1>11

LEMMA EmptyTrieOf == ASSUME NEW e PROVE EmptyTrie = TrieOf({}, e)
<1>1. Nodes({}) = {<<>>} /\ \A n : Through(n, {}) = {}
  BY DEF Nodes, Through
<1>2. Cardinality({}) = 0
  BY FS_EmptySet
<1> QED BY <1>1, <1>2 DEF TrieOf, EmptyTrie

LEMMA NextTrie ==
  ASSUME IInv, Content, OneDict, TrieExact, [Next]_vars PROVE TrieExact'
<1>0. UNCHANGED <<entries, trie>> => TrieExact'
  BY DEF TrieExact, Keys, Cached
<1>1. ASSUME NEW s \in Sessions, PutPrompt(s) PROVE TrieExact'
  <2>1. stage[s] \in {"put", "sufput"} /\ Put(s)
    BY <1>1 DEF PutPrompt
  <2> QED BY <2>1, PutHasBlocks, PutTrie
<1>2. CASE ClearCache
  <2>1. trie' = Cleared /\ Keys' = {}
    BY <1>2 DEF ClearCache, Keys, Cached
  <2>2. TrieOf({}, entries) = TrieOf({}, entries')
    BY EmptyTrieOf
  <2> QED BY <2>1, <2>2, ClearTrie DEF TrieExact
<1>3. ASSUME NEW s \in Sessions,
             \/ LookupDup(s) \/ LookupMiss(s) \/ LookupOffline(s) \/ OutOfBlocks(s)
             \/ LookupHit(s) \/ LookupPrefix(s) \/ LookupChunked(s)
             \/ Continue(s) \/ FinishOffline(s) \/ Reserve(s) \/ CopyDup(s)
             \/ Finish(s) \/ GenerateRaises(s) \/ Discard(s) \/ Generate(s) \/ GenerateEnds(s)
      PROVE  TrieExact'
  <2>1. UNCHANGED <<entries, trie>>
    BY <1>3 DEF LookupDup, LookupMiss, LookupOffline, LookupHit, LookupPrefix, LookupChunked,
       Attach, OutOfBlocks, Continue, FinishOffline, Reserve, CopyDup, Finish, GenerateRaises,
       Discard, Generate, GenerateEnds, Release
  <2> QED BY <1>0, <2>1
<1>4. ASSUME \/ PrefillWrite \/ SuffixWrite \/ DecodeWrite \/ ChunkWrite \/ SoloWrite
             \/ \E S \in SUBSET Sessions : AddRequests(S) \/ StartStep(S) \/ StartChunks(S)
             \/ RunEnds \/ UNCHANGED vars
      PROVE  TrieExact'
  <2>1. UNCHANGED <<entries, trie>>
    BY <1>4 DEF PrefillWrite, SuffixWrite, DecodeWrite, ChunkWrite, SoloWrite, AddRequests,
       StartStep, StartChunks, RunEnds, vars
  <2> QED BY <1>0, <2>1
<1> QED BY <1>1, <1>2, <1>3, <1>4 DEF Next, InCall

LEMMA TrieInvariant == Spec => [](IInv /\ OneDict /\ TrieExact)
<1>1. Init => TrieExact
  <2> SUFFICES ASSUME Init PROVE TrieExact
    OBVIOUS
  <2>1. trie = EmptyTrie /\ Keys = {}
    BY DEF Init, Keys, Cached
  <2> QED BY <2>1, EmptyTrieOf DEF TrieExact
<1>2. IInv /\ Content /\ OneDict /\ TrieExact /\ [Next]_vars => TrieExact'
  BY NextTrie
<1> QED BY <1>1, <1>2, Invariant, PTL DEF Spec

\* However many prompts with common prefixes are put, evicted and cleared, in whatever
\* order: the trie finds the current entry of every cached prefix of a prompt, never
\* one that was evicted, so move_to_end never raises, and keeps no node for nothing.
THEOREM TrieNeverDangles == Spec => []TrieInStep
<1>1. ASSUME OneDict, TrieExact PROVE TrieInStep
  <2>1. Range(lru) = Keys /\ DOMAIN trie = Nodes(Keys)
    BY <1>1 DEF OneDict, Keys, TrieExact, TrieOf
  <2>2. ASSUME NEW k \in Keys PROVE Prefixes(k) \subseteq DOMAIN trie /\ trie[k].entry = entries[k]
    <3>1. k \in Seq(Tokens)
      BY KeysFinite
    <3>2. k \in Prefixes(k) /\ Prefixes(k) \subseteq DOMAIN trie
      BY <2>1, <3>1, PrefixFacts DEF Nodes
    <3> QED BY <1>1, <2>1, <3>2 DEF TrieExact, TrieOf
  <2>3. ASSUME NEW n \in DOMAIN trie, trie[n].entry # <<>> PROVE n \in Keys
    BY <1>1, <2>1, <2>3 DEF TrieExact, TrieOf
  <2>4. \A n \in DOMAIN trie \ {<<>>} : \E k \in Keys : n \in Prefixes(k)
    BY <2>1 DEF Nodes
  <2> QED BY <2>1, <2>2, <2>3, <2>4 DEF TrieInStep
<1> QED BY <1>1, TrieInvariant, PTL

\* The pool, the sessions and the prefix cache stay well typed; in particular no
\* reference count of the block manager ever goes below zero.
THEOREM TypeCorrect == Spec => []TypeOK
<1>1. ASSUME IInv, TrieExact PROVE TypeOK
  <2>1. ListsTypeOK /\ DOMAIN trie = Nodes(Keys)
    BY <1>1 DEF IInv, TrieExact, TrieOf
  <2>2. Nodes(Keys) \subseteq Seq(Tokens)
    <3>1. ASSUME NEW k \in Keys, NEW n \in Prefixes(k) PROVE n \in Seq(Tokens)
      <4>1. k \in Seq(Tokens)
        BY KeysFinite
      <4> QED BY <3>1, <4>1, PrefixFacts
    <3>2. <<>> \in Seq(Tokens)
      OBVIOUS
    <3> QED BY <3>1, <3>2 DEF Nodes
  <2>3. ASSUME NEW n \in Nodes(Keys) PROVE trie[n] \in [count : Nat, entry : Seq(Blocks)]
    <3>1. /\ trie[n] = [count |-> Cardinality(Through(n, Keys)),
                        entry |-> IF n \in Keys THEN entries[n] ELSE <<>>]
          /\ Cardinality(Through(n, Keys)) \in Nat
      BY <1>1, KeysFinite, ThroughFinite DEF TrieExact, TrieOf
    <3>2. n \in Keys => entries[n] \in Seq(Blocks)
      BY <2>1 DEF ListsTypeOK, Keys
    <3> QED BY <3>1, <3>2
  <2>4. trie = [n \in DOMAIN trie |-> trie[n]]
    BY <1>1 DEF TrieExact, TrieOf
  <2> QED BY <2>1, <2>2, <2>3, <2>4 DEF TypeOK, TrieTypeOK
<1> QED BY <1>1, TrieInvariant, PTL
==============================================================================

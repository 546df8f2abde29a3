------------------------------ MODULE Admission ------------------------------
(***************************************************************************)
(* Admission to the scheduler (_take_pending_for_prefill) in the worker    *)
(* loop of SchedulerManager: which of the requests that wait go into the   *)
(* next add_requests call.  First come first served they are taken from    *)
(* the front while they fit a budget of prompt tokens; with `pack' the     *)
(* cheapest of the first `lookahead' are taken, and those passed over go   *)
(* back in front; every so often an iteration of the loop is first come    *)
(* first served again (prefill_force_fifo_every).                          *)
(*                                                                         *)
(* Of the rest of the loop there is what admission depends on: clients put *)
(* requests in _pending, the scheduler has unfinished ones, which end.  A  *)
(* request that ended may come again, which stands for another one.        *)
(***************************************************************************)
EXTENDS Integers, SequencesExt, FiniteSetsExt

CONSTANTS
  Requests,      \* requests, as many as may wait or run at a time
  PromptLens,    \* lengths of prompts
  MaxContext,    \* max_position_embeddings
  PrefillBatch,  \* prefill_max_batch_size
  Budgets,       \* values of prefill_max_tokens to choose from (0: None)
  Policies,      \* values of prefill_admission_policy to choose from
  Limits,        \* values of max_active_requests to choose from (0: None)
  Lookaheads,    \* values of prefill_admission_lookahead to choose from
  ForceEvery     \* prefill_force_fifo_every (0: never)

ASSUME AdmissionAssumption ==
  /\ IsFiniteSet(Requests)
  /\ PromptLens \subseteq Nat \ {0} /\ MaxContext \in Nat \ {0}
  /\ PrefillBatch \in Nat \ {0} /\ Lookaheads \subseteq Nat \ {0} /\ ForceEvery \in Nat
  /\ Budgets \subseteq Nat /\ Policies \subseteq {"fifo", "pack"} /\ Limits \subseteq Nat

VARIABLES
  budget, policy, limit, lookahead,  \* the configuration
  buf,       \* _pending_buf
  queue,     \* _pending
  len,       \* lengths of the prompts of those waiting (0: not waiting)
  iter,      \* _prefill_iter, up to multiples of ForceEvery
  active     \* the scheduler's unfinished requests

config == <<budget, policy, limit, lookahead>>
vars   == <<config, buf, queue, len, iter, active>>

Waiting == buf \o queue
-----------------------------------------------------------------------------
\* A client adds a request.
Put(r) ==
  /\ r \notin Range(Waiting) \cup active
  /\ queue' = Append(queue, r)
  /\ \E n \in PromptLens : len' = [len EXCEPT ![r] = n]
  /\ UNCHANGED <<config, buf, iter, active>>

\* The scheduler finishes one.
Finish(r) ==
  /\ r \in active
  /\ active' = active \ {r}
  /\ UNCHANGED <<config, buf, queue, len, iter>>

\* What a prompt costs of the budget.
Least(m, n) == IF m < n THEN m ELSE n
Cost(r) == Least(len[r], MaxContext)
Costs(S) == MapThenSumSet(Cost, S)

\* _cap_prefill_max_reqs.
Cap ==
  IF limit = 0 THEN PrefillBatch
  ELSE IF limit <= Cardinality(active) THEN 0
  ELSE Least(limit - Cardinality(active), PrefillBatch)

(***************************************************************************)
(* First come first served: the longest prefix of those waiting within the *)
(* budget, or the first one alone.  The one that does not fit any more has *)
(* been taken from the queue already; it goes to the buffer.               *)
(***************************************************************************)
Fits(S) == budget = 0 \/ Cardinality(S) <= 1 \/ Costs(S) <= budget

FifoCount == Max({k \in 0..Least(Cap, Len(Waiting)) : Fits(Range(SubSeq(Waiting, 1, k)))})

Oversize(r) == budget # 0 /\ Cost(r) > budget
TurnedBack == /\ FifoCount < Least(Cap, Len(Waiting))
              /\ ~(FifoCount = 1 /\ Oversize(Waiting[1]))

Fifo ==
  LET popped == FifoCount + (IF TurnedBack THEN 1 ELSE 0)
      seen == IF popped > Len(buf) THEN popped ELSE Len(buf)
  IN  /\ active' = active \cup Range(SubSeq(Waiting, 1, FifoCount))
      /\ buf' = SubSeq(Waiting, FifoCount + 1, seen)
      /\ queue' = SubSeq(Waiting, seen + 1, Len(Waiting))

(***************************************************************************)
(* Packing: of a window of those waiting, the cheapest first, and of those *)
(* that cost the same the oldest first.  If none fits, the oldest is       *)
(* taken.  Those passed over keep their order.                             *)
(***************************************************************************)
Window == SubSeq(Waiting, 1, Least(lookahead, Len(Waiting)))

Age(r) == CHOOSE i \in DOMAIN Window : Window[i] = r
ByAge(q, r) == Age(q) < Age(r)                               \* a mutation
ByCost(q, r) == Cost(q) < Cost(r) \/ (Cost(q) = Cost(r) /\ Age(q) < Age(r))

\* The order is by cost: after one that does not fit, no other does.
UpTo(r) == {q \in Range(Window) : q = r \/ ByCost(q, r)}
Selected ==
  LET fit == {r \in Range(Window) : /\ Cardinality(UpTo(r)) <= Cap
                                    /\ Costs(UpTo(r)) <= budget}
  IN  IF fit = {} /\ Window # <<>> THEN {Head(Window)} ELSE fit

Pack ==
  LET sel == Selected
      left == SelectSeq(Window, LAMBDA r : r \notin sel)
      fromBuf == Least(lookahead, Len(buf))
  IN  /\ active' = active \cup sel
      /\ buf' = left \o SubSeq(buf, fromBuf + 1, Len(buf))
      /\ queue' = SubSeq(queue, Len(Window) - fromBuf + 1, Len(queue))

(***************************************************************************)
(* An iteration of the worker loop.                                        *)
(***************************************************************************)
NeverForced == FALSE                                         \* a mutation
Forced == ForceEvery > 0 /\ iter' = 0

NextIter == IF ForceEvery = 0 THEN 0 ELSE (iter + 1) % ForceEvery

Iterate ==
  /\ iter' = NextIter
  /\ IF Cap = 0 THEN UNCHANGED <<buf, queue, active>>
     ELSE IF Forced \/ policy = "fifo" \/ budget = 0 THEN Fifo ELSE Pack
  /\ len' = [r \in Requests |-> IF r \in active' THEN 0 ELSE len[r]]
  /\ UNCHANGED config
-----------------------------------------------------------------------------
Init ==
  /\ budget \in Budgets /\ policy \in Policies /\ limit \in Limits
  /\ lookahead \in Lookaheads
  /\ buf = <<>> /\ queue = <<>>
  /\ len = [r \in Requests |-> 0]
  /\ iter = 0 /\ active = {}

Next == (\E r \in Requests : Put(r) \/ Finish(r)) \/ Iterate

Spec == Init /\ [][Next]_vars

\* The worker goes on; no client need come, and what runs need not end.
LiveSpec == Spec /\ WF_vars(Iterate)
-----------------------------------------------------------------------------
(***************************************************************************)
(* Properties.                                                             *)
(***************************************************************************)
\* What an iteration takes leaves the rest as it was: no request is lost, taken
\* twice or overtaken by a later one that was passed over too, whether it waits
\* in the buffer or in the queue.
Taken == active' \ active
InOrder == LET rest == SelectSeq(Waiting, LAMBDA r : r \notin Taken)
           IN  IF Len(Waiting') > Len(Waiting) THEN Front(Waiting') = rest
                                               ELSE Waiting' = rest

\* It stays within the budget, but for a single prompt, and within both limits.
WithinBounds == /\ Fits(Taken)
                /\ Cardinality(Taken) <= PrefillBatch
                /\ limit > 0 /\ Taken # {} => Cardinality(active') <= limit

\* Who packs takes as many as any choice within the window could.
PacksMost ==
  policy = "pack" /\ budget > 0 /\ ~Forced =>
    \A S \in SUBSET Range(Window) :
      Cardinality(S) <= Cap /\ Costs(S) <= budget => Cardinality(S) <= Cardinality(Taken)

\* What an iteration takes, however those waiting got where they are.  (An
\* iteration is told by `iter', with ForceEvery above 1.)
TakesRight == [][InOrder /\ WithinBounds /\ (iter' # iter => PacksMost)]_vars

\* However many cheaper ones keep coming, nobody is passed over for ever: every
\* iteration that is first come first served takes the oldest, unless the limit
\* on active requests stops it.
NotStarved ==
  \A r \in Requests :
    limit = 0 /\ r \in Range(Waiting) ~> r \notin Range(Waiting)
=============================================================================

------------------------------ MODULE Messages ------------------------------
(***************************************************************************)
(* Commands and events between a manager and the engine process, and what  *)
(* _encode_cmd, _decode_cmd, _encode_evt and _decode_evt make of them for  *)
(* a pipe: a row of words, a code first, in which lists follow one another *)
(* and the receiver cuts them apart by the lengths sent ahead.  A queue    *)
(* carries the objects themselves.                                         *)
(*                                                                         *)
(* A word stands for one 32-bit value, a request id for the value it has.  *)
(* What the settings, texts and names in a message say is left out.        *)
(***************************************************************************)
EXTENDS Integers, SequencesExt, FiniteSetsExt

CONSTANTS
  Requests,  \* request ids; an id is used once
  PromptOf   \* token ids of the prompt of each request

ASSUME MessagesAssumption ==
  /\ IsFiniteSet(Requests) /\ DOMAIN PromptOf = Requests
  /\ \A r \in Requests : PromptOf[r] \in Seq(Nat) /\ PromptOf[r] # <<>>

\* AddRequestCmd; AddBatchCmd has the prompts of all its requests in one list.
Add(r)      == [op |-> "add", on |-> <<r>>, lens |-> <<Len(PromptOf[r])>>,
                toks |-> PromptOf[r]]
Batch(rids) == [op |-> "add_batch", on |-> rids,
                lens |-> [i \in DOMAIN rids |-> Len(PromptOf[rids[i]])],
                toks |-> FlattenSeq([i \in DOMAIN rids |-> PromptOf[rids[i]]])]
Cancel(r)   == [op |-> "cancel", on |-> <<r>>]
Shutdown    == [op |-> "shutdown"]
Profile(act, id) == [op |-> act, id |-> id]

\* TokenPairsEvent has a pair for each token, TokensEvent the tokens by request,
\* TokenCountsEvent only the number of tokens of requests that are finished.
Error == [type |-> "error"]
Pairs(toks, fin)   == [type |-> "pairs", toks |-> toks, fin |-> fin]
Tokens(lists, fin) == [type |-> "tokens", toks |-> lists, fin |-> fin]
Counts(fin, made)  == [type |-> "counts", fin |-> fin, made |-> [r \in fin |-> made[r]]]
Ack(id, ok) == [type |-> "profile", id |-> id, ok |-> ok]

\* The entries of a list at some of its positions, in order: the k-th of these is
\* the one that k - 1 of them come before.
Position(I, k) == CHOOSE i \in I : Cardinality({j \in I : j < i}) = k - 1
EntriesAt(list, I) == [k \in 1..Cardinality(I) |-> list[Position(I, k)]]

\* The fields of the entries of a list, as a list of their own.
Column(list, field) == [i \in DOMAIN list |-> list[i][field]]

\* The tokens of one request in pairs, and pairs gathered by request.
TokensIn(pairs, r) ==
  Column(EntriesAt(pairs, {i \in DOMAIN pairs : pairs[i].rid = r}), "tok")
Gathered(pairs) ==
  LET first == {i \in DOMAIN pairs : \A j \in 1..(i - 1) : pairs[j].rid # pairs[i].rid}
      rids  == Column(EntriesAt(pairs, first), "rid")
  IN  [k \in DOMAIN rids |-> [rid |-> rids[k], tok |-> TokensIn(pairs, rids[k])]]

\* The tokens an event with tokens has for a request.
TokensOf(e, r) ==
  IF e.type = "pairs" THEN TokensIn(e.toks, r) ELSE FlattenSeq(TokensIn(e.toks, r))
-----------------------------------------------------------------------------
\* _CMD_... and _EVT_...
CmdCode == [add |-> 1, cancel |-> 2, start |-> 3, stop |-> 4, shutdown |-> 5,
            add_batch |-> 6]
EvtCode == [tokens |-> 102, error |-> 103, profile |-> 104, pairs |-> 105, counts |-> 106]

\* The n words that follow the first off words of a message.
Slice(m, off, n) == SubSeq(m, off + 1, off + n)

Is(m, code) == m[1] = code

\* A list with its length ahead (_pack_u32 and the headers).
Prefixed(list) == <<Len(list)>> \o list

EncodeCmd(c) ==
  <<CmdCode[c.op]>> \o
    CASE c.op = "add"       -> c.on \o Prefixed(c.toks)
      [] c.op = "add_batch" -> <<Len(c.on), Len(c.toks)>> \o c.on \o c.lens \o c.toks
      [] c.op = "cancel"    -> c.on
      [] c.op = "shutdown"  -> <<>>
      [] OTHER              -> <<c.id>>

DecodeCmd(m) ==
  CASE Is(m, CmdCode.add) ->
         [op |-> "add", on |-> <<m[2]>>, lens |-> <<m[3]>>, toks |-> Slice(m, 3, m[3])]
    [] Is(m, CmdCode.add_batch) ->
         [op |-> "add_batch", on |-> Slice(m, 3, m[2]), lens |-> Slice(m, 3 + m[2], m[2]),
          toks |-> Slice(m, 3 + 2 * m[2], m[3])]
    [] Is(m, CmdCode.cancel)   -> Cancel(m[2])
    [] Is(m, CmdCode.shutdown) -> Shutdown
    [] Is(m, CmdCode.start)    -> Profile("start", m[2])
    [] Is(m, CmdCode.stop)     -> Profile("stop", m[2])

EncodeEvt(e) ==
  LET fin == SetToSeq(e.fin)
  IN  <<EvtCode[e.type]>> \o
        CASE e.type = "pairs"  -> Prefixed(Column(e.toks, "rid")) \o Column(e.toks, "tok")
                                    \o Prefixed(fin)
          [] e.type = "tokens" -> <<Len(e.toks)>> \o FlattenSeq([i \in DOMAIN e.toks |->
                                    <<e.toks[i].rid>> \o Prefixed(e.toks[i].tok)])
                                    \o Prefixed(fin)
          [] e.type = "counts" -> Prefixed(fin) \o [i \in DOMAIN fin |-> e.made[fin[i]]]
          [] e.type = "error"  -> <<>>
          [] OTHER             -> <<e.id, IF e.ok THEN 1 ELSE 0>>

\* TokensEvent: record after record, from where the one before ended.
Records(m) ==
  LET f[k \in 0..m[2]] ==
        IF k = 0 THEN [off |-> 2, toks |-> <<>>]
        ELSE LET at == f[k - 1].off
                 n  == m[at + 2]
             IN  [off  |-> at + 2 + n,
                  toks |-> Append(f[k - 1].toks,
                                  [rid |-> m[at + 1], tok |-> Slice(m, at + 2, n)])]
  IN  f[m[2]]

DecodeEvt(m) ==
  LET n == m[2]
      listAt(off) == Range(Slice(m, off + 1, m[off + 1]))
  IN  CASE Is(m, EvtCode.pairs) ->
             Pairs([i \in 1..n |-> [rid |-> m[2 + i], tok |-> m[2 + n + i]]],
                   listAt(2 + 2 * n))
        [] Is(m, EvtCode.tokens) -> Tokens(Records(m).toks, listAt(Records(m).off))
        [] Is(m, EvtCode.counts) ->
             Counts(listAt(1), [r \in listAt(1) |->
                                  m[2 + n + (CHOOSE i \in 1..n : m[2 + i] = r)]])
        [] Is(m, EvtCode.error)   -> Error
        [] Is(m, EvtCode.profile) -> Ack(m[2], m[3] = 1)
=============================================================================

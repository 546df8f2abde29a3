---------------------------- MODULE MPTokenManager ----------------------------
(***************************************************************************)
(* The client of the engine process that only counts tokens                *)
(* (MPTokenManager).  Threads add requests, one or a batch, and wait until *)
(* all of them are finished; others start and stop the profiler and wait   *)
(* for the acknowledgement.  The event loop counts what the process        *)
(* reports, under the lock and condition the callers use.                  *)
(***************************************************************************)
EXTENDS EngineProcess

CONSTANTS
  MaxInflight,   \* max_inflight_requests (0: None)
  Callers,       \* threads that add requests and wait for them, time and again
  MaxProfiles,   \* bound: calls of start_profile and stop_profile
  MaxAsked       \* bound: requests and such calls, all told

ASSUME TokenAssumption ==
  MaxInflight \in Nat /\ MaxProfiles \in Nat /\ MaxAsked \in Nat /\ IsFiniteSet(Callers)

VARIABLES
  running,    \* _running
  counts,     \* _token_counts of the ids it has
  done,       \* _finished
  error,      \* _error is set
  used,       \* requests whose id was given out
  caller,     \* where a caller is, its requests and the counts it got
  seq,        \* _profile_seq
  calls,      \* where the profiler calls are, by id
  waiters,    \* keys of _profile_waiters
  flags,      \* ids whose event is set
  acks,       \* _profile_results
  lpc,        \* the event loop runs, or not
  closer      \* where the call of close is

adding  == <<counts, done, used, caller>>
profile == <<seq, calls, waiters, flags, acks>>
tvars == <<running, adding, error, profile, lpc, closer>>
vars  == <<evars, tvars>>

Unused == [at |-> "idle", rids |-> {}, got |-> <<>>]

Profiles == 0..(MaxProfiles - 1)

\* Ids with a count of zero, and counts without some ids.
Zeros(S) == [r \in S |-> 0]
Without(S) == [r \in DOMAIN counts \ S |-> counts[r]]
-----------------------------------------------------------------------------
(***************************************************************************)
(* add_request_token_ids, add_requests_token_ids and wait_finished.        *)
(***************************************************************************)
Room(n) ==
  MaxInflight = 0 \/ Cardinality(DOMAIN counts) - Cardinality(done) + n <= MaxInflight

Register(c) ==
  /\ caller[c].at \notin {"send", "wait"} /\ running
  /\ \E S \in SUBSET (Requests \ used) \ {{}} :
       /\ Room(Cardinality(S)) /\ Cardinality(used \cup S) + seq <= MaxAsked
       /\ counts' = counts @@ Zeros(S)
       /\ used' = used \cup S
       /\ caller' = [caller EXCEPT ![c] = [at |-> "send", rids |-> S, got |-> <<>>]]
  /\ UNCHANGED <<evars, running, done, error, profile, lpc, closer>>

\* A batch is one command.
CommandFor(S) == IF Cardinality(S) = 1 THEN Add(CHOOSE r \in S : TRUE) ELSE Batch(SetToSeq(S))

Send(c) ==
  /\ caller[c].at = "send" /\ CanSend
  /\ Sent(<<CommandFor(caller[c].rids)>>)
  /\ caller' = [caller EXCEPT ![c].at = "wait"]
  /\ UNCHANGED <<EngineRest, cut, running, counts, done, used, error, profile, lpc, closer>>

SendRaises(c) ==
  /\ caller[c].at = "send" /\ ~CanSend
  /\ counts' = Without(caller[c].rids)
  /\ done' = done \ caller[c].rids
  /\ caller' = [caller EXCEPT ![c].at = "raised"]
  /\ UNCHANGED <<evars, running, used, error, profile, lpc, closer>>

\* The counts of the requests once all are finished; an error comes first, and
\* a manager that stopped raises.
WaitOver(c) == caller[c].rids \subseteq done

Returns(c) ==
  /\ caller[c].at = "wait" /\ ~error /\ WaitOver(c)
  /\ caller' = [caller EXCEPT ![c].at = "returned",
                              ![c].got = [r \in caller[c].rids |-> counts[r]]]
  /\ UNCHANGED <<evars, running, counts, done, used, error, profile, lpc, closer>>

Raises(c) ==
  /\ caller[c].at = "wait" /\ (error \/ (~WaitOver(c) /\ ~running))
  /\ caller' = [caller EXCEPT ![c].at = "raised"]
  /\ UNCHANGED <<evars, running, counts, done, used, error, profile, lpc, closer>>

WaitTimesOut(c) ==
  /\ caller[c].at = "wait" /\ ~error /\ ~WaitOver(c) /\ running
  /\ caller' = [caller EXCEPT ![c].at = "raised"]
  /\ UNCHANGED <<evars, running, counts, done, used, error, profile, lpc, closer>>
-----------------------------------------------------------------------------
(***************************************************************************)
(* start_profile and stop_profile.  A call that times out, or cannot send  *)
(* its command, leaves its waiter behind, and the ack may still come.      *)
(***************************************************************************)
Ask ==
  /\ seq < MaxProfiles /\ Cardinality(used) + seq < MaxAsked /\ running
  /\ waiters' = waiters \cup {seq}
  /\ seq' = seq + 1
  /\ calls' = [calls EXCEPT ![seq] = "send"]
  /\ UNCHANGED <<evars, running, adding, error, flags, acks, lpc, closer>>

SendProfile(p) ==
  /\ calls[p] = "send"
  /\ \E act \in {"start", "stop"} : Sent(<<Profile(act, p)>>)
  /\ calls' = [calls EXCEPT ![p] = IF CanSend THEN "wait" ELSE "raised"]
  /\ UNCHANGED <<EngineRest, cut, running, adding, error, seq, waiters, flags, acks, lpc,
                 closer>>

\* Its event is set: it takes the ack, if there is one.
AckOf(p) == {a \in acks : a.id = p}
TakeAck(p) ==
  /\ calls[p] = "wait" /\ p \in flags
  /\ calls' = [calls EXCEPT ![p] = IF \E a \in AckOf(p) : a.ok THEN "ok" ELSE "raised"]
  /\ acks' = acks \ AckOf(p)
  /\ UNCHANGED <<evars, running, adding, error, seq, waiters, flags, lpc, closer>>

ProfileTimesOut(p) ==
  /\ calls[p] = "wait" /\ p \notin flags
  /\ calls' = [calls EXCEPT ![p] = "raised"]
  /\ UNCHANGED <<evars, running, adding, error, seq, waiters, flags, acks, lpc, closer>>
-----------------------------------------------------------------------------
(***************************************************************************)
(* _event_loop, one event at a time, each under the lock.                  *)
(***************************************************************************)
\* Pairs add to the counts, counts replace them.
Counting(e) ==
  LET base(r) == IF r \in DOMAIN counts THEN counts[r] ELSE 0
  IN  IF e.type # "counts"
      THEN [r \in DOMAIN counts \cup {e.toks[i].rid : i \in DOMAIN e.toks} |->
              base(r) + Len(TokensOf(e, r))]
      ELSE [r \in DOMAIN counts \cup e.fin |-> IF r \in e.fin THEN e.made[r] ELSE base(r)]

\* Everyone who waits for an ack is let go.
WakeNobody == UNCHANGED flags                                \* a mutation
WakeWaiters == flags' = flags \cup waiters

\* An ack sets the event of the call that waits for it, if it still does.
WokenAll(e) == waiters                                       \* a mutation
Woken(e) == {e.id} \cap waiters

Fails ==
  /\ error' = TRUE /\ running' = FALSE /\ lpc' = "dead"
  /\ WakeWaiters /\ waiters' = {} /\ acks' = {}

OnEvent ==
  /\ lpc = "recv" /\ ~cut /\ events # <<>>
  /\ events' = Tail(events)
  /\ LET e == Arrived
     IN  \/ /\ e.type = "profile"
            /\ waiters' = waiters \ {e.id}
            /\ flags' = flags \cup Woken(e)
            /\ acks' = IF e.id \in waiters THEN acks \cup {e} ELSE acks
            /\ UNCHANGED <<running, counts, done, error, lpc>>
         \/ e.type = "error" /\ Fails /\ UNCHANGED <<counts, done>>
         \/ /\ e.type \in {"pairs", "tokens", "counts"}
            /\ counts' = Counting(e)
            /\ done' = done \cup e.fin
            /\ UNCHANGED <<running, error, waiters, flags, acks, lpc>>
  /\ UNCHANGED <<channels, cmds, epc, died, boot, recvCt, queued, served, result, prof,
                 used, caller, seq, calls, closer>>

\* The end of the pipe ends the loop, and nobody is told.  When close has closed it
\* here, the loop finds its end too, or it fails.
HangUp ==
  /\ lpc = "recv" /\ ipc = "pipe"
  /\ \/ cut /\ Fails
     \/ /\ cut \/ (~Alive /\ events = <<>>)
        /\ lpc' = "dead" /\ UNCHANGED <<running, error, waiters, flags, acks>>
  /\ UNCHANGED <<evars, adding, seq, calls, closer>>
-----------------------------------------------------------------------------
(***************************************************************************)
(* close.                                                                  *)
(***************************************************************************)
Close ==
  /\ closer = "idle"
  /\ running' = FALSE
  /\ IF running THEN closer' = "tell" /\ WakeWaiters /\ waiters' = {} /\ acks' = {}
                ELSE closer' = "closed" /\ UNCHANGED <<waiters, flags, acks>>
  /\ UNCHANGED <<evars, adding, error, seq, calls, lpc>>

CloseTells ==
  /\ closer = "tell"
  /\ Sent(<<Shutdown>>)
  /\ cut' = (ipc = "pipe")
  /\ closer' = "join"
  /\ UNCHANGED <<EngineRest, running, adding, error, profile, lpc>>

CloseJoins ==
  /\ closer = "join"
  /\ epc' = "dead" /\ closer' = "closed"
  /\ UNCHANGED <<channels, cmds, events, died, boot, recvCt, queued, served, result, prof,
                 running, adding, error, profile, lpc>>
-----------------------------------------------------------------------------
Init ==
  /\ EngineInit
  /\ running = TRUE /\ error = FALSE
  /\ counts = <<>> /\ done = {} /\ used = {}
  /\ caller = [c \in Callers |-> Unused]
  /\ seq = 0 /\ calls = [p \in Profiles |-> "idle"]
  /\ waiters = {} /\ flags = {} /\ acks = {}
  /\ lpc = "recv" /\ closer = "idle"

Caller(c)   == Send(c) \/ SendRaises(c) \/ Returns(c) \/ Raises(c)
Profiler(p) == SendProfile(p) \/ TakeAck(p)
Loop        == OnEvent \/ HangUp

Next ==
  \/ \E c \in Callers : Register(c) \/ Caller(c) \/ WaitTimesOut(c)
  \/ Ask
  \/ \E p \in Profiles : Profiler(p) \/ ProfileTimesOut(p)
  \/ Loop \/ Close \/ CloseTells \/ CloseJoins
  \/ (Engine \/ EngineRaises \/ Dies) /\ UNCHANGED tvars

Spec == Init /\ [][Next]_vars

\* Threads and the process run; a timeout need not come.
Fairness == /\ \A c \in Callers : WF_vars(Caller(c))
            /\ \A p \in Profiles : WF_vars(Profiler(p))
            /\ WF_vars(Loop) /\ WF_vars(CloseTells \/ CloseJoins)
            /\ WF_vars(Engine /\ UNCHANGED tvars)
LiveSpec == Spec /\ Fairness
-----------------------------------------------------------------------------
(***************************************************************************)
(* Properties.                                                             *)
(***************************************************************************)
\* Whatever a call of wait_finished returns is what the model generated for
\* the request, to the last token, with token events or counts alone, although
\* the first token and the finish may come in one event or in many.
CountsRight ==
  \A c \in Callers : \A r \in DOMAIN caller[c].got :
    caller[c].got[r] = gen[r] /\ gen[r] > 0 /\ r \notin sessions

\* A profiler call goes on with its own answer: while the manager runs, its event is
\* set only when the ack to its own command is there for it to take, however late the
\* acks to calls that gave up come, and in whatever order calls are made.
AnswersOwn ==
  \A p \in Profiles :
    running /\ calls[p] = "wait" /\ p \in flags => AckOf(p) # {}

\* Every call ends, by an answer or an exception: one that waits for requests
\* and one that waits for the profiler, whatever fails or is closed meanwhile,
\* unless the process died without a word.
CallsEnd == <>[](\/ died
                 \/ /\ \A c \in Callers : caller[c].at # "wait"
                    /\ \A p \in Profiles : calls[p] # "wait")
=============================================================================

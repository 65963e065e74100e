---------------------------- MODULE PaidRuns_proofs ----------------------------
(***************************************************************************)
(* PaidRuns for every number of runs, Miners, credits and handlers: a start *)
(* can be refunded until its row is attached, a run the browser was given   *)
(* stays paid for, the wallet's Crystal ledger shows what Ronin paid out,   *)
(* and a run that is over stays as it ended.                                *)
(*                                                                          *)
(* The handlers hold what they read before they were interrupted, so the    *)
(* inductive invariant is about what they hold: a start that has attached   *)
(* its run knows it is paid for and on Ronin, a finish that settles its run *)
(* knows the row is finished, and one that was confirmed knows the outcome  *)
(* on Ronin is its own.                                                     *)
(***************************************************************************)
EXTENDS PaidRuns, TLAPS

USE ReviveLimitAssumption, NamesAssumption

\* What a handler can hold.
Links == {None, "pending", "attached"}
Rows  == Links \union (SUBSET Runs) \union (UNION {[S -> Links] : S \in SUBSET Runs})

StartHeld ==
    [why : {"start"}, run : Runs,
     op : {"release", "begin", "beginning", "attach", "register", "rollback"}]

ScoreHeld ==
    [why : {"finish"}, op : {"score"}, run : Runs, to : {"extracted", "died"},
     linked : BOOLEAN]

\* A call is about a run, except that a recovery is about a Miner.
CallHeld ==
    [why : {"stale", "undo", "drop", "abandon", "terminate", "finish", "recover"},
     op : {"end", "ending", "ended", "gone", "failed", "unlocked"},
     run : Runs \union {None}, miner : Miners \union {None},
     only : Runs \union {"any"}, to : Outcomes, rows : Rows]

Held == {Idle} \union StartHeld \union ScoreHeld \union CallHeld

PaidTypeOK == TypeOK /\ request \in [Requests -> Held]

Paid(r) == \E c \in Credits : credit[c] = r

\* A run that was given to the browser, or is about to be.
Kept(r) ==
    /\ Paid(r) /\ chain[r] # None
    /\ \/ Live(r) /\ link[r] = "attached"
       \/ Over(r) /\ link[r] # "pending"

\* What a handler knows across the steps of the others.
Knows(h) ==
    /\ h.why \notin {"idle", "recover"} => h.run \in Runs
    /\ h.why = "stale" => h.rows \subseteq Runs
    /\ h.why = "start" /\ h.op = "attach" => chain[h.run] # None
    /\ h.why = "start" /\ h.op = "register" => Kept(h.run)
    /\ h.why = "finish" => open[h.run]
    /\ h.why = "finish" /\ h.op # "score" =>
           status[h.run] = "finished" /\ h.only = h.run
    /\ h.why = "finish" /\ h.op = "ended" => chain[h.run] = h.to

RowOK(r) ==
    /\ link[r] = "pending" => Paid(r)
    /\ open[r] => Kept(r)
    /\ status[r] = "finished" => open[r] /\ result[r] \in {"extracted", "died"}
    /\ banked[r] # None => banked[r] = chain[r]

PaidInv ==
    /\ PaidTypeOK
    /\ \A r \in Runs : RowOK(r)
    /\ \A q \in Requests : Knows(request[q])
    /\ UnattachedIsRefundable

-----------------------------------------------------------------------------
(* What the handlers hold.                                                  *)

LEMMA HeldStart ==
    ASSUME NEW h \in Held, h.why = "start"
    PROVE  h \in StartHeld
BY DEF Held, Idle, ScoreHeld, CallHeld

LEMMA HeldScore ==
    ASSUME NEW h \in Held, h.op = "score"
    PROVE  h \in ScoreHeld
BY DEF Held, Idle, StartHeld, CallHeld

LEMMA HeldCall ==
    ASSUME NEW h \in Held,
           h.op \in {"end", "ending", "ended", "gone", "failed", "unlocked"}
    PROVE  h \in CallHeld
BY DEF Held, Idle, StartHeld, ScoreHeld

LEMMA CallIsHeld ==
    ASSUME NEW why \in {"stale", "undo", "drop", "abandon", "terminate", "finish", "recover"},
           NEW r \in Runs \union {None}, NEW m \in Miners \union {None},
           NEW only \in Runs \union {"any"}, NEW to \in Outcomes, NEW rows \in Rows
    PROVE  Call(why, r, m, only, to, rows) \in CallHeld
BY DEF Call, CallHeld

LEMMA ReadIsRows ==
    ASSUME NEW S \in SUBSET Runs, NEW f \in [S -> Links]
    PROVE  f \in Rows
<1>1. [S -> Links] \in {[T -> Links] : T \in SUBSET Runs}
  BY Zenon
<1>2. f \in UNION {[T -> Links] : T \in SUBSET Runs}
  BY <1>1, Zenon
<1> QED
  BY <1>2, Zenon DEF Rows

LEMMA IdleKnows == Idle \in Held /\ Knows(Idle)
BY DEF Idle, Held, Knows

Txs == [run : Runs, to : Outcomes \union {"active"}]

\* A handler goes on, and nothing else happens, except to the mempool.
LEMMA GoesOn ==
    ASSUME PaidInv, NEW q \in Requests,
           request' = [request EXCEPT ![q] = request'[q]],
           request'[q] \in Held, Knows(request'[q]),
           UNCHANGED <<credit, row, chain>>, pool' \subseteq Txs
    PROVE  PaidInv'
<1>1. PaidTypeOK'
  BY DEF PaidInv, PaidTypeOK, TypeOK, row, Txs
<1>2. (\A r \in Runs : RowOK(r))'
  BY DEF PaidInv, row, RowOK, Paid, Kept, Live, Over
<1>3. (\A p \in Requests : Knows(request[p]))'
  <2> SUFFICES ASSUME NEW p \in Requests PROVE Knows(request[p])'
    OBVIOUS
  <2>1. Knows(request'[p])
    BY DEF PaidInv, PaidTypeOK
  <2> QED
    BY <2>1 DEF row, Knows, Kept, Paid, Live, Over
<1>4. UnattachedIsRefundable'
  BY DEF PaidInv, UnattachedIsRefundable, Recoverable, row
<1> QED
  BY <1>1, <1>2, <1>3, <1>4 DEF PaidInv

LEMMA PoolTyped == PaidInv => pool \subseteq Txs
BY DEF PaidInv, PaidTypeOK, TypeOK, Txs

-----------------------------------------------------------------------------
(* The steps that only a handler notices.                                   *)

LEMMA EndSteps ==
    ASSUME PaidInv, NEW q \in Requests,
           SendEnd(q) \/ NothingToEnd(q) \/ EndConfirmed(q) \/ EndFails(q)
    PROVE  PaidInv'
<1> DEFINE h == request[q]
<1>1. h \in CallHeld /\ Knows(h) /\ pool \subseteq Txs
  <2>1. h.op \in {"end", "ending"}
    BY DEF SendEnd, NothingToEnd, EndConfirmed, EndFails
  <2> QED
    BY <2>1, HeldCall, PoolTyped DEF PaidInv, PaidTypeOK
<1>2. CASE NothingToEnd(q) \/ EndFails(q)
  <2>1. PICK op \in {"gone", "failed"} : request' = [request EXCEPT ![q] = [h EXCEPT !.op = op]]
    BY <1>2 DEF NothingToEnd, EndFails, Goes, Becomes
  <2>2. request'[q] = [h EXCEPT !.op = op]
    BY <2>1 DEF PaidInv, PaidTypeOK
  <2>3. request'[q] \in Held /\ Knows(request'[q])
    BY <1>1, <2>2 DEF CallHeld, Held, Knows
  <2>4. UNCHANGED <<credit, row, chain, pool>>
    BY <1>2 DEF NothingToEnd, EndFails
  <2> QED
    BY <1>1, <2>1, <2>2, <2>3, <2>4, GoesOn
<1>3. CASE SendEnd(q)
  <2>1. PICK r \in On(h.miner) :
           /\ Matches(q, r)
           /\ pool' = pool \union {Tx(r, h.to)}
           /\ request' = [request EXCEPT ![q] = [h EXCEPT !.op = "ending", !.only = r]]
    BY <1>3 DEF SendEnd, Becomes
  <2>2. request'[q] = [h EXCEPT !.op = "ending", !.only = r] /\ r \in Runs
    BY <2>1 DEF PaidInv, PaidTypeOK, On
  <2>3. h.why = "finish" => r = h.only
    BY <1>1, <2>1, <2>2 DEF Matches, Knows, On, CallHeld
  <2>4. request'[q] \in Held /\ Knows(request'[q])
    <3> HIDE DEF h
    <3>1. request'[q] \in CallHeld
      BY <1>1, <2>2 DEF CallHeld
    <3>2. Knows(request'[q])
      BY <1>1, <2>2, <2>3 DEF CallHeld, Knows
    <3> QED
      BY <3>1, <3>2 DEF Held
  <2>5. pool' \subseteq Txs
    BY <1>1, <2>1, <2>2 DEF Txs, Tx, CallHeld
  <2>6. UNCHANGED <<credit, row, chain>>
    BY <1>3 DEF SendEnd
  <2> QED
    BY <2>1, <2>2, <2>4, <2>5, <2>6, GoesOn
<1>4. CASE EndConfirmed(q)
  <2>1. /\ request' = [request EXCEPT ![q] = [h EXCEPT !.op = "ended"]]
        /\ UNCHANGED <<credit, row, chain, pool>>
        /\ h.why = "finish" => chain[h.only] = h.to
    BY <1>4 DEF EndConfirmed, Goes, Becomes
  <2>2. request'[q] = [h EXCEPT !.op = "ended"]
    BY <2>1 DEF PaidInv, PaidTypeOK
  <2>3. h.op = "ending"
    BY <1>4 DEF EndConfirmed
  <2>4. request'[q] \in Held /\ Knows(request'[q])
    BY <1>1, <2>1, <2>2, <2>3 DEF CallHeld, Held, Knows
  <2> QED
    BY <1>1, <2>1, <2>2, <2>4, GoesOn
<1> QED
  BY <1>2, <1>3, <1>4

LEMMA StartSteps ==
    ASSUME PaidInv, NEW q \in Requests,
           \/ NothingSent(q) \/ SendBegin(q) \/ Begun(q) \/ NotStarted(q)
           \/ BeginUncertain(q)
    PROVE  PaidInv'
<1> DEFINE h == request[q]
<1>1. h \in Held /\ Knows(h) /\ pool \subseteq Txs /\ request \in [Requests -> Held]
  BY PoolTyped DEF PaidInv, PaidTypeOK
<1>2. CASE BeginUncertain(q)
  <2>1. request' = [request EXCEPT ![q] = Idle] /\ UNCHANGED <<credit, row, chain, pool>>
    BY <1>2 DEF BeginUncertain, Answered, Becomes
  <2> QED
    BY <1>1, <2>1, IdleKnows, GoesOn
<1>3. CASE NothingSent(q)
  <2>1. /\ request' = [request EXCEPT ![q] = [why |-> "start", op |-> "rollback", run |-> h.run]]
        /\ UNCHANGED <<credit, row, chain, pool>>
        /\ h.why \in {"start", "stale"}
    BY <1>3 DEF NothingSent, At, Becomes
  <2>2. request'[q] = [why |-> "start", op |-> "rollback", run |-> h.run]
    BY <1>1, <2>1
  <2>3. h.run \in Runs
    BY <1>1, <2>1 DEF Knows
  <2>4. request'[q] \in Held /\ Knows(request'[q])
    BY <2>2, <2>3 DEF StartHeld, Held, Knows
  <2> QED
    BY <1>1, <2>1, <2>2, <2>4, GoesOn
<1>4. CASE SendBegin(q) \/ Begun(q) \/ NotStarted(q)
  <2>1. h.why = "start"
    BY <1>4 DEF SendBegin, Begun, NotStarted, At
  <2>2. h \in StartHeld
    BY <1>1, <2>1, HeldStart
  <2>3. PICK op \in {"beginning", "attach", "rollback"} :
           /\ request' = [request EXCEPT ![q] = [h EXCEPT !.op = op]]
           /\ op = "attach" => chain[h.run] = "active"
    BY <1>4 DEF SendBegin, Begun, NotStarted, Goes, Becomes
  <2>4. request'[q] = [h EXCEPT !.op = op]
    BY <1>1, <2>3
  <2>5. request'[q] \in Held /\ Knows(request'[q])
    BY <1>1, <2>2, <2>3, <2>4 DEF StartHeld, Held, Knows, None
  <2>6. pool' \subseteq Txs /\ UNCHANGED <<credit, row, chain>>
    BY <1>1, <1>4, <2>2 DEF SendBegin, Begun, NotStarted, Txs, Tx, StartHeld
  <2> QED
    BY <2>3, <2>4, <2>5, <2>6, GoesOn
<1> QED
  BY <1>2, <1>3, <1>4

\* The handlers that turn to a call of the operator's, or begin with one.
LEMMA CallSteps ==
    ASSUME PaidInv, NEW q \in Requests,
           \/ ReadStale(q) \/ StaleReleased(q) \/ AttachFails(q) \/ RegisterFails(q)
           \/ \E r \in Runs : AbandonRun(q, r)
           \/ \E m \in Miners : RecoverMiner(q, m)
    PROVE  PaidInv'
<1> DEFINE h == request[q]
<1>1. /\ h \in Held /\ Knows(h) /\ pool \subseteq Txs /\ request \in [Requests -> Held]
      /\ miner \in [Runs -> Miners \union {None}] /\ link \in [Runs -> Links]
  BY PoolTyped DEF PaidInv, PaidTypeOK, TypeOK, Links
<1>2. UNCHANGED <<credit, row, chain, pool>>
  BY DEF ReadStale, StaleReleased, AttachFails, RegisterFails, AbandonRun, RecoverMiner
<1>3. SUFFICES ASSUME NEW g \in Held, Knows(g), request' = [request EXCEPT ![q] = g]
               PROVE  PaidInv'
  <2> SUFFICES \E g \in Held : Knows(g) /\ request' = [request EXCEPT ![q] = g]
    OBVIOUS
  <2>1. SUBSET Runs \subseteq Rows /\ Links \subseteq Rows
    BY DEF Rows
  <2>2. "cancelled" \in Outcomes
    BY DEF Outcomes
  <2>3. CASE ReadStale(q)
    <3>1. h \in StartHeld /\ h.op = "release"
      BY <1>1, <2>3, HeldStart DEF ReadStale, At
    <3>2. CASE Stale(h.run) = {}
      <4>1. request' = [request EXCEPT ![q] = [h EXCEPT !.op = "begin"]]
        BY <2>3, <3>2 DEF ReadStale, Goes, Becomes
      <4>2. [h EXCEPT !.op = "begin"] \in Held /\ Knows([h EXCEPT !.op = "begin"])
        BY <3>1, <1>1 DEF StartHeld, Held, Knows
      <4> QED
        BY <4>1, <4>2
    <3>3. CASE Stale(h.run) # {}
      <4>1. PICK x \in Stale(h.run) :
               request' = [request EXCEPT ![q] =
                   Call("stale", h.run, miner[x], "any", "cancelled", Stale(h.run) \ {x})]
        BY <2>3, <3>3 DEF ReadStale, Becomes
      <4> DEFINE g == Call("stale", h.run, miner[x], "any", "cancelled", Stale(h.run) \ {x})
      <4>2. x \in Runs /\ Stale(h.run) \ {x} \in SUBSET Runs /\ h.run \in Runs
        BY <3>1 DEF Stale, StartHeld
      <4>3. g \in CallHeld
        BY <1>1, <2>1, <2>2, <4>2, CallIsHeld
      <4>4. Knows(g)
        BY <4>2 DEF Knows, Call
      <4> QED
        BY <4>1, <4>3, <4>4 DEF Held
    <3> QED
      BY <3>2, <3>3
  <2>4. CASE StaleReleased(q)
    <3>1. h.why = "stale" /\ h.rows \subseteq Runs /\ h.run \in Runs
      BY <1>1, <2>4 DEF StaleReleased, At, Knows
    <3>2. CASE h.rows = {}
      <4>1. request' = [request EXCEPT ![q] = [why |-> "start", op |-> "begin", run |-> h.run]]
        BY <2>4, <3>2 DEF StaleReleased, Becomes
      <4> DEFINE g == [why |-> "start", op |-> "begin", run |-> h.run]
      <4>2. g \in StartHeld /\ Knows(g)
        BY <3>1 DEF StartHeld, Knows
      <4> QED
        BY <4>1, <4>2 DEF Held
    <3>3. CASE h.rows # {}
      <4>1. PICK x \in h.rows :
               request' = [request EXCEPT ![q] =
                   Call("stale", h.run, miner[x], "any", "cancelled", h.rows \ {x})]
        BY <2>4, <3>3 DEF StaleReleased, Becomes
      <4> DEFINE g == Call("stale", h.run, miner[x], "any", "cancelled", h.rows \ {x})
      <4>2. x \in Runs /\ h.rows \ {x} \in SUBSET Runs
        BY <3>1
      <4>3. g \in CallHeld
        BY <1>1, <2>1, <2>2, <3>1, <4>2, CallIsHeld
      <4>4. Knows(g)
        BY <3>1, <4>2 DEF Knows, Call
      <4> QED
        BY <4>1, <4>3, <4>4 DEF Held
    <3> QED
      BY <3>2, <3>3
  <2>5. CASE AttachFails(q) \/ RegisterFails(q)
    <3>1. h \in StartHeld
      BY <1>1, <2>5, HeldStart DEF AttachFails, RegisterFails, At
    <3>2. PICK why \in {"undo", "drop"}, only \in {h.run, "any"} :
             request' = [request EXCEPT ![q] =
                 Call(why, h.run, miner[h.run], only, "cancelled", {})]
      BY <2>5 DEF AttachFails, RegisterFails, Becomes
    <3> DEFINE g == Call(why, h.run, miner[h.run], only, "cancelled", {})
    <3>3. h.run \in Runs
      BY <3>1 DEF StartHeld
    <3>4. g \in CallHeld
      BY <1>1, <2>1, <2>2, <3>3, CallIsHeld
    <3>5. Knows(g)
      BY <3>3 DEF Knows, Call
    <3> QED
      BY <3>2, <3>4, <3>5 DEF Held
  <2>6. CASE \E r \in Runs : AbandonRun(q, r)
    <3>1. PICK r \in Runs : AbandonRun(q, r)
      BY <2>6
    <3> DEFINE c == Call("abandon", r, miner[r], r, "cancelled", {})
               g == [c EXCEPT !.op = "gone"]
    <3>2. c \in CallHeld
      BY <1>1, <2>1, <2>2, CallIsHeld
    <3>3. g \in CallHeld
      BY <3>2 DEF CallHeld
    <3>4. Knows(c) /\ Knows(g)
      BY DEF Knows, Call
    <3>5. request' = [request EXCEPT ![q] = c] \/ request' = [request EXCEPT ![q] = g]
      BY <3>1 DEF AbandonRun, Becomes
    <3> QED
      BY <3>2, <3>3, <3>4, <3>5 DEF Held
  <2>7. CASE \E m \in Miners : RecoverMiner(q, m)
    <3>1. PICK m \in Miners : RecoverMiner(q, m)
      BY <2>7
    <3> DEFINE read == [r \in Reservations(m) |-> link[r]]
               c == Call("recover", None, m, "any", "cancelled", read)
               g == [c EXCEPT !.op = "unlocked"]
    <3>2. read \in Rows
      <4>1. Reservations(m) \in SUBSET Runs
        BY DEF Reservations
      <4>2. read \in [Reservations(m) -> Links]
        BY <1>1, <4>1
      <4> QED
        BY <4>1, <4>2, ReadIsRows
    <3>3. c \in CallHeld
      BY <2>2, <3>2, CallIsHeld
    <3>4. g \in CallHeld
      BY <3>3 DEF CallHeld
    <3>5. Knows(c) /\ Knows(g)
      BY DEF Knows, Call
    <3>6. request' = [request EXCEPT ![q] = c] \/ request' = [request EXCEPT ![q] = g]
      BY <3>1 DEF RecoverMiner, Becomes
    <3> QED
      BY <3>3, <3>4, <3>5, <3>6 DEF Held
  <2> QED
    BY <2>3, <2>4, <2>5, <2>6, <2>7
<1>4. request'[q] = g
  BY <1>1, <1>3
<1> QED
  BY <1>1, <1>2, <1>3, <1>4, GoesOn

\* A finish is answered, or begins, and a handler that gives up forgets.
LEMMA AnswerSteps ==
    ASSUME PaidInv, NEW q \in Requests,
           \/ ScoreRefused(q) \/ GiveUp(q) \/ Released(q)
           \/ \E r \in Runs, to \in {"extracted", "died"} : FinishRun(q, r, to)
    PROVE  PaidInv'
<1> DEFINE h == request[q]
<1>1. h \in Held /\ Knows(h) /\ pool \subseteq Txs /\ request \in [Requests -> Held]
  BY PoolTyped DEF PaidInv, PaidTypeOK
<1>2. UNCHANGED <<credit, row, chain, pool>>
  BY DEF ScoreRefused, GiveUp, Released, FinishRun
<1>3. SUFFICES ASSUME NEW g \in Held, Knows(g), request' = [request EXCEPT ![q] = g]
               PROVE  PaidInv'
  <2> SUFFICES \E g \in Held : Knows(g) /\ request' = [request EXCEPT ![q] = g]
    OBVIOUS
  <2>1. CASE request' = [request EXCEPT ![q] = Idle]
    BY <2>1, IdleKnows
  <2>2. CASE Released(q) /\ request' # [request EXCEPT ![q] = Idle]
    <3>1. /\ request' = [request EXCEPT ![q] = [h EXCEPT !.op = "unlocked"]]
          /\ h.why = "recover" /\ h.op \in {"ended", "gone", "failed"}
      BY <2>2 DEF Released, Goes, Answered, Becomes
    <3>2. h \in CallHeld
      BY <1>1, <3>1, HeldCall
    <3>3. [h EXCEPT !.op = "unlocked"] \in Held /\ Knows([h EXCEPT !.op = "unlocked"])
      BY <3>1, <3>2 DEF CallHeld, Held, Knows
    <3> QED
      BY <3>1, <3>3
  <2>3. CASE \E r \in Runs, to \in {"extracted", "died"} : FinishRun(q, r, to)
    <3>1. PICK r \in Runs, to \in {"extracted", "died"} : FinishRun(q, r, to)
      BY <2>3
    <3> DEFINE g == [why |-> "finish", op |-> "score", run |-> r, to |-> to,
                     linked |-> link[r] = "attached"]
    <3>2. open[r] /\ request' = [request EXCEPT ![q] = g]
      BY <3>1 DEF FinishRun, Becomes
    <3>3. g \in ScoreHeld /\ Knows(g)
      BY <3>2 DEF ScoreHeld, Knows
    <3> QED
      BY <3>2, <3>3 DEF Held
  <2> QED
    BY <2>1, <2>2, <2>3 DEF ScoreRefused, GiveUp, Released, Answered, Becomes
<1>4. request'[q] = g
  BY <1>1, <1>3
<1> QED
  BY <1>1, <1>2, <1>3, <1>4, GoesOn

LEMMA RestartStep == PaidInv /\ Restart => PaidInv'
<1> SUFFICES ASSUME PaidInv, Restart PROVE PaidInv'
  OBVIOUS
<1>1. PaidTypeOK'
  BY IdleKnows DEF Restart, PaidInv, PaidTypeOK, TypeOK, row
<1>2. (\A r \in Runs : RowOK(r))' /\ UnattachedIsRefundable'
  BY DEF Restart, PaidInv, row, RowOK, Paid, Kept, Live, Over, UnattachedIsRefundable, Recoverable
<1>3. (\A q \in Requests : Knows(request[q]))'
  BY DEF Restart, Knows, Idle
<1> QED
  BY <1>1, <1>2, <1>3 DEF PaidInv

-----------------------------------------------------------------------------
(* The steps that change a row, a credit or Ronin.                          *)

\* What the others know stays true as long as nothing is taken back.
NothingTakenBack ==
    \A r \in Runs :
        /\ Kept(r) => Kept(r)'
        /\ open[r] => open'[r]
        /\ status[r] = "finished" => status'[r] = "finished"
        /\ chain[r] # None => chain'[r] # None
        /\ chain[r] \in Outcomes => chain'[r] = chain[r]

LEMMA KnowsOn ==
    ASSUME PaidTypeOK, NothingTakenBack, NEW h \in Held, Knows(h)
    PROVE  /\ h.why \notin {"idle", "recover"} => h.run \in Runs
           /\ h.why = "stale" => h.rows \subseteq Runs
           /\ h.why = "start" /\ h.op = "attach" => chain'[h.run] # None
           /\ h.why = "start" /\ h.op = "register" =>
                  \A r \in Runs : r = h.run => Kept(r)'
           /\ h.why = "finish" => open'[h.run]
           /\ h.why = "finish" /\ h.op # "score" =>
                  status'[h.run] = "finished" /\ h.only = h.run
           /\ h.why = "finish" /\ h.op = "ended" => chain'[h.run] = h.to
<1>1. h.why = "finish" /\ h.op = "ended" => h.to \in Outcomes
  BY HeldCall DEF CallHeld
<1> QED
  BY <1>1 DEF Knows, NothingTakenBack

\* One handler goes on, the others hold what they held.
LEMMA OthersKnow ==
    ASSUME PaidInv, NothingTakenBack, NEW q \in Requests,
           request' = [request EXCEPT ![q] = request'[q]],
           request'[q] \in Held, Knows(request[q])'
    PROVE  (\A p \in Requests : Knows(request[p]))' /\ request' \in [Requests -> Held]
<1>1. request' \in [Requests -> Held]
  BY DEF PaidInv, PaidTypeOK
<1>2. ASSUME NEW p \in Requests, p # q PROVE Knows(request[p])'
  <2>1. request'[p] = request[p] /\ request[p] \in Held /\ Knows(request[p])
    BY <1>2 DEF PaidInv, PaidTypeOK
  <2> QED
    BY <2>1, KnowsOn DEF Knows, PaidInv
<1> QED
  BY <1>1, <1>2

LEMMA AllKnow ==
    ASSUME PaidInv, NothingTakenBack, request' = request
    PROVE  (\A p \in Requests : Knows(request[p]))'
<1> SUFFICES ASSUME NEW p \in Requests PROVE Knows(request[p])'
  OBVIOUS
<1>1. request'[p] = request[p] /\ request[p] \in Held /\ Knows(request[p])
  BY DEF PaidInv, PaidTypeOK
<1> QED
  BY <1>1, KnowsOn DEF Knows, PaidInv

LEMMA MineStep ==
    ASSUME PaidInv, NEW t \in pool, Mine(t)
    PROVE  PaidInv'
<1>1. /\ t \in Txs /\ chain \in [Runs -> Outcomes \union {None, "active"}]
      /\ UNCHANGED <<credit, row, request>> /\ pool' \subseteq pool
      /\ chain' = [chain EXCEPT ![t.run] = t.to]
      /\ chain[t.run] \notin Outcomes
      /\ t.to # None
  BY PoolTyped DEF Mine, PaidInv, PaidTypeOK, TypeOK, Txs, Outcomes, None
<1>2. PaidTypeOK'
  BY <1>1 DEF PaidInv, PaidTypeOK, TypeOK, row, Txs
<1>3. NothingTakenBack
  BY <1>1 DEF NothingTakenBack, Kept, Paid, Live, Over, row, Txs
<1>4. (\A q \in Requests : Knows(request[q]))'
  BY <1>1, <1>3, AllKnow
<1>5. \A r \in Runs : chain[r] # None => chain'[r] # None
  BY <1>3 DEF NothingTakenBack
<1>6. ASSUME NEW r \in Runs PROVE RowOK(r)'
  <2>1. RowOK(r) /\ UNCHANGED <<link[r], open[r], status[r], result[r], banked[r], Paid(r)>>
    BY <1>1 DEF PaidInv, row, Paid
  <2>2. banked[r] # None => chain'[r] = chain[r]
    <3>1. banked[r] \in Outcomes \union {None}
      BY DEF PaidInv, PaidTypeOK, TypeOK
    <3> QED
      BY <1>1, <2>1, <3>1 DEF RowOK
  <2> QED
    BY <1>3, <2>1, <2>2 DEF RowOK, NothingTakenBack
<1>7. UnattachedIsRefundable'
  BY <1>1, <1>5 DEF PaidInv, UnattachedIsRefundable, Recoverable, row
<1> QED
  BY <1>2, <1>4, <1>6, <1>7 DEF PaidInv

LEMMA PlainSteps ==
    ASSUME PaidInv,
           \/ \E t \in pool : DropTransaction(t)
           \/ \E c \in Credits : BuyCredit(c)
    PROVE  PaidInv'
<1>1. /\ UNCHANGED <<row, chain, request>> /\ pool' \subseteq pool
      /\ \A c \in Credits : credit'[c] # credit[c] => credit[c] = "unbought" /\ credit'[c] = "free"
      /\ credit' \in [Credits -> {"unbought", "free"} \union Runs]
  BY DEF DropTransaction, BuyCredit, PaidInv, PaidTypeOK, TypeOK
<1>2. PaidTypeOK'
  BY <1>1 DEF PaidInv, PaidTypeOK, TypeOK, row
<1>3. \A r \in Runs : Paid(r)' <=> Paid(r)
  BY <1>1 DEF Paid
<1>4. NothingTakenBack
  BY <1>1, <1>3 DEF NothingTakenBack, Kept, Live, Over, row
<1>5. (\A q \in Requests : Knows(request[q]))'
  BY <1>1, <1>4, AllKnow
<1>6. (\A r \in Runs : RowOK(r))'
  BY <1>1, <1>3 DEF PaidInv, RowOK, Kept, Live, Over, row
<1>7. UnattachedIsRefundable'
  BY <1>1 DEF PaidInv, UnattachedIsRefundable, Recoverable, row
<1> QED
  BY <1>2, <1>5, <1>6, <1>7 DEF PaidInv

\* A live row stays live or expires, and no more than that happens to the rows.
LEMMA RowsMove ==
    ASSUME PaidInv, UNCHANGED <<credit, result, link, open, chain, banked>>,
           \A r \in Runs : \/ status'[r] = status[r]
                           \/ Live(r) /\ status'[r] \in {"active", "awaiting", "expired"}
    PROVE  NothingTakenBack /\ (\A r \in Runs : RowOK(r))' /\ UnattachedIsRefundable'
<1>1. \A r \in Runs : Kept(r) => Kept(r)'
  BY DEF Kept, Paid, Live, Over
<1>2. NothingTakenBack
  BY <1>1 DEF NothingTakenBack, Live
<1>3. (\A r \in Runs : RowOK(r))'
  <2> SUFFICES ASSUME NEW r \in Runs PROVE RowOK(r)'
    OBVIOUS
  <2>1. RowOK(r) /\ (Paid(r)' <=> Paid(r))
    BY DEF PaidInv, Paid
  <2> QED
    BY <1>1, <2>1 DEF RowOK
<1>4. UnattachedIsRefundable'
  BY DEF PaidInv, UnattachedIsRefundable, Recoverable, Live
<1> QED
  BY <1>2, <1>3, <1>4

LEMMA ReviveSteps ==
    ASSUME PaidInv, NEW r \in Runs,
           RequestRevive(r) \/ ConfirmRevive(r) \/ CancelRevive(r)
    PROVE  PaidInv'
<1>1. UNCHANGED <<credit, result, link, open, chain, banked, miner, reserved, pool, request>>
  BY DEF RequestRevive, ConfirmRevive, CancelRevive
<1>2. Live(r) /\ status' = [status EXCEPT ![r] = status'[r]]
      /\ status'[r] \in {"active", "awaiting"}
  <2>1. open[r] /\ ~Over(r) => Live(r)
    BY DEF PaidInv, RowOK, Kept
  <2> QED
    BY <2>1 DEF RequestRevive, ConfirmRevive, CancelRevive, PaidInv, PaidTypeOK, TypeOK,
                Live, Revivable
<1>3. PaidTypeOK'
  <2>1. /\ revive' \in [Runs -> {None, "pending", "confirmed", "cancelled"}]
        /\ revived' \in [Runs -> 0..ReviveLimit]
    BY DEF RequestRevive, ConfirmRevive, CancelRevive, PaidInv, PaidTypeOK, TypeOK
  <2>2. status' \in [Runs -> {"unused", "active", "awaiting", "finished", "expired"}]
    BY <1>2 DEF PaidInv, PaidTypeOK, TypeOK
  <2> QED
    BY <1>1, <2>1, <2>2 DEF PaidInv, PaidTypeOK, TypeOK
<1>4. \A x \in Runs : \/ status'[x] = status[x]
                      \/ Live(x) /\ status'[x] \in {"active", "awaiting", "expired"}
  BY <1>2 DEF PaidInv, PaidTypeOK, TypeOK
<1>5. NothingTakenBack /\ (\A x \in Runs : RowOK(x))' /\ UnattachedIsRefundable'
  BY <1>1, <1>4, RowsMove
<1>6. (\A q \in Requests : Knows(request[q]))'
  BY <1>1, <1>5, AllKnow
<1> QED
  BY <1>3, <1>5, <1>6 DEF PaidInv

LEMMA ExpirySteps ==
    ASSUME PaidInv, NEW q \in Requests,
           \/ ExpireRun(q) \/ CompleteTermination(q) \/ ClearReservation(q)
           \/ \E r \in Runs : TerminateRun(q, r)
    PROVE  PaidInv'
<1> DEFINE h == request[q]
<1>1. /\ UNCHANGED <<credit, result, link, open, chain, banked, miner, revived, pool>>
      /\ h \in Held /\ Knows(h) /\ request \in [Requests -> Held]
      /\ link \in [Runs -> Links]
  BY DEF ExpireRun, CompleteTermination, ClearReservation, TerminateRun, PaidInv,
         PaidTypeOK, TypeOK, Links
<1>2. \A r \in Runs : \/ status'[r] = status[r]
                      \/ Live(r) /\ status'[r] \in {"active", "awaiting", "expired"}
  BY DEF ExpireRun, CompleteTermination, ClearReservation, TerminateRun, Closing, Live
<1>3. /\ status' \in [Runs -> {"unused", "active", "awaiting", "finished", "expired"}]
      /\ reserved' \in [Runs -> BOOLEAN]
      /\ revive' \in [Runs -> {None, "pending", "confirmed", "cancelled"}]
  <2> USE DEF PaidInv, PaidTypeOK, TypeOK
  <2>1. CASE ExpireRun(q)
    BY <2>1 DEF ExpireRun, Closing
  <2>2. CASE CompleteTermination(q)
    <3>1. CASE UNCHANGED <<status, reserved, revive>>
      BY <3>1
    <3>2. CASE Closing({h.run}, "expired") /\ CancelQuotes({h.run})
      <4>1. /\ status' \in [Runs -> {"unused", "active", "awaiting", "finished", "expired"}]
            /\ reserved' \in [Runs -> BOOLEAN]
        BY <3>2 DEF Closing
      <4>2. revive' \in [Runs -> {None, "pending", "confirmed", "cancelled"}]
        BY <3>2 DEF CancelQuotes
      <4> QED
        BY <4>1, <4>2
    <3> QED
      BY <2>2, <3>1, <3>2 DEF CompleteTermination
  <2>3. CASE ClearReservation(q)
    BY <2>3 DEF ClearReservation
  <2>4. CASE \E r \in Runs : TerminateRun(q, r)
    BY <2>4 DEF TerminateRun
  <2> QED
    BY <2>1, <2>2, <2>3, <2>4
<1>4. NothingTakenBack /\ (\A x \in Runs : RowOK(x))' /\ UnattachedIsRefundable'
  BY <1>1, <1>2, RowsMove
<1>5. /\ request' = [request EXCEPT ![q] = request'[q]]
      /\ request'[q] \in Held /\ Knows(request[q])'
  <2>1. CASE ExpireRun(q) \/ CompleteTermination(q) \/ ClearReservation(q)
    <3>1. request' = [request EXCEPT ![q] = Idle]
      BY <2>1 DEF ExpireRun, CompleteTermination, ClearReservation, Answered, Becomes
    <3>2. request'[q] = Idle
      BY <1>1, <3>1
    <3>3. Knows(request[q])'
      BY <3>2 DEF Knows, Idle
    <3> QED
      BY <3>1, <3>2, <3>3, IdleKnows
  <2>2. CASE \E r \in Runs : TerminateRun(q, r)
    <3>1. PICK r \in Runs : TerminateRun(q, r)
      BY <2>2
    <3>2. PICK only \in {r, "any"}, op \in {"end", "gone"} :
             request' = [request EXCEPT ![q] =
                 [Call("terminate", r, miner[r], only, "cancelled", link[r]) EXCEPT !.op = op]]
      <4>1. PICK only \in {r, "any"} :
               request' = [request EXCEPT ![q] =
                   IF link[r] = None
                   THEN [Call("terminate", r, miner[r], only, "cancelled", link[r]) EXCEPT !.op = "gone"]
                   ELSE Call("terminate", r, miner[r], only, "cancelled", link[r])]
        BY <3>1 DEF TerminateRun, Becomes
      <4> DEFINE c == Call("terminate", r, miner[r], only, "cancelled", link[r])
      <4>2. c = [c EXCEPT !.op = "end"]
        BY DEF Call
      <4> QED
        BY <4>1, <4>2
    <3> DEFINE c == Call("terminate", r, miner[r], only, "cancelled", link[r])
    <3>3. c \in CallHeld
      <4>1. link[r] \in Rows /\ miner[r] \in Miners \union {None} /\ "cancelled" \in Outcomes
        BY <1>1 DEF Rows, PaidInv, PaidTypeOK, TypeOK, Outcomes
      <4> QED
        BY <4>1, CallIsHeld
    <3>4. request'[q] = [c EXCEPT !.op = op]
      BY <1>1, <3>2
    <3>5. request'[q] \in Held
      BY <3>3, <3>4 DEF CallHeld, Held
    <3>6. request'[q].why = "terminate" /\ request'[q].run = r
      BY <3>3, <3>4 DEF Call
    <3> QED
      BY <3>2, <3>4, <3>5, <3>6 DEF Knows
  <2> QED
    BY <2>1, <2>2
<1>6. (\A p \in Requests : Knows(request[p]))' /\ request' \in [Requests -> Held]
  BY <1>4, <1>5, OthersKnow
<1>7. PaidTypeOK'
  BY <1>1, <1>3, <1>6 DEF PaidInv, PaidTypeOK, TypeOK
<1> QED
  BY <1>4, <1>6, <1>7 DEF PaidInv

LEMMA StartRunStep ==
    ASSUME PaidInv, NEW q \in Requests, NEW r \in Runs, NEW m \in Miners,
           NEW c \in Credits, StartRun(q, r, m, c)
    PROVE  PaidInv'
<1> DEFINE g == [why |-> "start", op |-> "release", run |-> r]
<1>1. /\ UNCHANGED <<result, revive, revived, banked, open, chain, pool>>
      /\ status[r] = "unused" /\ credit[c] = "free"
      /\ credit' = [credit EXCEPT ![c] = r]
      /\ link' = [link EXCEPT ![r] = "pending"]
      /\ request' = [request EXCEPT ![q] = g]
      /\ \A x \in Runs : status'[x] = IF x = r THEN "active"
                                      ELSE IF status[x] = "active" THEN "expired"
                                      ELSE status[x]
  BY DEF StartRun, Becomes
<1>2. /\ credit \in [Credits -> {"unbought", "free"} \union Runs]
      /\ link \in [Runs -> Links] /\ request \in [Requests -> Held]
  BY DEF PaidInv, PaidTypeOK, TypeOK, Links
<1>3. /\ status' \in [Runs -> {"unused", "active", "awaiting", "finished", "expired"}]
      /\ reserved' \in [Runs -> BOOLEAN]
      /\ miner' \in [Runs -> Miners \union {None}]
  BY DEF StartRun, PaidInv, PaidTypeOK, TypeOK
<1>4. \A x \in Runs : Paid(x) => Paid(x)'
  BY <1>1, <1>2 DEF Paid
<1>5. Paid(r)'
  BY <1>1, <1>2 DEF Paid
<1>6. NothingTakenBack
  BY <1>1, <1>2, <1>4 DEF NothingTakenBack, Kept, Live, Over
<1>7. ASSUME NEW x \in Runs PROVE RowOK(x)'
  <2>1. RowOK(x) /\ (status[x] = "finished" => status'[x] = "finished")
    BY <1>1 DEF PaidInv
  <2>2. status'[x] = "finished" => status[x] = "finished"
    BY <1>1
  <2>3. link'[x] = "pending" => Paid(x)'
    BY <1>1, <1>2, <1>4, <1>5, <2>1 DEF RowOK
  <2> QED
    BY <1>1, <1>6, <2>1, <2>2, <2>3 DEF RowOK, NothingTakenBack
<1>8. UnattachedIsRefundable'
  BY <1>1, <1>2 DEF PaidInv, UnattachedIsRefundable, Recoverable
<1>9. request'[q] = g /\ request'[q] \in Held /\ Knows(request[q])'
  <2>1. request'[q] = g /\ g \in StartHeld
    BY <1>1, <1>2 DEF StartHeld
  <2> QED
    BY <2>1 DEF Held, Knows
<1>10. (\A p \in Requests : Knows(request[p]))' /\ request' \in [Requests -> Held]
  BY <1>1, <1>6, <1>9, OthersKnow
<1>11. PaidTypeOK'
  BY <1>1, <1>2, <1>3, <1>10 DEF PaidInv, PaidTypeOK, TypeOK, Links
<1> QED
  BY <1>7, <1>8, <1>10, <1>11 DEF PaidInv

LEMMA UndoSteps ==
    ASSUME PaidInv, NEW q \in Requests, Rollback(q) \/ Reconcile(q)
    PROVE  PaidInv'
<1> DEFINE h == request[q]
           r == h.run
<1>1. PICK possible \in BOOLEAN :
         /\ Undone(q, possible)
         /\ possible => link[r] = "pending" \/ (status[r] = "active" /\ link[r] # "attached")
  BY DEF Rollback, Reconcile
<1>2. /\ UNCHANGED <<miner, result, revive, revived, banked, open, chain, pool>>
      /\ request' = [request EXCEPT ![q] = Idle]
  BY <1>1 DEF Undone, Answered, Becomes
<1>3. r \in Runs
  <2>1. h.why \in {"start", "undo"} /\ Knows(h)
    BY DEF Rollback, Reconcile, At, PaidInv
  <2> QED
    BY <2>1 DEF Knows
<1>4. /\ credit \in [Credits -> {"unbought", "free"} \union Runs]
      /\ status \in [Runs -> {"unused", "active", "awaiting", "finished", "expired"}]
      /\ reserved \in [Runs -> BOOLEAN] /\ link \in [Runs -> Links]
      /\ request \in [Requests -> Held]
  BY DEF PaidInv, PaidTypeOK, TypeOK, Links
<1>5. request'[q] = Idle /\ request'[q] \in Held /\ Knows(request[q])'
  <2>1. request'[q] = Idle
    BY <1>2, <1>4
  <2>2. Knows(request[q])'
    BY <2>1 DEF Knows, Idle
  <2> QED
    BY <2>1, <2>2, IdleKnows
<1>6. CASE ~possible
  <2>1. UNCHANGED <<credit, row, chain, pool>>
    BY <1>1, <1>2, <1>6 DEF Undone, row
  <2>2. pool' \subseteq Txs
    BY <2>1, PoolTyped
  <2> QED
    BY <1>2, <1>5, <2>1, <2>2, IdleKnows, GoesOn
<1>7. CASE possible
  <2>1. /\ \A c \in Credits : credit'[c] = IF credit[c] = r THEN "free" ELSE credit[c]
        /\ \A x \in Runs : status'[x] = IF x = r THEN "expired" ELSE status[x]
        /\ link' = [link EXCEPT ![r] = None]
        /\ credit' \in [Credits -> {"unbought", "free"} \union Runs]
        /\ status' \in [Runs -> {"unused", "active", "awaiting", "finished", "expired"}]
        /\ reserved' \in [Runs -> BOOLEAN]
    <3>1. credit' = GivenBack({r}) /\ Closing({r}, "expired") /\ link' = [link EXCEPT ![r] = None]
      BY <1>1, <1>7 DEF Undone
    <3>2. /\ \A c \in Credits : credit'[c] = IF credit[c] = r THEN "free" ELSE credit[c]
          /\ credit' \in [Credits -> {"unbought", "free"} \union Runs]
      BY <1>4, <3>1 DEF GivenBack
    <3>3. /\ \A x \in Runs : status'[x] = IF x = r THEN "expired" ELSE status[x]
          /\ status' \in [Runs -> {"unused", "active", "awaiting", "finished", "expired"}]
          /\ reserved' \in [Runs -> BOOLEAN]
      BY <1>4, <3>1 DEF Closing
    <3> QED
      BY <3>1, <3>2, <3>3
  <2>2. ~Kept(r) /\ RowOK(r)
    BY <1>1, <1>3, <1>7 DEF Kept, Live, Over, PaidInv
  <2>3. \A x \in Runs \ {r} : Paid(x) => Paid(x)'
    BY <2>1 DEF Paid
  <2>4. NothingTakenBack
    BY <1>2, <1>3, <1>4, <2>1, <2>2, <2>3 DEF NothingTakenBack, Kept, Live, Over, RowOK
  <2>5. ASSUME NEW x \in Runs PROVE RowOK(x)'
    <3>1. RowOK(x) /\ ~open[r]
      BY <2>2 DEF PaidInv, RowOK
    <3>2. link'[x] = "pending" => Paid(x)'
      BY <1>3, <1>4, <2>1, <2>3, <3>1 DEF RowOK, None
    <3>3. status'[x] = "finished" => status[x] = "finished"
      BY <2>1
    <3> QED
      BY <1>2, <2>4, <3>1, <3>2, <3>3 DEF RowOK, NothingTakenBack
  <2>6. UnattachedIsRefundable'
    <3> SUFFICES ASSUME NEW c \in Credits, credit'[c] \in Runs
                 PROVE  \/ open'[credit'[c]]
                        \/ link'[credit'[c]] = "attached" /\ chain'[credit'[c]] # None
                        \/ link'[credit'[c]] = "pending"
                           /\ status'[credit'[c]] \in {"active", "awaiting", "expired"}
      BY DEF UnattachedIsRefundable, Recoverable
    <3>1. credit'[c] = credit[c] /\ credit[c] # r
      BY <2>1
    <3> QED
      BY <1>2, <1>4, <2>1, <3>1 DEF PaidInv, UnattachedIsRefundable, Recoverable
  <2>7. (\A p \in Requests : Knows(request[p]))' /\ request' \in [Requests -> Held]
    BY <1>2, <1>5, <2>4, OthersKnow
  <2>8. PaidTypeOK'
    BY <1>2, <1>3, <1>4, <2>1, <2>7 DEF PaidInv, PaidTypeOK, TypeOK, Links
  <2> QED
    BY <2>5, <2>6, <2>7, <2>8 DEF PaidInv
<1> QED
  BY <1>6, <1>7

LEMMA AttachStep ==
    ASSUME PaidInv, NEW q \in Requests, Attach(q)
    PROVE  PaidInv'
<1> DEFINE h == request[q]
           r == h.run
           g == [h EXCEPT !.op = "register"]
<1>1. /\ UNCHANGED <<credit, status, miner, result, reserved, revive, revived, banked,
                     open, chain, pool>>
      /\ h.why = "start" /\ h.op = "attach" /\ status[r] = "active" /\ link[r] = "pending"
      /\ link' = [link EXCEPT ![r] = "attached"]
      /\ request' = [request EXCEPT ![q] = g]
  BY DEF Attach, At, Goes, Becomes
<1>2. /\ h \in Held /\ Knows(h) /\ request \in [Requests -> Held] /\ link \in [Runs -> Links]
  BY DEF PaidInv, PaidTypeOK, TypeOK, Links
<1>3. h \in StartHeld /\ r \in Runs /\ chain[r] # None
  <2>1. h \in StartHeld
    BY <1>1, <1>2, HeldStart
  <2> QED
    BY <1>1, <1>2, <2>1 DEF StartHeld, Knows
<1>4. \A x \in Runs : RowOK(x) /\ (Paid(x)' <=> Paid(x))
  BY <1>1 DEF PaidInv, Paid
<1>5. NothingTakenBack
  BY <1>1, <1>2, <1>3, <1>4 DEF NothingTakenBack, Kept, Live, Over
<1>6. (\A x \in Runs : RowOK(x))'
  BY <1>1, <1>2, <1>4, <1>5 DEF RowOK, NothingTakenBack
<1>7. UnattachedIsRefundable'
  BY <1>1, <1>2, <1>3 DEF PaidInv, UnattachedIsRefundable, Recoverable
<1>8. \A x \in Runs : x = r => Kept(x)'
  BY <1>1, <1>2, <1>3, <1>4 DEF RowOK, Kept, Paid, Live, Over
<1>9. request'[q] = g /\ request'[q] \in Held /\ Knows(request[q])'
  <2>1. request'[q] = g /\ g \in StartHeld /\ g.why = "start" /\ g.op = "register" /\ g.run = r
    BY <1>1, <1>2, <1>3 DEF StartHeld
  <2>2. Knows(request[q])'
    BY <1>3, <1>8, <2>1 DEF Knows
  <2> QED
    BY <2>1, <2>2 DEF Held
<1>10. (\A p \in Requests : Knows(request[p]))' /\ request' \in [Requests -> Held]
  BY <1>1, <1>5, <1>9, OthersKnow
<1>11. PaidTypeOK'
  BY <1>1, <1>2, <1>10 DEF PaidInv, PaidTypeOK, TypeOK, Links
<1> QED
  BY <1>6, <1>7, <1>10, <1>11 DEF PaidInv

LEMMA RegisterStep ==
    ASSUME PaidInv, NEW q \in Requests, Register(q)
    PROVE  PaidInv'
<1> DEFINE h == request[q]
           r == h.run
<1>1. /\ UNCHANGED <<credit, status, miner, result, reserved, link, revive, revived,
                     banked, chain, pool>>
      /\ h.why = "start" /\ h.op = "register"
      /\ open' = [open EXCEPT ![r] = TRUE]
      /\ request' = [request EXCEPT ![q] = Idle]
  BY DEF Register, At, Answered, Becomes
<1>2. r \in Runs /\ Kept(r)
  BY <1>1 DEF PaidInv, Knows
<1>3. \A x \in Runs : RowOK(x) /\ (Kept(x)' <=> Kept(x)) /\ (Paid(x)' <=> Paid(x))
  BY <1>1 DEF PaidInv, Kept, Paid, Live, Over
<1>4. open \in [Runs -> BOOLEAN] /\ request \in [Requests -> Held]
  BY DEF PaidInv, PaidTypeOK, TypeOK
<1>5. NothingTakenBack
  BY <1>1, <1>2, <1>3, <1>4 DEF NothingTakenBack
<1>6. (\A x \in Runs : RowOK(x))'
  BY <1>1, <1>2, <1>3, <1>4 DEF RowOK
<1>7. UnattachedIsRefundable'
  BY <1>1 DEF PaidInv, UnattachedIsRefundable, Recoverable
<1>8. request'[q] = Idle /\ Knows(request[q])'
  <2>1. request'[q] = Idle
    BY <1>1, <1>4
  <2> QED
    BY <2>1 DEF Knows, Idle
<1>9. (\A p \in Requests : Knows(request[p]))' /\ request' \in [Requests -> Held]
  BY <1>1, <1>5, <1>8, IdleKnows, OthersKnow
<1>10. PaidTypeOK'
  BY <1>1, <1>4, <1>9 DEF PaidInv, PaidTypeOK, TypeOK
<1> QED
  BY <1>6, <1>7, <1>9, <1>10 DEF PaidInv

LEMMA ScoreStep ==
    ASSUME PaidInv, NEW q \in Requests, ScoreRun(q)
    PROVE  PaidInv'
<1> DEFINE h == request[q]
           r == h.run
           first == status[r] = "active" /\ ~reserved[r]
           to == IF first THEN h.to ELSE result[r]
           call == Call("finish", r, miner[r], r, to, {})
<1>1. h \in ScoreHeld /\ h.why = "finish" /\ open[r] /\ r \in Runs /\ h.to \in {"extracted", "died"}
  <2>1. h \in Held /\ h.op = "score" /\ h.why = "finish" /\ Knows(h)
    BY DEF ScoreRun, At, PaidInv, PaidTypeOK
  <2>2. h \in ScoreHeld
    BY <2>1, HeldScore
  <2> QED
    BY <2>1, <2>2 DEF Knows, ScoreHeld
<1>2. /\ status \in [Runs -> {"unused", "active", "awaiting", "finished", "expired"}]
      /\ result \in [Runs -> {None, "extracted", "died"}]
      /\ reserved \in [Runs -> BOOLEAN] /\ miner \in [Runs -> Miners \union {None}]
      /\ request \in [Requests -> Held]
  BY DEF PaidInv, PaidTypeOK, TypeOK
<1>3. to \in {"extracted", "died"}
  <2>1. first \/ status[r] = "finished"
    BY DEF ScoreRun
  <2> QED
    BY <1>1, <2>1 DEF PaidInv, RowOK
<1>4. /\ UNCHANGED <<credit, miner, link, revive, revived, banked, open, chain, pool>>
      /\ result' = [result EXCEPT ![r] = to]
      /\ request' = [request EXCEPT ![q] = call] \/ request' = [request EXCEPT ![q] = Idle]
  BY DEF ScoreRun, Answered, Becomes
<1>5. /\ \A x \in Runs : status'[x] = IF x = r THEN "finished" ELSE status[x]
      /\ status' \in [Runs -> {"unused", "active", "awaiting", "finished", "expired"}]
      /\ reserved' \in [Runs -> BOOLEAN]
  <2>1. CASE first
    BY <1>2, <2>1 DEF ScoreRun, Closing
  <2>2. CASE ~first
    BY <1>2, <2>2 DEF ScoreRun
  <2> QED
    BY <2>1, <2>2
<1>6. \A x \in Runs : RowOK(x) /\ (Paid(x)' <=> Paid(x))
  BY <1>4 DEF PaidInv, Paid
<1>7. Kept(r)
  BY <1>1, <1>6 DEF RowOK
<1>8. \A x \in Runs : Kept(x) => Kept(x)'
  BY <1>4, <1>5, <1>6 DEF Kept, Live, Over
<1>9. NothingTakenBack
  BY <1>4, <1>5, <1>8 DEF NothingTakenBack
<1>10. ASSUME NEW x \in Runs PROVE RowOK(x)'
  <2>1. status'[x] = "finished" => open[x] /\ result'[x] \in {"extracted", "died"}
    BY <1>1, <1>2, <1>3, <1>4, <1>5, <1>6 DEF RowOK
  <2> QED
    BY <1>4, <1>6, <1>8, <2>1 DEF RowOK
<1>11. UnattachedIsRefundable'
  BY <1>4, <1>5, <1>7 DEF PaidInv, UnattachedIsRefundable, Recoverable, Kept
<1>12. /\ request' = [request EXCEPT ![q] = request'[q]]
       /\ request'[q] \in Held /\ Knows(request[q])'
  <2>1. CASE request' = [request EXCEPT ![q] = Idle]
    <3>1. request'[q] = Idle
      BY <1>2, <2>1
    <3>2. Knows(request[q])'
      BY <3>1 DEF Knows, Idle
    <3> QED
      BY <2>1, <3>1, <3>2, IdleKnows
  <2>2. CASE request' = [request EXCEPT ![q] = call]
    <3>1. call \in CallHeld
      <4>1. to \in Outcomes /\ {} \in Rows
        BY <1>3 DEF Outcomes, Rows
      <4> QED
        BY <1>1, <1>2, <4>1, CallIsHeld
    <3>2. request'[q] = call
      BY <1>2, <2>2
    <3>3. call.why = "finish" /\ call.op = "end" /\ call.run = r /\ call.only = r
      BY DEF Call
    <3>4. Knows(request[q])'
      <4>1. status'[r] = "finished" /\ open'[r] /\ r \in Runs
        BY <1>1, <1>4, <1>5
      <4>2. PICK c : c = request'[q]
        OBVIOUS
      <4>3. c.why = "finish" /\ c.op = "end" /\ c.run = r /\ c.only = r
        BY <3>2, <3>3, <4>2
      <4> HIDE DEF call, to, first, r, h
      <4> QED
        BY <4>1, <4>2, <4>3 DEF Knows
    <3> QED
      BY <2>2, <3>1, <3>2, <3>4 DEF Held
  <2> QED
    BY <1>4, <2>1, <2>2
<1>13. (\A p \in Requests : Knows(request[p]))' /\ request' \in [Requests -> Held]
  BY <1>9, <1>12, OthersKnow
<1>14. PaidTypeOK'
  <2>1. result' \in [Runs -> {None, "extracted", "died"}]
    BY <1>2, <1>3, <1>4
  <2> QED
    BY <1>4, <1>5, <1>13, <2>1 DEF PaidInv, PaidTypeOK, TypeOK
<1> QED
  BY <1>10, <1>11, <1>13, <1>14 DEF PaidInv

LEMMA RecordStep ==
    ASSUME PaidInv, NEW q \in Requests, RecordBank(q)
    PROVE  PaidInv'
<1> DEFINE h == request[q]
           r == h.run
<1>1. /\ UNCHANGED <<credit, status, miner, result, reserved, revive, revived, open,
                     chain, pool>>
      /\ h.why = "finish" /\ h.op = "ended"
      /\ banked' = [banked EXCEPT ![r] = IF banked[r] = None THEN h.to ELSE banked[r]]
      /\ link' = [link EXCEPT ![r] = None]
      /\ request' = [request EXCEPT ![q] = Idle]
  BY DEF RecordBank, Reported, Answered, Becomes
<1>2. /\ h \in CallHeld /\ r \in Runs /\ open[r] /\ status[r] = "finished" /\ chain[r] = h.to
      /\ h.to \in Outcomes
  <2>1. h \in CallHeld /\ Knows(h)
    BY <1>1, HeldCall DEF PaidInv, PaidTypeOK
  <2> QED
    BY <1>1, <2>1 DEF CallHeld, Knows
<1>3. /\ link \in [Runs -> Links] /\ request \in [Requests -> Held]
      /\ banked \in [Runs -> Outcomes \union {None}]
  BY DEF PaidInv, PaidTypeOK, TypeOK, Links
<1>4. \A x \in Runs : RowOK(x) /\ (Paid(x)' <=> Paid(x))
  BY <1>1 DEF PaidInv, Paid
<1>5. \A x \in Runs : Kept(x) => Kept(x)'
  BY <1>1, <1>2, <1>3, <1>4 DEF Kept, Live, Over, None
<1>6. NothingTakenBack
  BY <1>1, <1>5 DEF NothingTakenBack
<1>7. ASSUME NEW x \in Runs PROVE RowOK(x)'
  <2>1. banked'[x] # None => banked'[x] = chain[x]
    BY <1>1, <1>2, <1>3, <1>4 DEF RowOK
  <2>2. link'[x] = "pending" => link[x] = "pending"
    BY <1>1, <1>3 DEF None
  <2> QED
    BY <1>1, <1>4, <1>5, <2>1, <2>2 DEF RowOK
<1>8. UnattachedIsRefundable'
  BY <1>1, <1>2, <1>3 DEF PaidInv, UnattachedIsRefundable, Recoverable
<1>9. request'[q] = Idle /\ Knows(request[q])'
  <2>1. request'[q] = Idle
    BY <1>1, <1>3
  <2> QED
    BY <2>1 DEF Knows, Idle
<1>10. (\A p \in Requests : Knows(request[p]))' /\ request' \in [Requests -> Held]
  BY <1>1, <1>6, <1>9, IdleKnows, OthersKnow
<1>11. PaidTypeOK'
  BY <1>1, <1>2, <1>3, <1>10 DEF PaidInv, PaidTypeOK, TypeOK, Links
<1> QED
  BY <1>7, <1>8, <1>10, <1>11 DEF PaidInv

\* A recovery gives a credit back exactly for the rows it takes the start from:
\* those that are pending now and were pending when it read them.
LEMMA RecoverStep ==
    ASSUME PaidInv, NEW q \in Requests, RecoverRows(q)
    PROVE  PaidInv'
<1> DEFINE rows == Reconciled(q)
<1>1. /\ UNCHANGED <<miner, result, revived, banked, open, chain, pool>>
      /\ request' = [request EXCEPT ![q] = Idle]
      /\ credit' = GivenBack(Refunded(q))
      /\ link' = [r \in Runs |-> IF r \in rows /\ link[r] = "pending" THEN None ELSE link[r]]
      /\ CancelQuotes(rows) /\ Closing(rows, "expired")
  BY DEF RecoverRows, Answered, Becomes
<1>2. \A r \in rows : r \in Runs => Recoverable(r)
  BY DEF Reconciled
<1>3. \A r \in Runs : r \in Refunded(q) <=> r \in rows /\ link[r] = "pending"
  BY DEF Refunded, Reconciled
<1>4. /\ credit \in [Credits -> {"unbought", "free"} \union Runs]
      /\ status \in [Runs -> {"unused", "active", "awaiting", "finished", "expired"}]
      /\ reserved \in [Runs -> BOOLEAN] /\ link \in [Runs -> Links]
      /\ revive \in [Runs -> {None, "pending", "confirmed", "cancelled"}]
      /\ request \in [Requests -> Held]
  BY DEF PaidInv, PaidTypeOK, TypeOK, Links
<1>5. /\ \A c \in Credits : credit'[c] = IF credit[c] \in Refunded(q) THEN "free" ELSE credit[c]
      /\ credit' \in [Credits -> {"unbought", "free"} \union Runs]
  BY <1>1, <1>4 DEF GivenBack
<1>6. /\ \A r \in Runs : status'[r] = IF r \in rows THEN "expired" ELSE status[r]
      /\ status' \in [Runs -> {"unused", "active", "awaiting", "finished", "expired"}]
      /\ reserved' \in [Runs -> BOOLEAN]
  BY <1>1, <1>4 DEF Closing
<1>7. revive' \in [Runs -> {None, "pending", "confirmed", "cancelled"}]
  BY <1>1, <1>4 DEF CancelQuotes
<1>8. /\ \A r \in Runs : link'[r] = IF r \in rows /\ link[r] = "pending" THEN None ELSE link[r]
      /\ link' \in [Runs -> Links]
  BY <1>1, <1>4 DEF Links
<1>9. \A r \in Runs : RowOK(r) /\ (link[r] # "pending" /\ Paid(r) => Paid(r)')
  BY <1>3, <1>5 DEF PaidInv, Paid
<1>10. \A r \in Runs : Kept(r) => Kept(r)'
  BY <1>1, <1>2, <1>4, <1>6, <1>8, <1>9 DEF Kept, Live, Over, Recoverable
<1>11. NothingTakenBack
  BY <1>1, <1>2, <1>6, <1>10 DEF NothingTakenBack, Recoverable
<1>12. ASSUME NEW r \in Runs PROVE RowOK(r)'
  <2>1. link'[r] = "pending" => Paid(r)'
    <3> SUFFICES ASSUME link'[r] = "pending" PROVE Paid(r)'
      OBVIOUS
    <3>1. link[r] = "pending" /\ r \notin rows /\ Paid(r)
      BY <1>8, <1>9 DEF None, RowOK
    <3> QED
      BY <1>3, <1>5, <3>1 DEF Paid
  <2>2. status'[r] = "finished" => status[r] = "finished"
    BY <1>6
  <2> QED
    BY <1>1, <1>9, <1>10, <2>1, <2>2 DEF RowOK
<1>13. UnattachedIsRefundable'
  <2> SUFFICES ASSUME NEW c \in Credits, credit'[c] \in Runs
               PROVE  \/ open'[credit'[c]]
                      \/ link'[credit'[c]] = "attached" /\ chain'[credit'[c]] # None
                      \/ link'[credit'[c]] = "pending"
                         /\ status'[credit'[c]] \in {"active", "awaiting", "expired"}
    BY DEF UnattachedIsRefundable, Recoverable
  <2>1. credit'[c] = credit[c] /\ credit[c] \notin Refunded(q)
    BY <1>5
  <2> QED
    BY <1>1, <1>3, <1>6, <1>8, <2>1 DEF PaidInv, UnattachedIsRefundable, Recoverable
<1>14. request'[q] = Idle /\ Knows(request[q])'
  <2>1. request'[q] = Idle
    BY <1>1, <1>4
  <2> QED
    BY <2>1 DEF Knows, Idle
<1>15. (\A p \in Requests : Knows(request[p]))' /\ request' \in [Requests -> Held]
  BY <1>1, <1>11, <1>14, IdleKnows, OthersKnow
<1>16. PaidTypeOK'
  BY <1>1, <1>5, <1>6, <1>7, <1>8, <1>15 DEF PaidInv, PaidTypeOK, TypeOK, Links
<1> QED
  BY <1>12, <1>13, <1>15, <1>16 DEF PaidInv

-----------------------------------------------------------------------------
(* The theorems.                                                            *)

LEMMA PaidInitial == Init => PaidInv
<1> SUFFICES ASSUME Init PROVE PaidInv
  OBVIOUS
<1>1. PaidTypeOK
  BY IdleKnows DEF Init, PaidTypeOK, TypeOK
<1>2. \A q \in Requests : Knows(request[q])
  BY IdleKnows DEF Init
<1>3. (\A r \in Runs : RowOK(r)) /\ UnattachedIsRefundable
  BY DEF Init, RowOK, UnattachedIsRefundable, None
<1> QED
  BY <1>1, <1>2, <1>3 DEF PaidInv

LEMMA PaidStep == PaidInv /\ [Next]_vars => PaidInv'
<1> SUFFICES ASSUME PaidInv, [Next]_vars PROVE PaidInv'
  OBVIOUS
<1>1. CASE UNCHANGED vars
  <2>1. PaidTypeOK'
    BY <1>1 DEF PaidInv, PaidTypeOK, TypeOK, vars, row
  <2>2. (\A r \in Runs : RowOK(r))' /\ UnattachedIsRefundable'
    BY <1>1 DEF PaidInv, RowOK, Kept, Paid, Live, Over, UnattachedIsRefundable, Recoverable, vars, row
  <2>3. (\A q \in Requests : Knows(request[q]))'
    BY <1>1 DEF PaidInv, Knows, Kept, Paid, Live, Over, vars, row
  <2> QED
    BY <2>1, <2>2, <2>3 DEF PaidInv
<1>2. CASE \E t \in pool : Mine(t) \/ DropTransaction(t)
  BY <1>2, MineStep, PlainSteps
<1>3. CASE \E c \in Credits : BuyCredit(c)
  BY <1>3, PlainSteps
<1>4. CASE \E q \in Requests, r \in Runs, m \in Miners, c \in Credits : StartRun(q, r, m, c)
  BY <1>4, StartRunStep
<1>5. CASE \E r \in Runs : RequestRevive(r) \/ ConfirmRevive(r) \/ CancelRevive(r)
  BY <1>5, ReviveSteps
<1>6. CASE \E q \in Requests, r \in Runs, to \in {"extracted", "died"} : FinishRun(q, r, to)
  BY <1>6, AnswerSteps
<1>7. CASE \E q \in Requests, r \in Runs : AbandonRun(q, r) \/ TerminateRun(q, r)
  BY <1>7, CallSteps, ExpirySteps
<1>8. CASE \E q \in Requests, m \in Miners : RecoverMiner(q, m)
  BY <1>8, CallSteps
<1>9. CASE \E q \in Requests : Continue(q)
  <2>1. PICK q \in Requests : Continue(q)
    BY <1>9
  <2>2. CASE SendEnd(q) \/ NothingToEnd(q) \/ EndConfirmed(q) \/ EndFails(q)
    BY <2>2, EndSteps
  <2>3. CASE NothingSent(q) \/ SendBegin(q) \/ Begun(q) \/ NotStarted(q) \/ BeginUncertain(q)
    BY <2>3, StartSteps
  <2>4. CASE ReadStale(q) \/ StaleReleased(q) \/ AttachFails(q) \/ RegisterFails(q)
    BY <2>4, CallSteps
  <2>5. CASE ScoreRefused(q) \/ GiveUp(q) \/ Released(q)
    BY <2>5, AnswerSteps
  <2>6. CASE ExpireRun(q) \/ CompleteTermination(q) \/ ClearReservation(q)
    BY <2>6, ExpirySteps
  <2>7. CASE Rollback(q) \/ Reconcile(q)
    BY <2>7, UndoSteps
  <2>8. CASE Attach(q) \/ Register(q)
    BY <2>8, AttachStep, RegisterStep
  <2>9. CASE ScoreRun(q) \/ RecordBank(q) \/ RecoverRows(q)
    BY <2>9, ScoreStep, RecordStep, RecoverStep
  <2> QED
    BY <2>1, <2>2, <2>3, <2>4, <2>5, <2>6, <2>7, <2>8, <2>9 DEF Continue
<1>10. CASE Restart
  BY <1>10, RestartStep
<1> QED
  BY <1>1, <1>2, <1>3, <1>4, <1>5, <1>6, <1>7, <1>8, <1>9, <1>10 DEF Next

\* The invariant holds of every instance.
THEOREM PaidInvariant == Spec => []PaidInv
<1> QED
  BY PaidInitial, PaidStep, PTL DEF Spec

\* Every variable keeps its type, the handlers' included.
THEOREM PaidTypeCorrect == Spec => []TypeOK
<1>1. PaidInv => TypeOK
  BY DEF PaidInv, PaidTypeOK
<1> QED
  BY <1>1, PaidInvariant, PTL

\* Until its row is attached to a run that Ronin has, a start keeps a row from
\* which a recovery gives the credit back, whichever handlers come first, are
\* lost, or are undone twice.  (It says nothing of an attached row.)
THEOREM RefundUntilAttached == Spec => []UnattachedIsRefundable
<1>1. PaidInv => UnattachedIsRefundable
  BY DEF PaidInv
<1> QED
  BY <1>1, PaidInvariant, PTL

\* A run that the browser was given stays paid for.
THEOREM PlayIsPaid == Spec => []PlayedRunIsPaid
<1>1. PaidInv => PlayedRunIsPaid
  BY DEF PaidInv, RowOK, Kept, Paid, PlayedRunIsPaid
<1> QED
  BY <1>1, PaidInvariant, PTL

\* The wallet's Crystal ledger shows only what Ronin has paid out.
THEOREM LedgerIsRonins == Spec => []LedgerMatchesRonin
<1>1. PaidInv => LedgerMatchesRonin
  BY DEF PaidInv, RowOK, LedgerMatchesRonin
<1> QED
  BY <1>1, PaidInvariant, PTL

\* A run that is over stays as it ended.
THEOREM EndIsFinal == Spec => OverIsFinal
<1> DEFINE Ends == \A r \in Runs : Over(r) => status'[r] = status[r] /\ result'[r] = result[r]
<1>1. PaidInv /\ [Next]_vars => [Ends]_vars
  <2> SUFFICES ASSUME PaidInv, Next, NEW r \in Runs, Over(r)
               PROVE  status'[r] = status[r] /\ result'[r] = result[r]
    BY DEF vars
  <2>1. /\ RowOK(r) /\ status \in [Runs -> {"unused", "active", "awaiting", "finished", "expired"}]
        /\ result \in [Runs -> {None, "extracted", "died"}]
    BY DEF PaidInv, PaidTypeOK, TypeOK
  <2>2. CASE \/ \E t \in pool : Mine(t) \/ DropTransaction(t)
             \/ \E c \in Credits : BuyCredit(c)
             \/ \E q \in Requests, x \in Runs, to \in {"extracted", "died"} : FinishRun(q, x, to)
             \/ \E q \in Requests, m \in Miners : RecoverMiner(q, m)
             \/ Restart
    BY <2>2 DEF Mine, DropTransaction, BuyCredit, FinishRun, RecoverMiner, Restart, row
  <2>3. CASE \E q \in Requests, x \in Runs, m \in Miners, c \in Credits : StartRun(q, x, m, c)
    BY <2>3 DEF StartRun, Over
  <2>4. CASE \E x \in Runs : RequestRevive(x) \/ ConfirmRevive(x) \/ CancelRevive(x)
    BY <2>1, <2>4 DEF RequestRevive, ConfirmRevive, CancelRevive, Revivable, Over
  <2>5. CASE \E q \in Requests, x \in Runs : AbandonRun(q, x) \/ TerminateRun(q, x)
    BY <2>5 DEF AbandonRun, TerminateRun, row
  <2>6. CASE \E q \in Requests : Continue(q)
    <3>1. PICK q \in Requests : Continue(q)
      BY <2>6
    <3>2. CASE UNCHANGED <<status, result>>
      BY <3>2
    <3>3. CASE ExpireRun(q) \/ CompleteTermination(q)
      BY <3>3 DEF ExpireRun, CompleteTermination, Closing, Over, Live
    <3>4. CASE Rollback(q)
      BY <3>4 DEF Rollback, Undone, Closing, Over
    <3>5. CASE Reconcile(q)
      <4>1. link[r] = "pending" => status[r] = "expired"
        BY <2>1 DEF RowOK, Kept, Live, Over
      <4> QED
        BY <3>5, <4>1 DEF Reconcile, Undone, Closing, Over
    <3>6. CASE ScoreRun(q)
      BY <2>1, <3>6 DEF ScoreRun, Closing, Over
    <3>7. CASE RecoverRows(q)
      BY <3>7 DEF RecoverRows, Closing, Reconciled, Recoverable, Over
    <3> QED
      BY <3>1, <3>2, <3>3, <3>4, <3>5, <3>6, <3>7
      DEF Continue, SendEnd, NothingToEnd, EndConfirmed, EndFails, ReadStale,
          StaleReleased, NothingSent, SendBegin, Begun, NotStarted, BeginUncertain,
          Attach, AttachFails, Register, RegisterFails, ScoreRefused, RecordBank, GiveUp,
          Released, ClearReservation, row
  <2> QED
    BY <2>2, <2>3, <2>4, <2>5, <2>6 DEF Next
<1> QED
  BY <1>1, PaidInvariant, PTL DEF Spec, OverIsFinal
=============================================================================

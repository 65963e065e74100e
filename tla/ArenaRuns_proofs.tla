--------------------------- MODULE ArenaRuns_proofs ---------------------------
(***************************************************************************)
(* ArenaRuns for every number of wallets, payments, runs and handlers: an   *)
(* entry buys one attempt, the best score stands, an administrator's        *)
(* termination releases the Miner and is not overtaken, transcripts grow.   *)
(*                                                                          *)
(* The rows alone are not inductive.  What a handler still holds has to     *)
(* agree with them (a start that is about to attach its run has its Miner   *)
(* on Ronin, a termination that is about to expire its run has freed it),   *)
(* and so has the order of things on Ronin: a transaction that can still be *)
(* mined leaves no other run of the wallet active.                          *)
(*                                                                          *)
(* ArenaRuns assumes that a start and a termination are never inside their  *)
(* lock together.  The last part proves that of NftLifecycleLock, for any   *)
(* number of processes, requests and faults.                                *)
(***************************************************************************)
EXTENDS ArenaRuns, NftLifecycleLock, FiniteSetTheorems, SequenceTheorems, WellFoundedInduction, TLAPS

USE ArenaRunsConstants DEF NoRun

Begun == {"begin", "await", "attach", "rollback"}

\* What a handler can hold.
StartHeld   == [op : {"start"}, run : Runs, entry : Payments, expires : 0..DayEnd]
BegunHeld   == [op : Begun, run : Runs]
SeenHeld    == [op : {"append", "finish"}, run : Runs, seen : 0..MaxSeq]
SettleHeld  == [op : {"settle"}, run : Runs]
AbandonHeld == [op : {"abandon", "expire"}, run : Runs, known : BOOLEAN, token : BOOLEAN]
EndHeld     == [op : Terminating, run : Runs, known : BOOLEAN]

Held ==
    {Idle} \union StartHeld \union BegunHeld \union SeenHeld \union SettleHeld
           \union AbandonHeld \union EndHeld

\* Ronin has begun the run.
Has(r) == chain[r] \in {"active", "settled", "died"}

\* Ronin does not hold the Miner for the run, and cannot come to.
Free(r) == chain[r] \notin {"sent", "active"}

\* What a handler knows across the steps of the others.
Knows(h) ==
    /\ h.op \notin {"idle", "start"} => status[h.run] # "none"
    /\ h.op = "start" => status[h.run] = "none" /\ h.entry \in confirmed
    /\ h.op \in Begun => ~terminating[h.run] /\ h.run \notin ended
    /\ h.op = "begin" => chain[h.run] = "none"
    /\ h.op = "attach" => Has(h.run)
    /\ h.op = "append" => h.seen < MaxSeq
    /\ h.op = "finish" => h.seen <= Len(events[h.run])
    /\ h.op = "terminate" /\ h.known => attached[h.run]
    /\ h.op = "complete" => Free(h.run)

\* Starts are of different runs, and none goes on beside a termination.
Apart ==
    /\ \A p, q \in Requests :
          /\ request[p].op \in Starting /\ request[q].op \in Starting
          /\ request[p].run = request[q].run
          => p = q
    /\ \A p, q \in Requests : request[p].op \in Starting => request[q].op \notin Terminating

HandlersInv ==
    /\ request \in [Requests -> Held]
    /\ \A q \in Requests : Knows(request[q])
    /\ Apart

RowOK(r) ==
    /\ status[r] = "none" =>
          ~attached[r] /\ ~terminating[r] /\ r \notin ended /\ chain[r] = "none"
    /\ status[r] # "none" => entry[r] \in confirmed
    /\ status[r] \in {"active", "finished"} => usedBy[entry[r]] = r
    /\ attached[r] => Has(r)
    /\ r \in ended => Free(r)
    /\ score[r] <= Len(events[r])

\* Two rows of one wallet.
PairOK(r, x) ==
    status[r] # "none" /\ status[x] # "none" /\ Payer[entry[r]] = Payer[entry[x]] =>
        /\ Active(r) /\ Active(x) => r = x
        /\ chain[r] = "active" /\ chain[x] = "active" => r = x
        /\ chain[r] = "sent" => chain[x] # "active"

Scored(r, w) == status[r] = "finished" /\ Payer[entry[r]] = w

BestOK(w) ==
    /\ best[w] # NoRun => Scored(best[w], w)
    /\ \A r \in Runs : Scored(r, w) => best[w] # NoRun /\ score[r] <= score[best[w]]

RowsInv ==
    /\ TypeOK
    /\ \A r \in Runs : RowOK(r)
    /\ \A r, x \in Runs : PairOK(r, x)
    /\ \A w \in Wallets : BestOK(w)

ArenaInv == RowsInv /\ HandlersInv

\* What the handler of p held before a step, it may rely on after it.
Stable(p) == \A h \in Held : h = request[p] => Knows(h)'

-----------------------------------------------------------------------------
(* What the handlers hold.                                                  *)

LEMMA HeldByOp ==
    ASSUME NEW h \in Held
    PROVE  /\ h.op = "start" => h \in StartHeld
           /\ h.op \in Begun => h \in BegunHeld
           /\ h.op \in {"append", "finish"} => h \in SeenHeld
           /\ h.op = "settle" => h \in SettleHeld
           /\ h.op \in {"abandon", "expire"} => h \in AbandonHeld
           /\ h.op \in Terminating => h \in EndHeld
           /\ h.op # "idle" => h.run \in Runs
BY DEF Held, Idle, StartHeld, BegunHeld, SeenHeld, SettleHeld, AbandonHeld, EndHeld,
       Begun, Terminating

LEMMA IdleIsHeld == Idle \in Held /\ Knows(Idle) /\ Knows(Idle)'
BY DEF Idle, Held, Knows, Begun

\* A handler takes hold of something.
LEMMA HandlerTakes ==
    ASSUME HandlersInv, NEW q \in Requests, NEW g \in Held, Knows(g)',
           request' = [request EXCEPT ![q] = g],
           \A p \in Requests \ {q} : Stable(p),
           \A p \in Requests \ {q} :
              /\ g.op \in Starting =>
                    /\ request[p].op \in Starting => request[p].run # g.run
                    /\ request[p].op \notin Terminating
              /\ g.op \in Terminating => request[p].op \notin Starting
    PROVE  HandlersInv'
<1>1. request' \in [Requests -> Held] /\ request'[q] = g
      /\ \A p \in Requests \ {q} : request'[p] = request[p]
  BY DEF HandlersInv
<1>2. \A p \in Requests : Knows(request[p])'
  <2> SUFFICES ASSUME NEW p \in Requests PROVE Knows(request[p])'
    OBVIOUS
  <2>1. CASE p = q
    BY <1>1, <2>1 DEF Knows, Has, Free
  <2>2. CASE p # q
    <3>1. request'[p] \in Held /\ request'[p] = request[p]
      BY <1>1, <2>2 DEF HandlersInv
    <3>2. PICK h \in Held : h = request[p] /\ h = request'[p]
      BY <3>1
    <3>3. Knows(h)'
      BY <2>2, <3>2 DEF Stable
    <3> QED
      BY <3>2, <3>3 DEF Knows, Has, Free
  <2> QED
    BY <2>1, <2>2
<1>3. Apart'
  BY <1>1 DEF HandlersInv, Apart, Starting, Terminating
<1> QED
  BY <1>1, <1>2, <1>3 DEF HandlersInv

\* A handler goes from one thing it holds to the next.
LEMMA HandlerStep ==
    ASSUME HandlersInv, NEW q \in Requests, NEW g \in Held, Knows(g)',
           request' = [request EXCEPT ![q] = g],
           \A p \in Requests \ {q} : Stable(p),
           g.op \in Starting => request[q].op \in Starting /\ g.run = request[q].run,
           g.op \in Terminating => request[q].op \in Terminating
    PROVE  HandlersInv'
<1>1. \A p \in Requests \ {q} :
         /\ g.op \in Starting =>
               /\ request[p].op \in Starting => request[p].run # g.run
               /\ request[p].op \notin Terminating
         /\ g.op \in Terminating => request[p].op \notin Starting
  BY DEF HandlersInv, Apart
<1> QED
  BY <1>1, HandlerTakes

LEMMA HandlersStay ==
    ASSUME HandlersInv, request' = request, \A p \in Requests : Stable(p)
    PROVE  HandlersInv'
<1>1. \A p \in Requests : Knows(request[p])'
  <2> SUFFICES ASSUME NEW p \in Requests PROVE Knows(request[p])'
    OBVIOUS
  <2>1. PICK h \in Held : h = request[p] /\ h = request'[p]
    BY DEF HandlersInv
  <2>2. Knows(h)'
    BY <2>1 DEF Stable
  <2> QED
    BY <2>1, <2>2 DEF Knows, Has, Free
<1> QED
  BY <1>1 DEF HandlersInv, Apart

-----------------------------------------------------------------------------
(* The steps that only a handler notices.                                   *)

LEMMA QuietRows ==
    ASSUME RowsInv, UNCHANGED <<now, entries, run, results, chain>>
    PROVE  RowsInv'
<1>1. TypeOK'
  BY DEF RowsInv, TypeOK, entries, run, results
<1>2. (\A r \in Runs : RowOK(r))'
  BY DEF RowsInv, RowOK, Has, Free, entries, run, results
<1>3. (\A r, x \in Runs : PairOK(r, x))'
  BY DEF RowsInv, PairOK, Active, run
<1>4. (\A w \in Wallets : BestOK(w))'
  BY DEF RowsInv, BestOK, Scored, run, results
<1> QED
  BY <1>1, <1>2, <1>3, <1>4 DEF RowsInv

LEMMA QuietStep ==
    ASSUME ArenaInv, NEW q \in Requests, NEW g \in Held, Knows(g),
           UNCHANGED <<now, entries, run, results, chain>>,
           request' = [request EXCEPT ![q] = g],
           g.op \in Starting => request[q].op \in Starting /\ g.run = request[q].run,
           g.op \in Terminating => request[q].op \in Terminating
    PROVE  ArenaInv'
<1>1. RowsInv'
  BY QuietRows DEF ArenaInv
<1>2. \A h \in Held : Knows(h) => Knows(h)'
  BY DEF Knows, Has, Free, entries, run, results
<1>3. \A p \in Requests \ {q} : Stable(p)
  BY <1>2 DEF ArenaInv, HandlersInv, Stable
<1>4. HandlersInv'
  BY <1>2, <1>3, HandlerStep DEF ArenaInv
<1> QED
  BY <1>1, <1>4 DEF ArenaInv

\* A handler is done or gives up.
LEMMA AnswerSteps ==
    ASSUME ArenaInv, NEW q \in Requests,
           \/ ConsumeFails(q) \/ RunUncertain(q) \/ ReplayFails(q) \/ SettleFails(q)
           \/ CancelFails(q) \/ TerminationFails(q)
    PROVE  ArenaInv'
<1>1. /\ request' = [request EXCEPT ![q] = Idle]
      /\ UNCHANGED <<now, entries, run, results, chain>>
  BY DEF ConsumeFails, RunUncertain, ReplayFails, SettleFails, CancelFails, TerminationFails,
         Answered, Becomes
<1>2. Idle.op \notin Starting \union Terminating
  BY DEF Idle, Starting, Terminating
<1> QED
  BY <1>1, <1>2, IdleIsHeld, QuietStep

\* A start goes on.
LEMMA StartSteps ==
    ASSUME ArenaInv, NEW q \in Requests,
           BeginRefused(q) \/ RunBegan(q) \/ RunNotFound(q)
    PROVE  ArenaInv'
<1> DEFINE h == request[q]
<1>1. h \in Held /\ Knows(h)
  BY DEF ArenaInv, HandlersInv
<1>2. h.op \in {"begin", "await"}
  BY DEF BeginRefused, RunBegan, RunNotFound
<1>3. h \in BegunHeld
  BY <1>1, <1>2, HeldByOp DEF Begun
<1>4. PICK op \in {"attach", "rollback"} :
         /\ request' = [request EXCEPT ![q] = [h EXCEPT !.op = op]]
         /\ op = "attach" => chain[h.run] = "active"
  BY DEF BeginRefused, RunBegan, RunNotFound, Becomes
<1>5. UNCHANGED <<now, entries, run, results, chain>>
  BY DEF BeginRefused, RunBegan, RunNotFound
<1> DEFINE g == [h EXCEPT !.op = op]
<1>6. g \in BegunHeld /\ g.op = op /\ g.run = h.run
  BY <1>3 DEF BegunHeld, Begun
<1>7. g \in Held
  BY <1>6 DEF Held
<1>8. Knows(g)
  BY <1>1, <1>2, <1>4, <1>6 DEF Knows, Begun, Has
<1>9. op \notin Terminating /\ h.op \in Starting
  BY <1>2, <1>4 DEF Terminating, Starting
<1> QED
  BY <1>4, <1>5, <1>6, <1>7, <1>8, <1>9, QuietStep

\* A player's request arrives.
LEMMA ArrivalSteps ==
    ASSUME ArenaInv, NEW q \in Requests,
           \/ \E r \in Runs : AppendEvents(q, r) \/ FinishRun(q, r)
           \/ \E w \in Wallets, token \in BOOLEAN : AbandonRun(q, w, token)
    PROVE  ArenaInv'
<1>1. UNCHANGED <<now, entries, run, results, chain>>
  BY DEF AppendEvents, FinishRun, AbandonRun
<1>2. /\ attached \in [Runs -> BOOLEAN]
      /\ \A r \in Runs : Len(events[r]) \in 0..MaxSeq
  BY DEF ArenaInv, RowsInv, TypeOK
<1>3. SUFFICES \E g \in Held : /\ request' = [request EXCEPT ![q] = g] /\ Knows(g)
                               /\ g.op \notin Starting \union Terminating
  BY <1>1, QuietStep
<1>4. CASE \E r \in Runs : AppendEvents(q, r)
  <2>1. PICK r \in Runs : AppendEvents(q, r)
    BY <1>4
  <2> DEFINE g == [op |-> "append", run |-> r, seen |-> Len(events[r])]
  <2>2. g \in Held
    BY <1>2 DEF Held, SeenHeld
  <2>3. Knows(g)
    BY <1>2, <2>1 DEF AppendEvents, Open, Active, Fits, Knows, Begun
  <2> QED
    BY <2>1, <2>2, <2>3 DEF AppendEvents, Becomes, Starting, Terminating
<1>5. CASE \E r \in Runs : FinishRun(q, r)
  <2>1. PICK r \in Runs : FinishRun(q, r)
    BY <1>5
  <2>2. PICK g \in {[op |-> "finish", run |-> r, seen |-> Len(events[r])],
                    [op |-> "settle", run |-> r]} :
           request' = [request EXCEPT ![q] = g]
    BY <2>1 DEF FinishRun, Becomes
  <2>3. g \in Held
    <3>1. Len(events[r]) \in 0..MaxSeq
      BY <1>2
    <3>2. \/ g \in [op : {"append", "finish"}, run : Runs, seen : 0..MaxSeq]
          \/ g \in [op : {"settle"}, run : Runs]
      BY <2>2, <3>1
    <3> QED
      BY <3>2 DEF Held, SeenHeld, SettleHeld
  <2>4. Knows(g) /\ g.op \notin Starting \union Terminating
    BY <1>2, <2>1, <2>2 DEF FinishRun, Open, Active, Knows, Begun, Starting, Terminating
  <2> QED
    BY <2>2, <2>3, <2>4
<1>6. CASE \E w \in Wallets, token \in BOOLEAN : AbandonRun(q, w, token)
  <2>1. PICK w \in Wallets, token \in BOOLEAN : AbandonRun(q, w, token)
    BY <1>6
  <2>2. PICK r \in ActiveRuns(w) :
           request' = [request EXCEPT ![q] = [op |-> "abandon", run |-> r,
                                              known |-> attached[r], token |-> token]]
    BY <2>1 DEF AbandonRun, Becomes
  <2>3. r \in Runs /\ Active(r)
    BY <2>2 DEF ActiveRuns, OwnRuns
  <2> DEFINE g == [op |-> "abandon", run |-> r, known |-> attached[r], token |-> token]
  <2>4. g \in Held
    BY <1>2, <2>3 DEF Held, AbandonHeld
  <2>5. Knows(g)
    BY <2>3 DEF Knows, Active, Begun
  <2> QED
    BY <2>2, <2>4, <2>5 DEF Starting, Terminating
<1> QED
  BY <1>4, <1>5, <1>6

LEMMA RestartStep ==
    ASSUME ArenaInv, Restart
    PROVE  ArenaInv'
<1>1. RowsInv'
  BY QuietRows DEF ArenaInv, Restart
<1>2. \A q \in Requests : request'[q] = Idle
  BY DEF Restart
<1>3. request' \in [Requests -> Held]
  BY IdleIsHeld DEF Restart
<1>4. (\A q \in Requests : Knows(request[q]))'
  BY <1>2 DEF Knows, Idle, Begun
<1>5. Apart'
  BY <1>2 DEF Apart, Idle, Starting
<1> QED
  BY <1>1, <1>3, <1>4, <1>5 DEF ArenaInv, HandlersInv

LEMMA TickStep ==
    ASSUME ArenaInv, Tick
    PROVE  ArenaInv'
<1>1. TypeOK'
  BY SMTT(30) DEF ArenaInv, RowsInv, TypeOK, Tick, entries, run, results
<1>2. (\A r \in Runs : RowOK(r))'
  BY DEF ArenaInv, RowsInv, RowOK, Has, Free, Tick, entries, run, results
<1>3. (\A r, x \in Runs : PairOK(r, x))' /\ (\A w \in Wallets : BestOK(w))'
  BY DEF ArenaInv, RowsInv, PairOK, Active, BestOK, Scored, Tick, run, results
<1>4. \A p \in Requests : Stable(p)
  BY DEF ArenaInv, HandlersInv, Stable, Knows, Has, Free, Tick, entries, run, results
<1>5. HandlersInv'
  BY <1>4, HandlersStay DEF ArenaInv, Tick
<1> QED
  BY <1>1, <1>2, <1>3, <1>5 DEF ArenaInv, RowsInv

-----------------------------------------------------------------------------
(* The steps of Ronin.                                                      *)

Chains == {"none", "sent", "active", "settled", "died", "reverted"}

\* Runs end on Ronin, or will never begin.
ChainEnds ==
    /\ chain' \in [Runs -> Chains]
    /\ \A r \in Runs :
          \/ chain'[r] = chain[r]
          \/ chain[r] = "active" /\ chain'[r] \in {"settled", "died"}
          \/ chain[r] = "sent" /\ chain'[r] = "reverted"

LEMMA EndsRows ==
    ASSUME RowsInv, UNCHANGED <<now, entries, run, results>>, ChainEnds
    PROVE  RowsInv'
<1>1. TypeOK'
  BY DEF RowsInv, TypeOK, entries, run, results, ChainEnds, Chains
<1>2. (\A r \in Runs : RowOK(r))'
  BY DEF RowsInv, RowOK, Has, Free, entries, run, results, ChainEnds
<1>3. (\A r, x \in Runs : PairOK(r, x))'
  BY DEF RowsInv, PairOK, Active, run, ChainEnds
<1>4. (\A w \in Wallets : BestOK(w))'
  BY DEF RowsInv, BestOK, Scored, run, results
<1> QED
  BY <1>1, <1>2, <1>3, <1>4 DEF RowsInv

LEMMA EndsStable ==
    ASSUME HandlersInv, UNCHANGED <<now, entries, run, results>>, ChainEnds,
           NEW p \in Requests
    PROVE  Stable(p)
<1> SUFFICES ASSUME NEW h \in Held, Knows(h) PROVE Knows(h)'
  BY DEF HandlersInv, Stable
<1>1. h.op # "idle" => h.run \in Runs
  BY HeldByOp
<1> QED
  BY <1>1 DEF Knows, Has, Free, Begun, entries, run, results, ChainEnds

LEMMA EndSteps ==
    ASSUME ArenaInv,
           \/ \E r \in Runs : RevertBegin(r)
           \/ \E w \in Wallets : RecoverMiner(w)
    PROVE  ArenaInv'
<1>1. ChainEnds
  BY DEF ArenaInv, RowsInv, TypeOK, RevertBegin, RecoverMiner, Locked, ChainEnds, Chains
<1>2. UNCHANGED <<now, entries, run, results, request>>
  BY DEF RevertBegin, RecoverMiner
<1>3. RowsInv'
  BY <1>1, <1>2, EndsRows DEF ArenaInv
<1>4. HandlersInv'
  BY <1>1, <1>2, EndsStable, HandlersStay DEF ArenaInv
<1> QED
  BY <1>3, <1>4 DEF ArenaInv

LEMMA SettleStep ==
    ASSUME ArenaInv, NEW q \in Requests, SettleRun(q)
    PROVE  ArenaInv'
<1>1. ChainEnds
  BY DEF ArenaInv, RowsInv, TypeOK, SettleRun, ChainEnds, Chains
<1>2. UNCHANGED <<now, entries, run, results>> /\ request' = [request EXCEPT ![q] = Idle]
  BY DEF SettleRun, Answered, Becomes
<1>3. RowsInv'
  BY <1>1, <1>2, EndsRows DEF ArenaInv
<1>4. \A p \in Requests : Stable(p)
  BY <1>1, <1>2, EndsStable DEF ArenaInv
<1>5. Idle.op \notin Starting \union Terminating
  BY DEF Idle, Starting, Terminating
<1>6. HandlersInv'
  BY <1>2, <1>4, <1>5, IdleIsHeld, HandlerStep DEF ArenaInv
<1> QED
  BY <1>3, <1>6 DEF ArenaInv

\* cancelRun frees the Miner of the handler's run.
LEMMA CancelEnds ==
    ASSUME ArenaInv, NEW q \in Requests, Cancel(q)
    PROVE  /\ ChainEnds
           /\ \A r \in Locked(Owner(q)) : chain'[r] = "died"
           /\ request[q].known /\ Locked(Owner(q)) # {} => request[q].run \in Locked(Owner(q))
<1> DEFINE held == Locked(Owner(q))
<1>1. chain \in [Runs -> Chains] /\ \A r \in held : r \in Runs /\ chain[r] = "active"
  BY DEF ArenaInv, RowsInv, TypeOK, Locked, OwnRuns, Chains
<1>2. CASE held = {}
  BY <1>1, <1>2 DEF Cancel, ChainEnds
<1>3. CASE held # {}
  <2>1. /\ request[q].known => request[q].run \in held
        /\ chain' = [r \in Runs |-> IF r \in held THEN "died" ELSE chain[r]]
    BY <1>3 DEF Cancel
  <2>2. ChainEnds
    BY <1>1, <2>1 DEF ChainEnds, Chains
  <2> QED
    BY <1>1, <2>1, <2>2
<1> QED
  BY <1>2, <1>3

LEMMA CancelSteps ==
    ASSUME ArenaInv, NEW q \in Requests, CancelRun(q) \/ TerminationCancels(q)
    PROVE  ArenaInv'
<1> DEFINE w == Owner(q)
<1>0. PICK h \in Held : h = request[q] /\ Knows(h)
  BY DEF ArenaInv, HandlersInv
<1>1. /\ Cancel(q) /\ UNCHANGED <<now, entries, run, results>>
  BY DEF CancelRun, TerminationCancels
<1>2. /\ ChainEnds
      /\ \A r \in Locked(w) : chain'[r] = "died"
      /\ h.known /\ Locked(w) # {} => h.run \in Locked(w)
  BY <1>0, <1>1, CancelEnds
<1>3. RowsInv'
  BY <1>1, <1>2, EndsRows DEF ArenaInv
<1>4. \A p \in Requests : Stable(p)
  BY <1>1, <1>2, EndsStable DEF ArenaInv
<1>5. Knows(h)'
  BY <1>0, <1>4 DEF Stable
<1>6. CASE CancelRun(q)
  <2> DEFINE g == [h EXCEPT !.op = "expire"]
  <2>1. h.op = "abandon" /\ request' = [request EXCEPT ![q] = g]
    BY <1>0, <1>6 DEF CancelRun, Becomes
  <2>2. h \in AbandonHeld
    BY <1>5, <2>1, HeldByOp
  <2>3. g \in AbandonHeld /\ g.op = "expire" /\ g.run = h.run
    BY <2>2 DEF AbandonHeld
  <2>4. g \in Held /\ Knows(g)'
    BY <1>5, <2>1, <2>3 DEF Held, Knows, Begun
  <2>5. HandlersInv'
    BY <1>0, <1>4, <2>1, <2>3, <2>4, HandlerStep DEF ArenaInv, Starting, Terminating
  <2> QED
    BY <1>3, <2>5 DEF ArenaInv
<1>7. CASE TerminationCancels(q)
  <2> DEFINE g == [h EXCEPT !.op = "complete"]
  <2>1. /\ h.op = "terminate" /\ request' = [request EXCEPT ![q] = g]
        /\ h.known \/ Locked(w) # {}
    BY <1>0, <1>7 DEF TerminationCancels, Becomes, Cancelled
  <2>2. h \in EndHeld
    BY <1>5, <2>1, HeldByOp DEF Terminating
  <2>3. g \in EndHeld /\ g.op = "complete" /\ g.run = h.run /\ h.run \in Runs
    BY <2>2 DEF EndHeld, Terminating
  <2>4. Free(h.run)'
    <3>1. status[h.run] # "none" /\ (h.known => Has(h.run))
      BY <1>0, <2>1, <2>3 DEF Knows, Begun, ArenaInv, RowsInv, RowOK
    <3>2. h.run \in Locked(w) <=> chain[h.run] = "active"
      BY <1>0, <2>3, <3>1 DEF Locked, OwnRuns, Owner
    <3>3. Locked(w) # {} => chain[h.run] # "sent"
      <4> SUFFICES ASSUME NEW x \in Locked(w) PROVE chain[h.run] # "sent"
        OBVIOUS
      <4>1. /\ x \in Runs /\ status[x] # "none" /\ chain[x] = "active"
            /\ Payer[entry[x]] = Payer[entry[h.run]]
        BY <1>0 DEF Locked, OwnRuns, Owner
      <4> QED
        BY <2>3, <3>1, <4>1 DEF ArenaInv, RowsInv, PairOK
    <3>4. chain[h.run] # "sent"
      BY <2>1, <3>1, <3>3 DEF Has
    <3> QED
      BY <1>2, <2>3, <3>2, <3>4 DEF ChainEnds, Free
  <2>5. g \in Held /\ Knows(g)'
    BY <1>5, <2>1, <2>3, <2>4 DEF Held, Knows, Begun
  <2>6. HandlersInv'
    BY <1>0, <1>4, <2>1, <2>3, <2>5, HandlerStep DEF ArenaInv, Starting, Terminating
  <2> QED
    BY <1>3, <2>6 DEF ArenaInv
<1> QED
  BY <1>6, <1>7

LEMMA SendBeginStep ==
    ASSUME ArenaInv, NEW q \in Requests, SendBegin(q)
    PROVE  ArenaInv'
<1>0. PICK h \in Held : h = request[q] /\ Knows(h)
  BY DEF ArenaInv, HandlersInv
<1> DEFINE r == h.run
           g == [h EXCEPT !.op = "await"]
<1>1. /\ h.op = "begin" /\ request' = [request EXCEPT ![q] = g]
      /\ UNCHANGED <<now, entries, run, results>>
  BY <1>0 DEF SendBegin, Becomes
<1>3. h \in BegunHeld /\ r \in Runs
  BY <1>1, HeldByOp DEF Begun, BegunHeld
<1>4. /\ status[r] # "none" /\ r \notin ended /\ chain[r] = "none"
  BY <1>0, <1>1 DEF Knows, Begun
<1>5. PICK to \in {"sent", "reverted"} :
         /\ chain' = [chain EXCEPT ![r] = to]
         /\ to = "sent" => Locked(Owner(q)) = {}
  BY <1>0 DEF SendBegin
<1>6. chain \in [Runs -> Chains] /\ chain'[r] = to /\ \A x \in Runs \ {r} : chain'[x] = chain[x]
  BY <1>3, <1>5 DEF ArenaInv, RowsInv, TypeOK, Chains
<1>7. RowsInv'
  <2>1. TypeOK'
    BY <1>1, <1>5 DEF ArenaInv, RowsInv, TypeOK, entries, run, results
  <2>2. (\A x \in Runs : RowOK(x))'
    BY <1>1, <1>4, <1>6 DEF ArenaInv, RowsInv, RowOK, Has, Free, entries, run, results
  <2>3. (\A x, y \in Runs : PairOK(x, y))'
    <3>1. \A y \in Runs : /\ status[y] # "none" /\ Payer[entry[y]] = Payer[entry[r]]
                          /\ to = "sent"
                          => chain[y] # "active"
      BY <1>0, <1>5 DEF Locked, OwnRuns, Owner
    <3> QED
      BY <1>1, <1>6, <3>1 DEF ArenaInv, RowsInv, PairOK, Active, run
  <2>4. (\A w \in Wallets : BestOK(w))'
    BY <1>1 DEF ArenaInv, RowsInv, BestOK, Scored, run, results
  <2> QED
    BY <2>1, <2>2, <2>3, <2>4 DEF RowsInv
<1>8. \A p \in Requests \ {q} : Stable(p)
  <2> SUFFICES ASSUME NEW p \in Requests \ {q}, NEW k \in Held, k = request[p]
               PROVE  Knows(k)'
    BY DEF Stable
  <2>1. Knows(k) /\ (k.op # "idle" => k.run \in Runs)
    BY HeldByOp DEF ArenaInv, HandlersInv
  <2>2. k.op \in Starting => k.run # r
    BY <1>0, <1>1 DEF ArenaInv, HandlersInv, Apart, Starting
  <2>3. k.op # "complete"
    BY <1>0, <1>1 DEF ArenaInv, HandlersInv, Apart, Starting, Terminating
  <2> QED
    BY <1>1, <1>4, <1>6, <2>1, <2>2, <2>3 DEF Knows, Begun, Has, Free, Starting,
       entries, run, results
<1>9. g \in BegunHeld /\ g.op = "await" /\ g.run = r
  BY <1>3 DEF BegunHeld, Begun
<1>10. g \in Held /\ Knows(g)'
  BY <1>0, <1>1, <1>9 DEF Held, Knows, Begun, run, results
<1>11. HandlersInv'
  BY <1>0, <1>1, <1>8, <1>9, <1>10, HandlerStep DEF ArenaInv, Starting, Terminating
<1> QED
  BY <1>7, <1>11 DEF ArenaInv

LEMMA MineBeginStep ==
    ASSUME ArenaInv, NEW r \in Runs, MineBegin(r)
    PROVE  ArenaInv'
<1> DEFINE w == Payer[entry[r]]
<1>1. /\ chain[r] = "sent" /\ Locked(w) = {}
      /\ UNCHANGED <<now, entries, run, results, request>>
  BY DEF MineBegin
<1>2. /\ chain' \in [Runs -> Chains] /\ chain'[r] = "active"
      /\ \A x \in Runs \ {r} :
            chain'[x] = IF x \in OwnRuns(w) /\ chain[x] = "sent" THEN "reverted" ELSE chain[x]
  BY DEF MineBegin, ArenaInv, RowsInv, TypeOK, Chains
<1>3. status[r] # "none" /\ r \notin ended
  BY <1>1 DEF ArenaInv, RowsInv, RowOK, Free
<1>4. RowsInv'
  <2>1. TypeOK'
    BY <1>1, <1>2 DEF ArenaInv, RowsInv, TypeOK, Chains, entries, run, results
  <2>2. (\A x \in Runs : RowOK(x))'
    BY <1>1, <1>2, <1>3 DEF ArenaInv, RowsInv, RowOK, Has, Free, entries, run, results
  <2>3. (\A x, y \in Runs : PairOK(x, y))'
    <3>1. \A y \in Runs : status[y] # "none" /\ Payer[entry[y]] = w => chain[y] # "active"
      BY <1>1 DEF Locked, OwnRuns
    <3>2. \A y \in Runs \ {r} : /\ chain'[y] = "active" <=> chain[y] = "active"
                                /\ chain'[y] = "sent" => chain[y] = "sent"
      BY <1>2
    <3>3. \A y \in Runs \ {r} : status[y] # "none" /\ Payer[entry[y]] = w => chain'[y] # "sent"
      BY <1>2 DEF OwnRuns
    <3> QED
      BY <1>1, <1>2, <3>1, <3>2, <3>3 DEF ArenaInv, RowsInv, PairOK, Active, run
  <2>4. (\A v \in Wallets : BestOK(v))'
    BY <1>1 DEF ArenaInv, RowsInv, BestOK, Scored, run, results
  <2> QED
    BY <2>1, <2>2, <2>3, <2>4 DEF RowsInv
<1>5. \A p \in Requests : Stable(p)
  <2> SUFFICES ASSUME NEW p \in Requests, NEW k \in Held, Knows(k) PROVE Knows(k)'
    BY DEF Stable, ArenaInv, HandlersInv
  <2>1. k.op # "idle" => k.run \in Runs
    BY HeldByOp
  <2> QED
    BY <1>1, <1>2, <2>1 DEF Knows, Begun, Has, Free, entries, run, results
<1>6. HandlersInv'
  BY <1>1, <1>5, HandlersStay DEF ArenaInv
<1> QED
  BY <1>4, <1>6 DEF ArenaInv

-----------------------------------------------------------------------------
(* The steps that end runs.                                                 *)

Statuses == {"none", "active", "finished", "expired"}

\* Active runs expire, entries of runs that count no more are given back, and
\* reservations are dropped.
Expiring ==
    /\ UNCHANGED <<now, confirmed, entry, expiresAt, attached, events, score, best, chain>>
    /\ status' \in [Runs -> Statuses] /\ terminating' \in [Runs -> BOOLEAN]
    /\ usedBy' \in [Payments -> Runs \union {NoRun}] /\ ended' \subseteq Runs
    /\ \A r \in Runs :
          /\ status'[r] # status[r] => status[r] = "active" /\ status'[r] = "expired"
          /\ terminating'[r] => terminating[r]
          /\ r \in ended' /\ r \notin ended => status[r] # "none" /\ Free(r)
          /\ status'[r] \in {"active", "finished"} => usedBy'[entry[r]] = usedBy[entry[r]]

LEMMA ExpiringRows ==
    ASSUME RowsInv, Expiring
    PROVE  RowsInv'
<1>1. TypeOK'
  BY DEF RowsInv, TypeOK, Expiring, Statuses
<1>2. (\A r \in Runs : RowOK(r))'
  BY DEF RowsInv, RowOK, Has, Free, Expiring
<1>3. (\A r, x \in Runs : PairOK(r, x))'
  <2> SUFFICES ASSUME NEW r \in Runs, NEW x \in Runs PROVE PairOK(r, x)'
    OBVIOUS
  <2>1. PairOK(r, x)
    BY DEF RowsInv
  <2>2. \A y \in {r, x} : /\ status'[y] # "none" => status[y] # "none"
                          /\ status'[y] = "active" => status[y] = "active"
    BY DEF Expiring
  <2> QED
    BY <2>1, <2>2 DEF PairOK, Active, Expiring
<1>4. (\A w \in Wallets : BestOK(w))'
  <2> SUFFICES ASSUME NEW w \in Wallets PROVE BestOK(w)'
    OBVIOUS
  <2>1. BestOK(w) /\ best[w] \in Runs \union {NoRun}
    BY DEF RowsInv, TypeOK
  <2>2. \A r \in Runs : Scored(r, w)' <=> Scored(r, w)
    BY DEF Scored, Expiring
  <2>3. best[w] # NoRun => Scored(best[w], w)'
    BY <2>1, <2>2 DEF BestOK, Scored, Expiring
  <2> QED
    BY <2>1, <2>2, <2>3 DEF BestOK, Expiring, Scored
<1> QED
  BY <1>1, <1>2, <1>3, <1>4 DEF RowsInv

LEMMA ExpiringStable ==
    ASSUME HandlersInv, Expiring, NEW p \in Requests,
           ended' # ended => request[p].op \notin Begun
    PROVE  Stable(p)
<1> SUFFICES ASSUME NEW h \in Held, h = request[p] PROVE Knows(h)'
  BY DEF Stable
<1>1. Knows(h) /\ (h.op # "idle" => h.run \in Runs)
  BY HeldByOp DEF HandlersInv
<1>2. h.op # "idle" => /\ status[h.run] # "none" => status'[h.run] # "none"
                       /\ status[h.run] = "none" => status'[h.run] = "none"
                       /\ terminating'[h.run] => terminating[h.run]
  BY <1>1 DEF Expiring
<1>3. h.op \in Begun => h.run \notin ended'
  BY <1>1 DEF Knows
<1> QED
  BY <1>1, <1>2, <1>3 DEF Knows, Begun, Has, Free, Expiring

LEMMA ExpireOpenedStep ==
    ASSUME ArenaInv, NEW r \in Runs, ExpireOpened(r)
    PROVE  ArenaInv'
<1>1. Expiring /\ ended' = ended /\ request' = request
  BY DEF ArenaInv, RowsInv, TypeOK, ExpireOpened, Active, Expiring, Statuses, entries, results
<1>2. RowsInv' /\ \A p \in Requests : Stable(p)
  BY <1>1, ExpiringRows, ExpiringStable DEF ArenaInv
<1>3. HandlersInv'
  BY <1>1, <1>2, HandlersStay DEF ArenaInv
<1> QED
  BY <1>2, <1>3 DEF ArenaInv

LEMMA ExpireRunStep ==
    ASSUME ArenaInv, NEW q \in Requests, ExpireRun(q)
    PROVE  ArenaInv'
<1>1. Expiring /\ ended' = ended /\ request' = [request EXCEPT ![q] = Idle]
  BY DEF ArenaInv, RowsInv, TypeOK, ExpireRun, Expirable, Active, Expiring, Statuses,
         entries, results, Answered, Becomes
<1>2. RowsInv' /\ \A p \in Requests : Stable(p)
  BY <1>1, ExpiringRows, ExpiringStable DEF ArenaInv
<1>3. Idle.op \notin Starting \union Terminating
  BY DEF Idle, Starting, Terminating
<1>4. HandlersInv'
  BY <1>1, <1>2, <1>3, IdleIsHeld, HandlerStep DEF ArenaInv
<1> QED
  BY <1>2, <1>4 DEF ArenaInv

\* The entry of a start that never began counts again: no other run is on it.
LEMMA RollbackStep ==
    ASSUME ArenaInv, NEW q \in Requests, RollbackRun(q)
    PROVE  ArenaInv'
<1>1. PICK h \in Held : h = request[q] /\ h.op = "rollback" /\ Knows(h)
  BY DEF ArenaInv, HandlersInv, RollbackRun
<1>2. h.run \in Runs /\ status[h.run] # "none"
  BY <1>1, HeldByOp DEF Knows
<1>3. entry[h.run] \in Payments
  BY <1>2 DEF ArenaInv, RowsInv, RowOK, TypeOK
<1>4. Expiring
  <2>1. CASE UNCHANGED <<status, usedBy>>
    BY <2>1 DEF RollbackRun, ArenaInv, RowsInv, TypeOK, Expiring, Statuses, results
  <2>2. CASE /\ Active(h.run) /\ usedBy[entry[h.run]] = h.run
             /\ status' = [status EXCEPT ![h.run] = "expired"]
             /\ usedBy' = [usedBy EXCEPT ![entry[h.run]] = NoRun]
    <3>1. \A r \in Runs : status'[r] # status[r] => status[r] = "active" /\ status'[r] = "expired"
      BY <1>2, <2>2 DEF ArenaInv, RowsInv, TypeOK, Active
    <3>2. \A r \in Runs :
             status'[r] \in {"active", "finished"} => usedBy'[entry[r]] = usedBy[entry[r]]
      <4> SUFFICES ASSUME NEW r \in Runs, status'[r] \in {"active", "finished"}
                   PROVE  usedBy'[entry[r]] = usedBy[entry[r]]
        OBVIOUS
      <4>1. r # h.run /\ status[r] = status'[r]
        BY <1>2, <2>2 DEF ArenaInv, RowsInv, TypeOK
      <4>2. usedBy[entry[r]] = r /\ entry[r] \in Payments
        BY <4>1 DEF ArenaInv, RowsInv, RowOK, TypeOK
      <4> QED
        BY <2>2, <4>1, <4>2 DEF ArenaInv, RowsInv, TypeOK
    <3>3. /\ status' \in [Runs -> Statuses]
          /\ usedBy' \in [Payments -> Runs \union {NoRun}]
      BY <2>2 DEF ArenaInv, RowsInv, TypeOK, Statuses
    <3> QED
      BY <3>1, <3>2, <3>3 DEF RollbackRun, ArenaInv, RowsInv, TypeOK, Expiring, results
  <2> QED
    BY <1>1, <2>1, <2>2 DEF RollbackRun
<1>5. ended' = ended /\ request' = [request EXCEPT ![q] = Idle]
  BY DEF RollbackRun, Answered, Becomes, results
<1>6. RowsInv' /\ \A p \in Requests : Stable(p)
  BY <1>4, <1>5, ExpiringRows, ExpiringStable DEF ArenaInv
<1>7. Idle.op \notin Starting \union Terminating
  BY DEF Idle, Starting, Terminating
<1>8. HandlersInv'
  BY <1>5, <1>6, <1>7, IdleIsHeld, HandlerStep DEF ArenaInv
<1> QED
  BY <1>6, <1>8 DEF ArenaInv

\* What an administrator ends has been freed on Ronin, and no start is in progress.
LEMMA TerminationSteps ==
    ASSUME ArenaInv, NEW q \in Requests, TerminationRefused(q) \/ CompleteTermination(q)
    PROVE  ArenaInv'
<1>1. PICK h \in Held : /\ h = request[q] /\ h.op \in Terminating /\ Knows(h)
  BY DEF ArenaInv, HandlersInv, TerminationRefused, CompleteTermination, Terminating
<1>2. h.run \in Runs /\ status[h.run] # "none"
  BY <1>1, HeldByOp DEF Knows, Begun, Terminating
<1>3. request' = [request EXCEPT ![q] = Idle]
  BY DEF TerminationRefused, CompleteTermination, Answered, Becomes
<1>4. Expiring
  <2>1. CASE TerminationRefused(q)
    <3>1. terminating' = [terminating EXCEPT ![h.run] = @ /\ ~Active(h.run)]
      BY <1>1, <2>1 DEF TerminationRefused, Cleared
    <3>2. terminating' \in [Runs -> BOOLEAN]
          /\ \A r \in Runs : terminating'[r] => terminating[r]
      BY <1>2, <3>1 DEF ArenaInv, RowsInv, TypeOK
    <3> QED
      BY <2>1, <3>2 DEF TerminationRefused, ArenaInv, RowsInv, TypeOK, Expiring, Statuses,
         entries, results
  <2>2. CASE CompleteTermination(q)
    <3>1. Free(h.run)
      BY <1>1, <2>2 DEF CompleteTermination, Knows
    <3>2. CASE UNCHANGED <<status, terminating, ended>>
      BY <2>2, <3>2 DEF CompleteTermination, ArenaInv, RowsInv, TypeOK, Expiring, Statuses,
         entries
    <3>3. CASE /\ Active(h.run)
               /\ status' = [status EXCEPT ![h.run] = "expired"]
               /\ terminating' = [terminating EXCEPT ![h.run] = FALSE]
               /\ ended' = ended \union {h.run}
      BY <1>2, <2>2, <3>1, <3>3 DEF CompleteTermination, Active, ArenaInv, RowsInv, TypeOK,
         Expiring, Statuses, entries
    <3> QED
      BY <1>1, <2>2, <3>2, <3>3 DEF CompleteTermination
  <2> QED
    BY <2>1, <2>2
<1>5. \A p \in Requests : request[p].op \notin Begun
  BY <1>1 DEF ArenaInv, HandlersInv, Apart, Begun, Starting
<1>6. RowsInv' /\ \A p \in Requests : Stable(p)
  BY <1>4, <1>5, ExpiringRows, ExpiringStable DEF ArenaInv
<1>7. Idle.op \notin Starting \union Terminating
  BY DEF Idle, Starting, Terminating
<1>8. HandlersInv'
  BY <1>3, <1>6, <1>7, IdleIsHeld, HandlerStep DEF ArenaInv
<1> QED
  BY <1>6, <1>8 DEF ArenaInv

-----------------------------------------------------------------------------
(* The steps of a start.                                                    *)

LEMMA LeastOfNumbers ==
    ASSUME NEW S \in SUBSET Nat, S # {}
    PROVE  Min(S) \in S /\ \A x \in S : Min(S) <= x
<1>1. \E x \in S : \A y \in S : <<y, x>> \notin OpToRel(<, Nat)
  BY WFMin, NatLessThanWellFounded, Zenon
<1>2. \A x, y \in Nat : <<y, x>> \in OpToRel(<, Nat) <=> y < x
  BY DEF OpToRel
<1>3. PICK x \in S : \A y \in S : ~(y < x)
  BY <1>1, <1>2, Zenon
<1>4. \A y \in S : x <= y
  BY <1>3
<1> QED
  BY <1>4 DEF Min

\* The run of a start is its own: no row has it, and no start beside it holds it.
LEMMA StartRunStep ==
    ASSUME ArenaInv, NEW q \in Requests, NEW w \in Wallets, StartRun(q, w)
    PROVE  ArenaInv'
<1> DEFINE taken == {request[o].run : o \in {o \in Requests : request[o].op = "start"}}
           fresh == {x \in Runs : status[x] = "none"} \ taken
<1>1. Min(fresh) \in fresh
  <2>1. fresh # {} /\ fresh \subseteq Nat
    BY DEF StartRun
  <2> HIDE DEF fresh
  <2> QED
    BY <2>1, LeastOfNumbers
<1>2. PICK g : /\ request' = [request EXCEPT ![q] = g]
               /\ \E p \in Unused(w) :
                     g = [op |-> "start", run |-> Min(fresh), entry |-> p,
                          expires |-> now + RunTtl]
  BY DEF StartRun, Becomes
<1>3. PICK p \in Unused(w) : g = [op |-> "start", run |-> Min(fresh), entry |-> p,
                                  expires |-> now + RunTtl]
  BY <1>2
<1>4. g.op = "start" /\ g.run \in fresh /\ g.entry = p /\ g.expires = now + RunTtl
  BY <1>1, <1>3
<1>5. p \in confirmed /\ p \in Payments /\ now + RunTtl \in 0..DayEnd
  BY DEF Unused, StartRun, ArenaInv, RowsInv, TypeOK
<1>6. g \in Held
  BY <1>1, <1>3, <1>5 DEF StartHeld, Held
<1>7. Expiring /\ ended' = ended
  BY DEF ArenaInv, RowsInv, TypeOK, StartRun, ActiveRuns, OwnRuns, Active, Expiring, Statuses,
         entries, results
<1>8. RowsInv' /\ \A o \in Requests : Stable(o)
  BY <1>7, ExpiringRows, ExpiringStable DEF ArenaInv
<1>9. Knows(g)'
  BY <1>4, <1>5, <1>7 DEF Knows, Begun, Expiring
<1>10. \A o \in Requests \ {q} :
          /\ request[o].op \in Starting => request[o].run # g.run
          /\ request[o].op \notin Terminating
  <2> SUFFICES ASSUME NEW o \in Requests \ {q}
               PROVE  /\ request[o].op \in Starting => request[o].run # g.run
                      /\ request[o].op \notin Terminating
    OBVIOUS
  <2>1. Knows(request[o])
    BY DEF ArenaInv, HandlersInv
  <2>2. CASE request[o].op = "start"
    BY <1>4, <2>2 DEF Terminating
  <2>3. CASE request[o].op # "start"
    BY <1>4, <2>1, <2>3 DEF Knows, Starting, StartRun, InProgress
  <2> QED
    BY <2>2, <2>3
<1>11. HandlersInv'
  BY <1>2, <1>4, <1>6, <1>8, <1>9, <1>10, HandlerTakes DEF ArenaInv, Terminating
<1> QED
  BY <1>8, <1>11 DEF ArenaInv

LEMMA ConsumeStep ==
    ASSUME ArenaInv, NEW q \in Requests, ConsumeEntry(q)
    PROVE  ArenaInv'
<1>1. PICK h \in Held : h = request[q] /\ h.op = "start" /\ Knows(h)
  BY DEF ArenaInv, HandlersInv, ConsumeEntry
<1> DEFINE r == h.run
           p == h.entry
           g == [op |-> "begin", run |-> r]
<1>2. r \in Runs /\ p \in Payments /\ h.expires \in 0..DayEnd
  BY <1>1, HeldByOp DEF StartHeld
<1>3. /\ status[r] = "none" /\ p \in confirmed /\ ~attached[r] /\ ~terminating[r]
      /\ r \notin ended /\ chain[r] = "none"
  BY <1>1, <1>2 DEF Knows, ArenaInv, RowsInv, RowOK
<1>4. ActiveRuns(Payer[p]) = {} /\ \A x \in Runs : entry[x] # p
  BY <1>1 DEF ConsumeEntry, Consumable
<1>5. /\ usedBy' = [usedBy EXCEPT ![p] = r]
      /\ status' = [status EXCEPT ![r] = "active"]
      /\ entry' = [entry EXCEPT ![r] = p]
      /\ expiresAt' = [expiresAt EXCEPT ![r] = h.expires]
      /\ request' = [request EXCEPT ![q] = g]
      /\ UNCHANGED <<now, confirmed, attached, terminating, events, score, ended, best, chain>>
  BY <1>1 DEF ConsumeEntry, Becomes, results
<1>6. /\ status'[r] = "active" /\ entry'[r] = p /\ usedBy'[p] = r
      /\ \A x \in Runs \ {r} : status'[x] = status[x] /\ entry'[x] = entry[x]
      /\ \A e \in Payments \ {p} : usedBy'[e] = usedBy[e]
  BY <1>2, <1>5 DEF ArenaInv, RowsInv, TypeOK
<1>7. TypeOK'
  BY <1>2, <1>5 DEF ArenaInv, RowsInv, TypeOK
<1>8. (\A x \in Runs : RowOK(x))'
  <2> SUFFICES ASSUME NEW x \in Runs PROVE RowOK(x)'
    OBVIOUS
  <2>1. RowOK(x) /\ (status[x] # "none" => entry[x] \in Payments \ {p})
    BY <1>4 DEF ArenaInv, RowsInv, TypeOK, RowOK
  <2>2. CASE x = r
    BY <1>3, <1>5, <1>6, <2>1, <2>2 DEF RowOK, Has, Free
  <2>3. CASE x # r
    BY <1>5, <1>6, <2>1, <2>3 DEF RowOK, Has, Free
  <2> QED
    BY <2>2, <2>3
<1>9. (\A x, y \in Runs : PairOK(x, y))'
  <2> SUFFICES ASSUME NEW x \in Runs, NEW y \in Runs PROVE PairOK(x, y)'
    OBVIOUS
  <2>1. PairOK(x, y)
    BY DEF ArenaInv, RowsInv
  <2>2. \A z \in Runs \ {r} : status[z] = "active" => Payer[entry[z]] # Payer[p]
    BY <1>4 DEF ActiveRuns, OwnRuns, Active
  <2> QED
    BY <1>3, <1>5, <1>6, <2>1, <2>2 DEF PairOK, Active
<1>10. (\A w \in Wallets : BestOK(w))'
  <2> SUFFICES ASSUME NEW w \in Wallets PROVE BestOK(w)'
    OBVIOUS
  <2>1. BestOK(w) /\ best[w] \in Runs \union {NoRun}
    BY DEF ArenaInv, RowsInv, TypeOK
  <2>2. \A x \in Runs : Scored(x, w)' <=> Scored(x, w)
    BY <1>3, <1>6 DEF Scored
  <2>3. best[w] # NoRun => Scored(best[w], w)'
    BY <1>5, <2>1, <2>2 DEF BestOK
  <2> QED
    BY <1>5, <2>1, <2>2, <2>3 DEF BestOK
<1>11. \A o \in Requests \ {q} : Stable(o)
  <2> SUFFICES ASSUME NEW o \in Requests \ {q}, NEW k \in Held, k = request[o]
               PROVE  Knows(k)'
    BY DEF Stable
  <2>1. Knows(k) /\ (k.op # "idle" => k.run \in Runs)
    BY HeldByOp DEF ArenaInv, HandlersInv
  <2>2. k.op # "idle" => k.run # r
    BY <1>1, <1>3, <2>1 DEF Knows, ArenaInv, HandlersInv, Apart, Starting
  <2> QED
    BY <1>5, <1>6, <2>1, <2>2 DEF Knows, Begun, Has, Free
<1>12. g \in Held /\ Knows(g)'
  BY <1>2, <1>3, <1>5, <1>6 DEF Held, BegunHeld, Begun, Knows
<1>13. HandlersInv'
  BY <1>1, <1>5, <1>11, <1>12, HandlerStep DEF ArenaInv, Starting, Terminating
<1> QED
  BY <1>7, <1>8, <1>9, <1>10, <1>13 DEF ArenaInv, RowsInv

\* No termination relies on the run having been attached: the lock keeps it out.
LEMMA AttachStep ==
    ASSUME ArenaInv, NEW q \in Requests, AttachRun(q)
    PROVE  ArenaInv'
<1>1. PICK h \in Held : h = request[q] /\ h.op = "attach" /\ Knows(h)
  BY DEF ArenaInv, HandlersInv, AttachRun
<1>2. h.run \in Runs /\ status[h.run] # "none" /\ Has(h.run)
  BY <1>1, HeldByOp DEF Knows, Begun
<1>3. /\ attached' = [attached EXCEPT ![h.run] = Active(h.run) /\ ~terminating[h.run]]
      /\ request' = [request EXCEPT ![q] = Idle]
      /\ UNCHANGED <<now, entries, status, entry, expiresAt, terminating, events, score,
                     results, chain>>
  BY <1>1 DEF AttachRun, Answered, Becomes
<1>4. /\ attached' \in [Runs -> BOOLEAN]
      /\ \A r \in Runs \ {h.run} : attached'[r] = attached[r]
  BY <1>2, <1>3 DEF ArenaInv, RowsInv, TypeOK, Active
<1>5. TypeOK'
  BY <1>3, <1>4 DEF ArenaInv, RowsInv, TypeOK, entries, results
<1>6. (\A r \in Runs : RowOK(r))'
  BY <1>2, <1>3, <1>4 DEF ArenaInv, RowsInv, RowOK, Has, Free, entries, results
<1>7. (\A r, x \in Runs : PairOK(r, x))' /\ (\A w \in Wallets : BestOK(w))'
  BY <1>3 DEF ArenaInv, RowsInv, PairOK, Active, BestOK, Scored, results
<1>8. \A o \in Requests : Stable(o)
  <2> SUFFICES ASSUME NEW o \in Requests, NEW k \in Held, k = request[o] PROVE Knows(k)'
    BY DEF Stable
  <2>1. Knows(k) /\ k.op # "terminate"
    BY <1>1 DEF ArenaInv, HandlersInv, Apart, Starting, Terminating
  <2> QED
    BY <1>3, <2>1 DEF Knows, Has, Free, entries, results
<1>9. Idle.op \notin Starting \union Terminating
  BY DEF Idle, Starting, Terminating
<1>10. HandlersInv'
  BY <1>3, <1>8, <1>9, IdleIsHeld, HandlerStep DEF ArenaInv
<1> QED
  BY <1>5, <1>6, <1>7, <1>10 DEF ArenaInv, RowsInv

LEMMA ReserveStep ==
    ASSUME ArenaInv, NEW q \in Requests, NEW r \in Runs, ReserveRun(q, r)
    PROVE  ArenaInv'
<1> DEFINE g == [op |-> "terminate", run |-> r, known |-> attached[r]]
<1>1. /\ status[r] = "active"
      /\ terminating' = [terminating EXCEPT ![r] = TRUE]
      /\ request' = [request EXCEPT ![q] = g]
      /\ UNCHANGED <<now, entries, status, entry, expiresAt, attached, events, score,
                     results, chain>>
  BY DEF ReserveRun, Becomes, Active
<1>2. \A o \in Requests : request[o].op \notin Starting \union Terminating
  BY DEF ReserveRun, InProgress
<1>3. TypeOK'
  BY <1>1 DEF ArenaInv, RowsInv, TypeOK, entries, results
<1>4. (\A x \in Runs : RowOK(x))'
  BY <1>1 DEF ArenaInv, RowsInv, TypeOK, RowOK, Has, Free, entries, results
<1>5. (\A x, y \in Runs : PairOK(x, y))' /\ (\A w \in Wallets : BestOK(w))'
  BY <1>1 DEF ArenaInv, RowsInv, PairOK, Active, BestOK, Scored, results
<1>6. \A o \in Requests : Stable(o)
  <2> SUFFICES ASSUME NEW o \in Requests, NEW k \in Held, k = request[o] PROVE Knows(k)'
    BY DEF Stable
  <2>1. Knows(k) /\ k.op \notin Begun
    BY <1>2 DEF ArenaInv, HandlersInv, Starting, Begun
  <2> QED
    BY <1>1, <2>1 DEF Knows, Has, Free, entries, results
<1>7. attached[r] \in BOOLEAN
  BY DEF ArenaInv, RowsInv, TypeOK
<1>8. g \in Held /\ Knows(g)'
  BY <1>1, <1>7 DEF Held, EndHeld, Terminating, Knows, Begun
<1>9. HandlersInv'
  BY <1>1, <1>2, <1>6, <1>8, HandlerTakes DEF ArenaInv, Starting
<1> QED
  BY <1>3, <1>4, <1>5, <1>9 DEF ArenaInv, RowsInv

-----------------------------------------------------------------------------
(* Entries, events and scores.                                              *)

LEMMA ConfirmStep ==
    ASSUME ArenaInv, NEW p \in Payments, ConfirmEntry(p)
    PROVE  ArenaInv'
<1>1. /\ usedBy' = Recorded(p) /\ confirmed' = confirmed \union {p}
      /\ UNCHANGED <<now, run, results, chain, request>>
  BY DEF ConfirmEntry
<1>2. /\ usedBy' \in [Payments -> Runs \union {NoRun}]
      /\ \A e \in confirmed : usedBy'[e] = usedBy[e]
  BY <1>1 DEF Recorded, ArenaInv, RowsInv, TypeOK
<1>3. TypeOK'
  BY <1>1, <1>2 DEF ArenaInv, RowsInv, TypeOK, run, results
<1>4. (\A r \in Runs : RowOK(r))'
  BY <1>1, <1>2 DEF ArenaInv, RowsInv, RowOK, Has, Free, run, results
<1>5. (\A r, x \in Runs : PairOK(r, x))' /\ (\A w \in Wallets : BestOK(w))'
  BY <1>1 DEF ArenaInv, RowsInv, PairOK, Active, BestOK, Scored, run, results
<1>6. \A o \in Requests : Stable(o)
  BY <1>1 DEF ArenaInv, HandlersInv, Stable, Knows, Has, Free, run, results
<1>7. HandlersInv'
  BY <1>1, <1>6, HandlersStay DEF ArenaInv
<1> QED
  BY <1>3, <1>4, <1>5, <1>7 DEF ArenaInv, RowsInv

\* A batch that is stored is the transcript so far and one batch more.
LEMMA BatchStored ==
    ASSUME NEW e \in Seq(Requests), NEW q \in Requests
    PROVE  /\ SubSeq(e, 1, Len(e)) = e
           /\ Append(e, q) \in Seq(Requests) /\ Len(Append(e, q)) = Len(e) + 1
OBVIOUS

\* What storing a batch does to the transcripts.
LEMMA Batches ==
    ASSUME ArenaInv, NEW q \in Requests, StoreEvents(q)
    PROVE  /\ events' \in [Runs -> Seq(Requests)]
           /\ \A r \in Runs :
                 events'[r] # events[r] =>
                    /\ Active(r) /\ ~terminating[r]
                    /\ events'[r] = Append(events[r], q)
           /\ \A r \in Runs : Len(events[r]) <= Len(events'[r]) /\ Len(events'[r]) <= MaxSeq
<1>1. PICK h \in Held : h = request[q] /\ h.op = "append" /\ Knows(h)
  BY DEF ArenaInv, HandlersInv, StoreEvents
<1>2. h.run \in Runs /\ h.seen \in 0..MaxSeq /\ h.seen < MaxSeq
  BY <1>1, HeldByOp DEF SeenHeld, Knows
<1>3. events \in [Runs -> Seq(Requests)] /\ \A r \in Runs : Len(events[r]) <= MaxSeq
  BY DEF ArenaInv, RowsInv, TypeOK
<1>4. CASE Appendable(h.run, h.seen)
  <2>1. events' = [events EXCEPT ![h.run] = Append(SubSeq(events[h.run], 1, h.seen), q)]
    BY <1>1, <1>3, <1>4 DEF StoreEvents
  <2>2. /\ SubSeq(events[h.run], 1, h.seen) = events[h.run]
        /\ Append(events[h.run], q) \in Seq(Requests)
        /\ Len(Append(events[h.run], q)) = h.seen + 1
    BY <1>2, <1>3, <1>4, BatchStored DEF Appendable
  <2>3. events' = [events EXCEPT ![h.run] = Append(events[h.run], q)]
    BY <2>1, <2>2
  <2>4. \A r \in Runs : Len(events[r]) \in Nat
    BY <1>3
  <2> QED
    BY <1>2, <1>3, <1>4, <2>2, <2>3, <2>4 DEF Appendable
<1>5. CASE ~Appendable(h.run, h.seen)
  BY <1>1, <1>3, <1>5 DEF StoreEvents
<1> QED
  BY <1>4, <1>5

LEMMA StoreStep ==
    ASSUME ArenaInv, NEW q \in Requests, StoreEvents(q)
    PROVE  ArenaInv'
<1>1. /\ request' = [request EXCEPT ![q] = Idle]
      /\ UNCHANGED <<now, entries, status, entry, expiresAt, attached, terminating, score,
                     results, chain>>
  BY DEF StoreEvents, Answered, Becomes
<1>2. \A r \in Runs : /\ Len(events[r]) \in Nat /\ Len(events'[r]) \in Nat
                      /\ score[r] \in Nat
                      /\ Len(events[r]) <= Len(events'[r])
  <2>1. /\ events \in [Runs -> Seq(Requests)] /\ events' \in [Runs -> Seq(Requests)]
        /\ score \in [Runs -> 0..MaxSeq]
    BY Batches DEF ArenaInv, RowsInv, TypeOK
  <2>2. \A r \in Runs : Len(events[r]) <= Len(events'[r])
    BY Batches
  <2> QED
    BY <2>1, <2>2
<1>3. TypeOK'
  BY <1>1, Batches DEF ArenaInv, RowsInv, TypeOK, entries, results
<1>4. (\A r \in Runs : RowOK(r))'
  <2> SUFFICES ASSUME NEW r \in Runs PROVE RowOK(r)'
    OBVIOUS
  <2>1. RowOK(r)
    BY DEF ArenaInv, RowsInv
  <2>2. score[r] <= Len(events'[r])
    BY <1>2, <2>1 DEF RowOK
  <2> QED
    BY <1>1, <2>1, <2>2 DEF RowOK, Has, Free, entries, results
<1>5. (\A r, x \in Runs : PairOK(r, x))' /\ (\A w \in Wallets : BestOK(w))'
  BY <1>1 DEF ArenaInv, RowsInv, PairOK, Active, BestOK, Scored, results
<1>6. \A o \in Requests : Stable(o)
  <2> SUFFICES ASSUME NEW o \in Requests, NEW k \in Held, k = request[o] PROVE Knows(k)'
    BY DEF Stable
  <2>1. Knows(k) /\ (k.op # "idle" => k.run \in Runs)
    BY HeldByOp DEF ArenaInv, HandlersInv
  <2>2. k.op = "finish" => k.seen \in Nat /\ k.seen <= Len(events'[k.run])
    <3> SUFFICES ASSUME k.op = "finish" PROVE k.seen \in Nat /\ k.seen <= Len(events'[k.run])
      OBVIOUS
    <3>1. k.seen \in Nat /\ k.run \in Runs
      BY HeldByOp DEF SeenHeld
    <3>2. k.seen <= Len(events[k.run])
      BY <2>1 DEF Knows
    <3>3. /\ Len(events[k.run]) \in Nat /\ Len(events'[k.run]) \in Nat
          /\ Len(events[k.run]) <= Len(events'[k.run])
      BY <1>2, <3>1
    <3> QED
      BY <3>1, <3>2, <3>3
  <2> QED
    BY <1>1, <2>1, <2>2 DEF Knows, Has, Free, entries, results
<1>7. Idle.op \notin Starting \union Terminating
  BY DEF Idle, Starting, Terminating
<1>8. HandlersInv'
  BY <1>1, <1>6, <1>7, IdleIsHeld, HandlerStep DEF ArenaInv
<1> QED
  BY <1>3, <1>4, <1>5, <1>8 DEF ArenaInv, RowsInv

\* The score of a run and the best of its wallet change together.
LEMMA ScoreStep ==
    ASSUME ArenaInv, NEW q \in Requests, StoreScore(q)
    PROVE  ArenaInv'
<1>1. PICK h \in Held : h = request[q] /\ h.op = "finish" /\ Knows(h)
  BY DEF ArenaInv, HandlersInv, StoreScore
<1> DEFINE r == h.run
           points == h.seen
           v == Payer[entry[r]]
           g == [op |-> "settle", run |-> r]
<1>2. /\ r \in Runs /\ points \in 0..MaxSeq /\ points <= Len(events[r])
      /\ status[r] # "none"
  BY <1>1, HeldByOp DEF SeenHeld, Knows, Begun
<1>3. v \in Wallets
  BY <1>2 DEF ArenaInv, RowsInv, RowOK, TypeOK
<1>4. UNCHANGED <<now, entries, entry, expiresAt, attached, terminating, events, ended, chain>>
  BY DEF StoreScore
<1>5. \/ UNCHANGED <<status, score, best>>
      \/ /\ status[r] = "active"
         /\ status' = [status EXCEPT ![r] = "finished"]
         /\ score' = [score EXCEPT ![r] = points]
         /\ best' = IF Beats(points, best[v]) THEN [best EXCEPT ![v] = r] ELSE best
  BY <1>1 DEF StoreScore, Active, Owner
<1>6. CASE UNCHANGED <<status, score, best>>
  <2> UNCHANGED <<now, entries, run, results, chain>>
    BY <1>4, <1>6 DEF run, results
  <2>1. RowsInv'
    BY QuietRows DEF ArenaInv
  <2>2. \A o \in Requests : Stable(o)
    BY DEF ArenaInv, HandlersInv, Stable, Knows, Has, Free, entries, run, results
  <2>3. PICK k \in {Idle, g} : request' = [request EXCEPT ![q] = k]
    BY <1>1 DEF StoreScore, Answered, Becomes
  <2>4. g \in Held /\ Knows(g)'
    BY <1>2 DEF Held, SettleHeld, Knows, Begun, run
  <2>5. k \in Held /\ Knows(k)' /\ k.op \notin Starting \union Terminating
    BY <2>3, <2>4, IdleIsHeld DEF Idle, Starting, Terminating
  <2>6. HandlersInv'
    BY <2>2, <2>3, <2>5, HandlerStep DEF ArenaInv
  <2> QED
    BY <2>1, <2>6 DEF ArenaInv
<1>7. CASE /\ status[r] = "active"
           /\ status' = [status EXCEPT ![r] = "finished"]
           /\ score' = [score EXCEPT ![r] = points]
           /\ best' = IF Beats(points, best[v]) THEN [best EXCEPT ![v] = r] ELSE best
  <2>1. /\ status'[r] = "finished" /\ score'[r] = points
        /\ \A x \in Runs \ {r} : status'[x] = status[x] /\ score'[x] = score[x]
    BY <1>2, <1>7 DEF ArenaInv, RowsInv, TypeOK
  <2>2. TypeOK'
    BY <1>2, <1>4, <1>7 DEF ArenaInv, RowsInv, TypeOK, entries
  <2>3. (\A x \in Runs : RowOK(x))'
    <3> SUFFICES ASSUME NEW x \in Runs PROVE RowOK(x)'
      OBVIOUS
    <3>1. RowOK(x)
      BY DEF ArenaInv, RowsInv
    <3>2. CASE x = r
      BY <1>2, <1>4, <1>7, <2>1, <3>1, <3>2 DEF RowOK, Has, Free, entries
    <3>3. CASE x # r
      BY <1>4, <2>1, <3>1, <3>3 DEF RowOK, Has, Free, entries
    <3> QED
      BY <3>2, <3>3
  <2>4. (\A x, y \in Runs : PairOK(x, y))'
    <3> SUFFICES ASSUME NEW x \in Runs, NEW y \in Runs PROVE PairOK(x, y)'
      OBVIOUS
    <3>1. PairOK(x, y)
      BY DEF ArenaInv, RowsInv
    <3>2. \A z \in Runs : /\ status'[z] # "none" => status[z] # "none"
                          /\ status'[z] = "active" => status[z] = "active"
      BY <1>7, <2>1
    <3> QED
      BY <1>4, <3>1, <3>2 DEF PairOK, Active
  <2>5. (\A w \in Wallets : BestOK(w))'
    <3> SUFFICES ASSUME NEW w \in Wallets PROVE BestOK(w)'
      OBVIOUS
    <3>1. /\ BestOK(w) /\ best[w] \in Runs \union {NoRun} /\ best \in [Wallets -> Runs \union {NoRun}]
          /\ \A x \in Runs : score[x] \in 0..MaxSeq
      BY DEF ArenaInv, RowsInv, TypeOK
    <3>2. ~Scored(r, w)
      BY <1>7 DEF Scored
    <3>3. best[w] # r
      BY <1>2, <3>1, <3>2 DEF BestOK
    <3>4. \A x \in Runs : Scored(x, w)' <=> Scored(x, w) \/ (x = r /\ w = v)
      BY <1>4, <1>7, <2>1 DEF Scored
    <3>5. CASE w # v
      <4>1. best'[w] = best[w] /\ \A x \in Runs : Scored(x, w)' <=> Scored(x, w)
        BY <1>7, <3>1, <3>4, <3>5
      <4>2. \A x \in Runs : Scored(x, w) => score'[x] = score[x]
        BY <2>1, <3>2
      <4>3. CASE best[w] = NoRun
        BY <3>1, <4>1, <4>3 DEF BestOK
      <4>4. CASE best[w] # NoRun
        <5>1. Scored(best[w], w)' /\ score'[best[w]] = score[best[w]]
          BY <3>1, <3>2, <4>1, <4>2, <4>4 DEF BestOK
        <5> QED
          BY <3>1, <4>1, <4>2, <4>4, <5>1 DEF BestOK, Scored
      <4> QED
        BY <4>3, <4>4
    <3>6. CASE w = v /\ Beats(points, best[v])
      <4>1. best'[w] = r /\ r # NoRun
        BY <1>2, <1>7, <3>1, <3>6
      <4>2. Scored(r, w)' /\ score'[r] = points
        BY <1>2, <2>1, <3>4, <3>6
      <4>3. \A x \in Runs : Scored(x, w)' => score'[x] <= points
        <5> SUFFICES ASSUME NEW x \in Runs, Scored(x, w)' PROVE score'[x] <= points
          OBVIOUS
        <5>1. CASE x = r
          BY <1>2, <2>1, <5>1
        <5>2. CASE x # r
          <6>1. Scored(x, w) /\ score'[x] = score[x]
            BY <2>1, <3>4, <5>2
          <6>2. best[w] \in Runs /\ score[x] <= score[best[w]]
            BY <3>1, <6>1 DEF BestOK
          <6>3. points > score[best[w]]
            BY <3>6, <6>2 DEF Beats
          <6>4. points \in 0..MaxSeq /\ score[x] \in 0..MaxSeq /\ score[best[w]] \in 0..MaxSeq
            BY <1>2, <3>1, <6>2
          <6> HIDE DEF points
          <6> QED
            BY <6>1, <6>2, <6>3, <6>4
        <5> QED
          BY <5>1, <5>2
      <4> QED
        BY <4>1, <4>2, <4>3 DEF BestOK, Scored
    <3>7. CASE w = v /\ ~Beats(points, best[v])
      <4>1. best' = best /\ best[w] \in Runs /\ points <= score[best[w]]
        BY <1>2, <1>7, <3>1, <3>7 DEF Beats
      <4>2. Scored(best[w], w)' /\ score'[best[w]] = score[best[w]]
        BY <2>1, <3>1, <3>3, <3>4, <4>1 DEF BestOK
      <4>3. \A x \in Runs : Scored(x, w)' => score'[x] <= score[best[w]]
        BY <2>1, <3>1, <3>4, <4>1 DEF BestOK
      <4> QED
        BY <4>1, <4>2, <4>3 DEF BestOK, Scored
    <3> QED
      BY <3>5, <3>6, <3>7
  <2>6. \A o \in Requests : Stable(o)
    <3> SUFFICES ASSUME NEW o \in Requests, NEW k \in Held, k = request[o] PROVE Knows(k)'
      BY DEF Stable
    <3>1. Knows(k) /\ (k.op # "idle" => k.run \in Runs)
      BY HeldByOp DEF ArenaInv, HandlersInv
    <3>2. k.op # "idle" => (status'[k.run] = "none" <=> status[k.run] = "none")
      BY <1>7, <2>1, <3>1
    <3> QED
      BY <1>4, <3>1, <3>2 DEF Knows, Begun, Has, Free, entries
  <2>7. request' = [request EXCEPT ![q] = g]
    <3>1. Active(r) /\ (~terminating[r] \/ UNCHANGED <<status, score, best>>)
      BY <1>1, <1>7 DEF StoreScore, Active
    <3>2. status' # status
      BY <1>2, <1>7, <2>1
    <3> QED
      BY <1>1, <3>1, <3>2 DEF StoreScore, Becomes
  <2>8. g \in Held /\ Knows(g)'
    BY <1>2, <2>1 DEF Held, SettleHeld, Knows, Begun
  <2>9. HandlersInv'
    BY <2>6, <2>7, <2>8, HandlerStep DEF ArenaInv, Starting, Terminating
  <2> QED
    BY <2>2, <2>3, <2>4, <2>5, <2>9 DEF ArenaInv, RowsInv
<1> QED
  BY <1>5, <1>6, <1>7

-----------------------------------------------------------------------------
(* The theorems.                                                            *)

LEMMA InitInv == Init => ArenaInv
<1> SUFFICES ASSUME Init PROVE ArenaInv
  OBVIOUS
<1>1. << >> \in Seq(Requests) /\ Len(<< >>) = 0
  OBVIOUS
<1>2. TypeOK
  BY <1>1 DEF Init, TypeOK
<1>3. /\ \A r \in Runs : RowOK(r)
      /\ \A r, x \in Runs : PairOK(r, x)
      /\ \A w \in Wallets : BestOK(w)
  BY <1>1 DEF Init, RowOK, PairOK, BestOK, Scored, Has, Free
<1>4. request \in [Requests -> Held]
  BY IdleIsHeld DEF Init
<1>5. \A q \in Requests : Knows(request[q])
  BY DEF Init, Idle, Knows, Begun
<1>6. Apart
  BY DEF Init, Idle, Apart, Starting
<1> QED
  BY <1>2, <1>3, <1>4, <1>5, <1>6 DEF ArenaInv, RowsInv, HandlersInv

LEMMA ContinueStep ==
    ASSUME ArenaInv, NEW q \in Requests, Continue(q)
    PROVE  ArenaInv'
<1>1. CASE \/ ConsumeFails(q) \/ RunUncertain(q) \/ ReplayFails(q) \/ SettleFails(q)
           \/ CancelFails(q) \/ TerminationFails(q)
  BY <1>1, AnswerSteps
<1>2. CASE BeginRefused(q) \/ RunBegan(q) \/ RunNotFound(q)
  BY <1>2, StartSteps
<1>3. CASE ConsumeEntry(q)
  BY <1>3, ConsumeStep
<1>4. CASE SendBegin(q)
  BY <1>4, SendBeginStep
<1>5. CASE RollbackRun(q)
  BY <1>5, RollbackStep
<1>6. CASE AttachRun(q)
  BY <1>6, AttachStep
<1>7. CASE StoreEvents(q)
  BY <1>7, StoreStep
<1>8. CASE StoreScore(q)
  BY <1>8, ScoreStep
<1>9. CASE SettleRun(q)
  BY <1>9, SettleStep
<1>10. CASE CancelRun(q) \/ TerminationCancels(q)
  BY <1>10, CancelSteps
<1>11. CASE ExpireRun(q)
  BY <1>11, ExpireRunStep
<1>12. CASE TerminationRefused(q) \/ CompleteTermination(q)
  BY <1>12, TerminationSteps
<1> QED
  BY <1>1, <1>2, <1>3, <1>4, <1>5, <1>6, <1>7, <1>8, <1>9, <1>10, <1>11, <1>12 DEF Continue

LEMMA NextInv == ArenaInv /\ [Next]_vars => ArenaInv'
<1> SUFFICES ASSUME ArenaInv, [Next]_vars PROVE ArenaInv'
  OBVIOUS
<1>1. CASE UNCHANGED vars
  <2>1. RowsInv'
    BY <1>1, QuietRows DEF ArenaInv, vars
  <2>2. \A o \in Requests : Stable(o)
    BY <1>1 DEF ArenaInv, HandlersInv, Stable, Knows, Has, Free, vars, entries, run, results
  <2> QED
    BY <1>1, <2>1, <2>2, HandlersStay DEF ArenaInv, vars
<1>2. CASE \E p \in Payments : ConfirmEntry(p)
  BY <1>2, ConfirmStep
<1>3. CASE \E q \in Requests, w \in Wallets : StartRun(q, w)
  BY <1>3, StartRunStep
<1>4. CASE \E q \in Requests, w \in Wallets, token \in BOOLEAN : AbandonRun(q, w, token)
  BY <1>4, ArrivalSteps
<1>5. CASE \E q \in Requests, r \in Runs : AppendEvents(q, r) \/ FinishRun(q, r)
  BY <1>5, ArrivalSteps
<1>6. CASE \E q \in Requests, r \in Runs : ReserveRun(q, r)
  BY <1>6, ReserveStep
<1>7. CASE \E q \in Requests : Continue(q)
  BY <1>7, ContinueStep
<1>8. CASE \E r \in Runs : MineBegin(r)
  BY <1>8, MineBeginStep
<1>9. CASE (\E r \in Runs : RevertBegin(r)) \/ (\E w \in Wallets : RecoverMiner(w))
  BY <1>9, EndSteps
<1>10. CASE \E r \in Runs : ExpireOpened(r)
  BY <1>10, ExpireOpenedStep
<1>11. CASE Restart
  BY <1>11, RestartStep
<1>12. CASE Tick
  BY <1>12, TickStep
<1> QED
  BY <1>1, <1>2, <1>3, <1>4, <1>5, <1>6, <1>7, <1>8, <1>9, <1>10, <1>11, <1>12 DEF Next

\* The rows, Ronin and what the handlers hold agree in every reachable state.
THEOREM ArenaInvariant == Spec => []ArenaInv
BY InitInv, NextInv, PTL DEF Spec

\* The tables, Ronin and the best scores keep their types, for any number of
\* handlers, and no transcript outgrows ARENA_MAX_EVENTS.
THEOREM ArenaTypeCorrect == Spec => []TypeOK
<1>1. ArenaInv => TypeOK
  BY DEF ArenaInv, RowsInv
<1> QED
  BY <1>1, ArenaInvariant, PTL

\* An entry buys one attempt: consumeEntryAndStart, the rollback of a start that
\* Ronin never began, a repeated confirmation and an administrator's termination
\* leave every live or scored run on the entry that counts it, one run to a wallet.
THEOREM EntriesBuyOneAttempt == Spec => []AttemptsMatchEntries
<1>1. ArenaInv => AttemptsMatchEntries
  <2> SUFFICES ASSUME ArenaInv PROVE AttemptsMatchEntries
    OBVIOUS
  <2>1. \A r \in Runs : status[r] \in {"active", "finished"} =>
           entry[r] \in confirmed /\ usedBy[entry[r]] = r
    BY DEF ArenaInv, RowsInv, RowOK
  <2>2. ASSUME NEW w \in Wallets PROVE Cardinality(ActiveRuns(w)) <= 1
    <3>1. \A r, x \in ActiveRuns(w) : r = x
      BY DEF ActiveRuns, OwnRuns, ArenaInv, RowsInv, PairOK
    <3>2. CASE ActiveRuns(w) = {}
      BY <3>2, FS_EmptySet
    <3>3. CASE ActiveRuns(w) # {}
      <4>1. PICK r \in ActiveRuns(w) : ActiveRuns(w) = {r}
        BY <3>1, <3>3
      <4> QED
        BY <4>1, FS_Singleton
    <3> QED
      BY <3>2, <3>3
  <2> QED
    BY <2>1, <2>2 DEF AttemptsMatchEntries
<1> QED
  BY <1>1, ArenaInvariant, PTL

\* finishRun of the store keeps a wallet's best, whichever of its handlers commits
\* first, and scores no more than the transcript it has.
THEOREM BestScoreKept == Spec => []BestScoreStands
<1>1. ArenaInv => BestScoreStands
  <2> SUFFICES ASSUME ArenaInv PROVE BestScoreStands
    OBVIOUS
  <2>1. \A r \in Runs : score[r] <= Len(events[r])
    BY DEF ArenaInv, RowsInv, RowOK
  <2>2. ASSUME NEW w \in Wallets
        PROVE  LET scored == {r \in OwnRuns(w) : status[r] = "finished"}
               IN  IF scored = {} THEN best[w] = NoRun
                   ELSE best[w] \in scored /\ \A r \in scored : score[r] <= score[best[w]]
    <3> DEFINE scored == {r \in OwnRuns(w) : status[r] = "finished"}
    <3>1. BestOK(w) /\ best[w] \in Runs \union {NoRun}
      BY DEF ArenaInv, RowsInv, TypeOK
    <3>2. \A r \in Runs : r \in scored <=> Scored(r, w)
      BY DEF OwnRuns, Scored
    <3>3. scored \subseteq Runs
      BY DEF OwnRuns
    <3> QED
      BY <3>1, <3>2, <3>3 DEF BestOK
  <2> QED
    BY <2>1, <2>2 DEF BestScoreStands
<1> QED
  BY <1>1, ArenaInvariant, PTL

\* A run that expireAdminTermination ended holds its Miner no more: Ronin settled it
\* as a death before, or refused to begin it.
THEOREM TerminationReleases == Spec => []TerminatedIsReleased
<1>1. ArenaInv => TerminatedIsReleased
  BY DEF ArenaInv, RowsInv, TypeOK, RowOK, Free, TerminatedIsReleased
<1> QED
  BY <1>1, ArenaInvariant, PTL

\* What a step does to a run that an administrator has reserved.
LEMMA ReservedStep ==
    ASSUME ArenaInv, Next, NEW r \in Runs, Active(r), terminating[r]
    PROVE  /\ events'[r] = events[r] /\ score'[r] = score[r] /\ attached'[r] = attached[r]
           /\ status'[r] # "active" => status'[r] = "expired" /\ r \in ended'
<1> DEFINE Kept == /\ events'[r] = events[r] /\ score'[r] = score[r]
                   /\ attached'[r] = attached[r] /\ status'[r] = status[r]
<1>1. /\ status \in [Runs -> Statuses] /\ score \in [Runs -> 0..MaxSeq]
      /\ attached \in [Runs -> BOOLEAN] /\ status[r] = "active"
  BY DEF ArenaInv, RowsInv, TypeOK, Statuses, Active
<1>2. SUFFICES \/ Kept
               \/ /\ events'[r] = events[r] /\ score'[r] = score[r] /\ attached'[r] = attached[r]
                  /\ status'[r] = "expired" /\ r \in ended'
  BY <1>1
<1>3. CASE \/ UNCHANGED run
           \/ \E q \in Requests : TerminationRefused(q)
           \/ \E q \in Requests, x \in Runs : ReserveRun(q, x)
  BY <1>3 DEF run, TerminationRefused, ReserveRun
<1>4. CASE \E q \in Requests, w \in Wallets : StartRun(q, w)
  BY <1>1, <1>4 DEF StartRun, ActiveRuns, OwnRuns, Active
<1>5. CASE \E x \in Runs : ExpireOpened(x)
  BY <1>1, <1>5 DEF ExpireOpened, Active
<1>6. ASSUME NEW q \in Requests, Continue(q), ~UNCHANGED run, ~TerminationRefused(q)
      PROVE  \/ Kept
             \/ /\ events'[r] = events[r] /\ score'[r] = score[r]
                /\ attached'[r] = attached[r]
                /\ status'[r] = "expired" /\ r \in ended'
  <2>1. PICK h \in Held : h = request[q] /\ Knows(h)
    BY DEF ArenaInv, HandlersInv
  <2>2. CASE ConsumeEntry(q)
    BY <1>1, <2>1, <2>2 DEF ConsumeEntry, Knows
  <2>3. CASE RollbackRun(q)
    BY <1>1, <2>1, <2>3 DEF RollbackRun, Knows, Begun
  <2>4. CASE AttachRun(q)
    BY <1>1, <2>1, <2>4 DEF AttachRun, Knows, Begun
  <2>5. CASE StoreEvents(q)
    BY <2>5, Batches DEF StoreEvents
  <2>6. CASE StoreScore(q)
    BY <1>1, <2>1, <2>6 DEF StoreScore
  <2>7. CASE ExpireRun(q)
    BY <1>1, <2>7 DEF ExpireRun, Expirable
  <2>8. CASE CompleteTermination(q)
    BY <1>1, <2>1, <2>8 DEF CompleteTermination
  <2>9. CASE \/ ConsumeFails(q) \/ BeginRefused(q) \/ SendBegin(q) \/ RunBegan(q)
             \/ RunNotFound(q) \/ RunUncertain(q) \/ ReplayFails(q) \/ SettleRun(q)
             \/ SettleFails(q) \/ CancelRun(q) \/ CancelFails(q) \/ TerminationCancels(q)
             \/ TerminationFails(q)
    BY <1>6, <2>9 DEF ConsumeFails, BeginRefused, SendBegin, RunBegan, RunNotFound,
       RunUncertain, ReplayFails, SettleRun, SettleFails, CancelRun, CancelFails,
       TerminationCancels, TerminationFails
  <2> QED
    BY <1>6, <2>2, <2>3, <2>4, <2>5, <2>6, <2>7, <2>8, <2>9 DEF Continue
<1>7. CASE \/ \E p \in Payments : ConfirmEntry(p)
           \/ \E q \in Requests, w \in Wallets, token \in BOOLEAN : AbandonRun(q, w, token)
           \/ \E q \in Requests, x \in Runs : AppendEvents(q, x) \/ FinishRun(q, x)
           \/ \E x \in Runs : MineBegin(x) \/ RevertBegin(x)
           \/ \E w \in Wallets : RecoverMiner(w)
           \/ Restart
           \/ Tick
  <2>1. UNCHANGED run
    BY <1>7 DEF ConfirmEntry, AbandonRun, AppendEvents, FinishRun, MineBegin, RevertBegin,
       RecoverMiner, Restart, Tick
  <2> QED
    BY <1>3, <2>1
<1> HIDE DEF Kept
<1> QED
  BY <1>3, <1>4, <1>5, <1>6, <1>7 DEF Next

\* While an administrator is ending a run, no event, score or attachment of it gets
\* in and only expireAdminTermination expires it, whatever was read before.
THEOREM ReservationKept == Spec => ReservationHolds
<1>1. ArenaInv /\ [Next]_vars =>
         [\A r \in Runs : Active(r) /\ terminating[r] =>
             /\ events'[r] = events[r] /\ score'[r] = score[r] /\ attached'[r] = attached[r]
             /\ status'[r] # "active" => status'[r] = "expired" /\ r \in ended']_vars
  BY ReservedStep
<1> QED
  BY <1>1, ArenaInvariant, PTL DEF Spec, ReservationHolds

\* appendEvents of the store compares the checkpoint again inside its transaction:
\* a transcript grows by one batch at a time and only while its run is live.
THEOREM TranscriptsGrow == Spec => TranscriptGrows
<1>1. ASSUME ArenaInv, Next, NEW r \in Runs, events'[r] # events[r]
      PROVE  /\ Active(r) /\ status'[r] = "active"
             /\ \E q \in Requests : events'[r] = Append(events[r], q)
  <2>1. PICK q \in Requests : StoreEvents(q)
    BY <1>1 DEF Next, Continue, ConfirmEntry, StartRun, AbandonRun, AppendEvents, FinishRun,
       ReserveRun, MineBegin, RevertBegin, ExpireOpened, RecoverMiner, Restart, Tick,
       ConsumeEntry, ConsumeFails, BeginRefused, SendBegin, RunBegan, RunNotFound,
       RunUncertain, RollbackRun, AttachRun, ReplayFails, StoreScore, SettleRun, SettleFails,
       CancelRun, CancelFails, ExpireRun, TerminationCancels, TerminationRefused,
       TerminationFails, CompleteTermination, run
  <2> QED
    BY <1>1, <2>1, Batches DEF StoreEvents, Active
<1>2. ArenaInv /\ [Next]_vars =>
         [\A r \in Runs : events'[r] # events[r] =>
             /\ Active(r) /\ status'[r] = "active"
             /\ \E q \in Requests : events'[r] = Append(events[r], q)]_vars
  BY <1>1
<1> QED
  BY <1>2, ArenaInvariant, PTL DEF Spec, TranscriptGrows

-----------------------------------------------------------------------------
(* The lock that keeps starts and terminations apart.                       *)

USE CallersAssumption

\* The gate of p: who is inside agrees with its counters, the queue is exactly
\* those that wait, and only those wait whom someone inside keeps out.
Within(p, ph) == {r \in Callers : HomeOf[r] = p /\ ph[r] \in Inside}

QueueOf(p, ph, q) ==
    /\ q \in Seq(Callers)
    /\ \A i \in 1..Len(q) : HomeOf[q[i]] = p /\ ph[q[i]] = "waiting"
    /\ \A i, j \in 1..Len(q) : q[i] = q[j] => i = j
    /\ \A r \in Callers : HomeOf[r] = p /\ ph[r] = "waiting" => \E i \in 1..Len(q) : q[i] = r

Counted(p, ph, readers, writer) ==
    IF writer
    THEN readers = 0 /\ \E w \in Callers : Within(p, ph) = {w} /\ GateMode(w) = "exclusive"
    ELSE /\ readers = Cardinality(Within(p, ph))
         /\ \A r \in Within(p, ph) : GateMode(r) = "shared"

Woken(p, ph, writer, q) ==
    q # << >> => Within(p, ph) # {} /\ (GateMode(q[1]) = "shared" => writer)

GateAt(p, ph, readers, writer, q) ==
    /\ writer \in BOOLEAN /\ readers \in Nat
    /\ QueueOf(p, ph, q) /\ Counted(p, ph, readers, writer) /\ Woken(p, ph, writer, q)

GateOK(p) == GateAt(p, phase, activeReaders[p], activeWriter[p], waiting[p])

LEMMA Modes == \A r \in Callers : GateMode(r) \in {"shared", "exclusive"}
BY DEF GateMode

LEMMA WithinFinite ==
    ASSUME NEW p, NEW ph
    PROVE  IsFiniteSet(Within(p, ph)) /\ Cardinality(Within(p, ph)) \in Nat
<1>1. IsFiniteSet(Within(p, ph))
  BY FS_Subset DEF Within
<1> QED
  BY <1>1, FS_CardinalityType

\* A gate is disturbed only by those who come, enter or leave.
LEMMA GateSame ==
    ASSUME NEW p, NEW ph, NEW new, NEW readers, NEW writer, NEW q,
           GateAt(p, ph, readers, writer, q),
           \A r \in Callers : HomeOf[r] = p =>
              /\ new[r] \in Inside <=> ph[r] \in Inside
              /\ new[r] = "waiting" <=> ph[r] = "waiting"
    PROVE  GateAt(p, new, readers, writer, q)
<1>1. Within(p, new) = Within(p, ph)
  BY DEF Within
<1>2. QueueOf(p, new, q)
  <2>1. \A i \in 1..Len(q) : q[i] \in Callers
    BY DEF GateAt, QueueOf
  <2> QED
    BY <2>1 DEF GateAt, QueueOf
<1> QED
  BY <1>1, <1>2 DEF GateAt, Counted, Woken

\* How many a drain lets in.
LEMMA AdmittedRun ==
    ASSUME NEW q \in Seq(Callers)
    PROVE  /\ Admitted(q) \in 0..Len(q)
           /\ q # << >> => Admitted(q) >= 1
           /\ q # << >> /\ GateMode(q[1]) = "exclusive" => Admitted(q) = 1
           /\ q # << >> /\ GateMode(q[1]) # "exclusive" =>
                 /\ \A i \in 1..Admitted(q) : GateMode(q[i]) = "shared"
                 /\ Admitted(q) < Len(q) => GateMode(q[Admitted(q) + 1]) # "shared"
<1> DEFINE n == Len(q)
           front(k) == /\ \A i \in 1..k : GateMode(q[i]) = "shared"
                       /\ k < n => GateMode(q[k + 1]) # "shared"
<1>1. n \in Nat /\ \A i \in 1..n : q[i] \in Callers
  OBVIOUS
<1>2. CASE q = << >>
  BY <1>2 DEF Admitted
<1>3. CASE q # << >> /\ GateMode(q[1]) = "exclusive"
  BY <1>1, <1>3 DEF Admitted
<1>4. CASE q # << >> /\ GateMode(q[1]) # "exclusive"
  <2>1. n >= 1 /\ GateMode(q[1]) = "shared"
    BY <1>1, <1>4, Modes
  <2>2. \E k \in 1..n : front(k)
    <3> DEFINE S == {i \in 1..n : GateMode(q[i]) # "shared"}
    <3>1. CASE S = {}
      <4>1. front(n) /\ n \in 1..n
        BY <1>1, <2>1, <3>1
      <4> QED
        BY <4>1
    <3>2. CASE S # {}
      <4>1. S \in SUBSET Nat
        OBVIOUS
      <4>2. PICK m \in S : \A i \in S : m <= i
        <5> HIDE DEF S
        <5>1. Min(S) \in S /\ \A i \in S : Min(S) <= i
          BY <3>2, <4>1, LeastOfNumbers
        <5> QED
          BY <5>1
      <4>3. m \in 2..n
        BY <2>1, <4>2
      <4>4. \A i \in 1..(m - 1) : GateMode(q[i]) = "shared"
        <5> SUFFICES ASSUME NEW i \in 1..(m - 1), GateMode(q[i]) # "shared" PROVE FALSE
          OBVIOUS
        <5>1. i \in S /\ i < m
          BY <4>3
        <5> QED
          BY <4>2, <4>3, <5>1
      <4>5. m - 1 \in 1..n /\ (m - 1) + 1 = m /\ GateMode(q[m]) # "shared"
        BY <4>2, <4>3
      <4> QED
        BY <4>4, <4>5
    <3> QED
      BY <3>1, <3>2
  <2>3. Admitted(q) = CHOOSE k \in 1..n : front(k)
    BY <1>4 DEF Admitted
  <2> HIDE DEF front
  <2>4. Admitted(q) \in 1..n /\ front(Admitted(q))
    BY <2>2, <2>3
  <2> QED
    BY <1>1, <1>4, <2>4 DEF front
<1> QED
  BY <1>2, <1>3, <1>4

\* A gate that somebody has just left with these readers, before it is drained.
Left(p, ph, readers, q) ==
    /\ readers \in Nat /\ QueueOf(p, ph, q) /\ Counted(p, ph, readers, FALSE)
    /\ q # << >> /\ readers > 0 => GateMode(q[1]) # "shared"

Admits(q, k) == {q[i] : i \in 1..k}
Entered(ph, q, k) == [s \in Callers |-> IF s \in Admits(q, k) THEN "granted" ELSE ph[s]]

\* The first k of a queue enter: the rest is the queue, and inside are k more.
LEMMA EnterFront ==
    ASSUME NEW p, NEW ph, NEW q, QueueOf(p, ph, q), NEW k \in 0..Len(q)
    PROVE  /\ QueueOf(p, Entered(ph, q, k), SubSeq(q, k + 1, Len(q)))
           /\ Within(p, Entered(ph, q, k)) = Within(p, ph) \cup Admits(q, k)
           /\ Within(p, ph) \cap Admits(q, k) = {}
           /\ Cardinality(Within(p, Entered(ph, q, k))) = Cardinality(Within(p, ph)) + k
           /\ Admits(q, k) \subseteq Callers
<1> DEFINE new == Entered(ph, q, k)
           rest == SubSeq(q, k + 1, Len(q))
<1>1. q \in Seq(Callers) /\ Len(q) \in Nat /\ \A i \in 1..Len(q) : q[i] \in Callers
  BY DEF QueueOf
<1>2. Admits(q, k) \subseteq Callers
  BY <1>1 DEF Admits
<1>3. /\ rest \in Seq(Callers) /\ Len(rest) = Len(q) - k
      /\ \A i \in 1..(Len(q) - k) : rest[i] = q[i + k] /\ i + k \in 1..Len(q)
  BY <1>1, SubSeqProperties
<1>4. \A i \in 1..Len(q) : i > k => q[i] \notin Admits(q, k)
  BY <1>1 DEF Admits, QueueOf
<1>5. \A s \in Callers : new[s] = IF s \in Admits(q, k) THEN "granted" ELSE ph[s]
  BY DEF Entered
<1>6. QueueOf(p, new, rest)
  <2>1. \A i \in 1..Len(rest) : HomeOf[rest[i]] = p /\ new[rest[i]] = "waiting"
    <3> SUFFICES ASSUME NEW i \in 1..Len(rest)
                 PROVE  HomeOf[rest[i]] = p /\ new[rest[i]] = "waiting"
      OBVIOUS
    <3>1. rest[i] = q[i + k] /\ i + k \in 1..Len(q) /\ i + k > k
      BY <1>1, <1>3
    <3>2. q[i + k] \notin Admits(q, k) /\ HomeOf[q[i + k]] = p /\ ph[q[i + k]] = "waiting"
      BY <1>4, <3>1 DEF QueueOf
    <3> HIDE DEF new, rest
    <3> QED
      BY <1>1, <1>5, <3>1, <3>2
  <2>2. \A i, j \in 1..Len(rest) : rest[i] = rest[j] => i = j
    <3> SUFFICES ASSUME NEW i \in 1..Len(rest), NEW j \in 1..Len(rest), rest[i] = rest[j]
                 PROVE  i = j
      OBVIOUS
    <3>1. /\ rest[i] = q[i + k] /\ i + k \in 1..Len(q)
          /\ rest[j] = q[j + k] /\ j + k \in 1..Len(q)
      BY <1>1, <1>3
    <3>2. i + k = j + k
      BY <3>1 DEF QueueOf
    <3> QED
      BY <1>3, <3>2
  <2>3. ASSUME NEW r \in Callers, HomeOf[r] = p, new[r] = "waiting"
        PROVE  \E i \in 1..Len(rest) : rest[i] = r
    <3>1. r \notin Admits(q, k) /\ ph[r] = "waiting"
      BY <1>5, <2>3
    <3>2. PICK j \in 1..Len(q) : q[j] = r
      BY <2>3, <3>1 DEF QueueOf
    <3>3. j > k
      BY <1>1, <3>1, <3>2 DEF Admits
    <3>4. j - k \in 1..Len(rest) /\ rest[j - k] = q[j]
      <4>1. j - k \in 1..(Len(q) - k) /\ (j - k) + k = j
        BY <1>1, <3>3
      <4> QED
        BY <1>3, <4>1
    <3> QED
      BY <3>2, <3>4
  <2> QED
    BY <1>3, <2>1, <2>2, <2>3 DEF QueueOf
<1>7. \A s \in Admits(q, k) : HomeOf[s] = p /\ ph[s] = "waiting"
  BY <1>1 DEF Admits, QueueOf
<1>8. Within(p, new) = Within(p, ph) \cup Admits(q, k)
  <2>1. "granted" \in Inside
    BY DEF Inside
  <2> HIDE DEF new
  <2> QED
    BY <1>2, <1>5, <1>7, <2>1 DEF Within
<1>9. Within(p, ph) \cap Admits(q, k) = {}
  BY <1>7 DEF Within, Inside
<1>10. IsFiniteSet(Admits(q, k)) /\ Cardinality(Admits(q, k)) = k
  <2> DEFINE f == [i \in 1..k |-> q[i]]
  <2>1. f \in Bijection(1..k, Admits(q, k))
    <3>1. \A i, j \in 1..k : f[i] = f[j] => i = j
      BY <1>1 DEF QueueOf
    <3>2. f \in [1..k -> Admits(q, k)]
      BY DEF Admits
    <3>3. \A s \in Admits(q, k) : \E i \in 1..k : f[i] = s
      BY DEF Admits
    <3> HIDE DEF f
    <3>4. f \in Injection(1..k, Admits(q, k)) /\ f \in Surjection(1..k, Admits(q, k))
      BY <3>1, <3>2, <3>3 DEF Injection, Surjection, IsInjective
    <3> QED
      BY <3>4 DEF Bijection
  <2>2. IsFiniteSet(1..k) /\ Cardinality(1..k) = k
    BY FS_Interval
  <2> HIDE DEF f
  <2> QED
    BY <2>1, <2>2, FS_Bijection DEF ExistsBijection
<1>11. Cardinality(Within(p, new)) = Cardinality(Within(p, ph)) + k
  <2>1. Cardinality(Within(p, ph) \cup Admits(q, k)) =
          Cardinality(Within(p, ph)) + Cardinality(Admits(q, k))
            - Cardinality(Within(p, ph) \cap Admits(q, k))
    BY <1>10, WithinFinite, FS_Union
  <2>2. Cardinality(Within(p, ph) \cap Admits(q, k)) = 0
    BY <1>9, FS_EmptySet
  <2> QED
    BY <1>8, <1>10, <2>1, <2>2, WithinFinite
<1> QED
  BY <1>2, <1>6, <1>8, <1>9, <1>11

\* A drain leaves nobody waiting whom nobody keeps out.
LEMMA DrainGate ==
    ASSUME NEW p, NEW ph, NEW readers, NEW q, Left(p, ph, readers, q),
           NEW k, k = IF readers > 0 THEN 0 ELSE Admitted(q),
           NEW writer \in BOOLEAN, writer <=> k > 0 /\ GateMode(q[1]) = "exclusive",
           NEW left, left = readers + (IF writer THEN 0 ELSE k)
    PROVE  GateAt(p, Entered(ph, q, k), left, writer, SubSeq(q, k + 1, Len(q)))
<1> DEFINE new == Entered(ph, q, k)
           rest == SubSeq(q, k + 1, Len(q))
<1>1. q \in Seq(Callers) /\ Len(q) \in Nat /\ readers \in Nat /\ QueueOf(p, ph, q)
      /\ \A i \in 1..Len(q) : q[i] \in Callers
  BY DEF Left, QueueOf
<1>2. k \in 0..Len(q)
  BY <1>1, AdmittedRun
<1>3. /\ QueueOf(p, new, rest)
      /\ Within(p, new) = Within(p, ph) \cup Admits(q, k)
      /\ Cardinality(Within(p, new)) = Cardinality(Within(p, ph)) + k
  BY <1>1, <1>2, EnterFront
<1>4. readers = Cardinality(Within(p, ph)) /\ \A r \in Within(p, ph) : GateMode(r) = "shared"
  BY DEF Left, Counted
<1>5. rest # << >> => k < Len(q) /\ rest[1] = q[k + 1]
  BY <1>1, <1>2, SubSeqProperties, SMTT(30)
<1> HIDE DEF new, rest
<1>6. CASE readers > 0
  <2>1. k = 0 /\ writer = FALSE /\ Admits(q, k) = {} /\ left = readers
    BY <1>1, <1>6 DEF Admits
  <2>2. Counted(p, new, readers, FALSE)
    BY <1>1, <1>3, <1>4, <2>1, WithinFinite DEF Counted
  <2>3. Within(p, ph) # {}
    BY <1>4, <1>6, FS_EmptySet
  <2>4. rest # << >> => GateMode(rest[1]) # "shared"
    BY <1>1, <1>5, <1>6, <2>1 DEF Left
  <2>5. Woken(p, new, FALSE, rest)
    BY <1>3, <2>3, <2>4 DEF Woken
  <2> QED
    BY <1>1, <1>3, <2>1, <2>2, <2>5 DEF GateAt, new, rest
<1>7. CASE readers = 0
  <2>1. Within(p, ph) = {} /\ k = Admitted(q)
    <3>1. Cardinality(Within(p, ph)) = 0
      BY <1>4, <1>7
    <3>2. Within(p, ph) = {}
      BY <3>1, WithinFinite, FS_EmptySet
    <3> QED
      BY <1>7, <3>2
  <2>2. CASE q = << >>
    <3>1. k = 0 /\ writer = FALSE /\ Admits(q, k) = {} /\ rest = << >> /\ left = readers
      <4>1. k = 0 /\ writer = FALSE /\ Admits(q, k) = {}
        BY <2>1, <2>2 DEF Admitted, Admits
      <4>2. rest = << >>
        BY <1>5, <2>2, <4>1
      <4> QED
        BY <1>1, <4>1, <4>2
    <3>2. Counted(p, new, readers, FALSE)
      BY <1>3, <1>4, <1>7, <3>1, WithinFinite DEF Counted
    <3>3. Woken(p, new, FALSE, rest)
      BY <3>1 DEF Woken
    <3> QED
      BY <1>1, <1>3, <3>1, <3>2, <3>3 DEF GateAt, new, rest
  <2>3. CASE q # << >> /\ GateMode(q[1]) = "exclusive"
    <3>1. k = 1 /\ writer = TRUE /\ left = 0
      <4>1. k = 1
        BY <1>1, <2>1, <2>3, AdmittedRun
      <4> QED
        BY <1>7, <2>3, <4>1
    <3>2. Within(p, new) = {q[1]} /\ q[1] \in Callers
      <4>1. Admits(q, 1) = {q[1]}
        BY DEF Admits
      <4> QED
        BY <1>1, <1>3, <2>1, <2>3, <3>1, <4>1
    <3>3. Counted(p, new, 0, TRUE) /\ Woken(p, new, TRUE, rest)
      BY <2>3, <3>2 DEF Counted, Woken
    <3>4. GateAt(p, new, 0, TRUE, rest)
      BY <1>3, <3>3 DEF GateAt
    <3> QED
      BY <3>1, <3>4 DEF new, rest
  <2>4. CASE q # << >> /\ GateMode(q[1]) # "exclusive"
    <3>1. /\ k >= 1 /\ writer = FALSE
          /\ \A i \in 1..k : GateMode(q[i]) = "shared"
          /\ k < Len(q) => GateMode(q[k + 1]) # "shared"
      BY <1>1, <2>1, <2>4, AdmittedRun
    <3>2. \A r \in Within(p, new) : GateMode(r) = "shared"
      BY <1>3, <2>1, <3>1 DEF Admits
    <3>3. Within(p, new) # {}
      <4>1. q[1] \in Admits(q, k)
        BY <1>2, <3>1 DEF Admits
      <4> QED
        BY <1>3, <4>1
    <3>4. left = Cardinality(Within(p, new)) /\ left \in Nat
      BY <1>2, <1>3, <1>4, <1>7, <3>1
    <3>5. Counted(p, new, left, FALSE)
      BY <3>2, <3>4 DEF Counted
    <3>6. Woken(p, new, FALSE, rest)
      BY <1>5, <3>1, <3>3 DEF Woken
    <3>7. GateAt(p, new, left, FALSE, rest)
      BY <1>3, <3>4, <3>5, <3>6 DEF GateAt
    <3> QED
      BY <3>1, <3>7 DEF new, rest
  <2> QED
    BY <2>2, <2>3, <2>4
<1> QED
  BY <1>1, <1>6, <1>7

\* Somebody inside leaves.
LEMMA Leaving ==
    ASSUME NEW p, NEW ph \in [Callers -> Phases], NEW readers, NEW writer, NEW q,
           GateAt(p, ph, readers, writer, q),
           NEW r \in Callers, ph[r] \in Inside, HomeOf[r] = p,
           NEW rest, rest = IF GateMode(r) = "shared" THEN readers - 1 ELSE readers
    PROVE  Left(p, [ph EXCEPT ![r] = "idle"], rest, q)
<1> DEFINE new == [ph EXCEPT ![r] = "idle"]
<1>1. new[r] = "idle" /\ \A s \in Callers \ {r} : new[s] = ph[s]
  OBVIOUS
<1>2. "idle" \notin Inside /\ ph[r] # "waiting"
  BY DEF Inside
<1> HIDE DEF new
<1>3. Within(p, new) = Within(p, ph) \ {r} /\ r \in Within(p, ph)
  BY <1>1, <1>2 DEF Within
<1>4. QueueOf(p, new, q)
  <2>1. \A i \in 1..Len(q) : q[i] \in Callers
    BY DEF GateAt, QueueOf
  <2> QED
    BY <1>1, <1>2, <2>1 DEF GateAt, QueueOf
<1>5. Cardinality(Within(p, new)) = Cardinality(Within(p, ph)) - 1
  <2>1. IsFiniteSet(Within(p, ph))
    BY WithinFinite
  <2>2. Cardinality(Within(p, ph) \ {r}) = Cardinality(Within(p, ph)) - 1
    BY <1>3, <2>1, FS_RemoveElement, Zenon
  <2> QED
    BY <1>3, <2>2
<1>6. CASE writer = TRUE
  <2>1. PICK w \in Callers : Within(p, ph) = {w} /\ GateMode(w) = "exclusive" /\ readers = 0
    BY <1>6 DEF GateAt, Counted
  <2>2. Within(p, new) = {} /\ rest = 0
    BY <1>3, <2>1
  <2>3. Cardinality(Within(p, new)) = 0
    BY <2>2, FS_EmptySet
  <2>4. Counted(p, new, rest, FALSE) /\ rest \in Nat /\ ~(rest > 0)
    BY <2>2, <2>3 DEF Counted
  <2> QED
    BY <1>4, <2>4 DEF Left, new
<1>7. CASE writer = FALSE
  <2>1. readers = Cardinality(Within(p, ph)) /\ \A s \in Within(p, ph) : GateMode(s) = "shared"
    BY <1>7 DEF GateAt, Counted
  <2>2. rest = Cardinality(Within(p, new)) /\ rest \in Nat
    BY <1>3, <1>5, <2>1, WithinFinite
  <2>3. Counted(p, new, rest, FALSE)
    BY <1>3, <2>1, <2>2 DEF Counted
  <2>4. q # << >> => GateMode(q[1]) # "shared"
    BY <1>7 DEF GateAt, Woken
  <2> QED
    BY <1>4, <2>2, <2>3, <2>4 DEF Left, new
<1> QED
  BY <1>6, <1>7 DEF GateAt

\* What a gate is in the next state: the pool is configured once.
LEMMA GateNext ==
    ASSUME NEW p, lockPool' = lockPool,
           GateAt(p, phase', activeReaders'[p], activeWriter'[p], waiting'[p])
    PROVE  GateOK(p)'
BY DEF GateOK, GateAt, Counted, Woken, GateMode, QueueOf, Within

GatesTyped ==
    /\ phase \in [Callers -> Phases]
    /\ activeReaders \in [Processes -> Nat]
    /\ activeWriter \in [Processes -> BOOLEAN]
    /\ waiting \in [Processes -> Seq(Callers)]

\* Leaving a gate and draining it.
LEMMA LeaveStep ==
    ASSUME GatesTyped, lockPool' = lockPool, \A p \in Processes : GateOK(p),
           NEW r \in Callers, phase[r] \in Inside, Leave(r)
    PROVE  /\ GatesTyped' /\ \A p \in Processes : GateOK(p)'
           /\ phase'[r] = "idle"
           /\ \A s \in Callers \ {r} :
                 phase'[s] = phase[s] \/ (phase[s] = "waiting" /\ phase'[s] = "granted")
           /\ \A s, t \in Callers : ~Overtakes(s, t)
<1> DEFINE p == HomeOf[r]
           q == waiting[p]
           after == [phase EXCEPT ![r] = "idle"]
           readers == IF GateMode(r) = "shared" THEN activeReaders[p] - 1 ELSE activeReaders[p]
           k == IF readers > 0 THEN 0 ELSE Admitted(q)
<1>1. p \in Processes /\ q \in Seq(Callers) /\ GateOK(p)
  BY CallersAssumption DEF GatesTyped
<1>2. PICK writer \in BOOLEAN : writer <=> (k > 0 /\ GateMode(q[1]) = "exclusive")
  OBVIOUS
<1>3. PICK left : left = readers + (IF writer THEN 0 ELSE k)
  OBVIOUS
<1>4. /\ phase' = Entered(after, q, k)
      /\ waiting' = [waiting EXCEPT ![p] = SubSeq(q, k + 1, Len(q))]
  BY DEF Leave, Drain, Entered, Admits
<1>5. activeWriter' = [activeWriter EXCEPT ![p] = writer]
  BY <1>2 DEF Leave, Drain
<1>6. activeReaders' = [activeReaders EXCEPT ![p] = left]
  BY <1>2, <1>3 DEF Leave, Drain
<1>7. Left(p, after, readers, q)
  BY <1>1, Leaving DEF GateOK, GatesTyped
<1>8. GateAt(p, Entered(after, q, k), left, writer, SubSeq(q, k + 1, Len(q)))
  <2> HIDE DEF after, readers, q, p
  <2> QED
    BY <1>2, <1>3, <1>7, DrainGate
<1>9. /\ GatesTyped'
      /\ activeReaders'[p] = left /\ activeWriter'[p] = writer
      /\ waiting'[p] = SubSeq(q, k + 1, Len(q))
      /\ \A o \in Processes \ {p} : /\ activeReaders'[o] = activeReaders[o]
                                  /\ activeWriter'[o] = activeWriter[o]
                                  /\ waiting'[o] = waiting[o]
  <2>1. left \in Nat /\ SubSeq(q, k + 1, Len(q)) \in Seq(Callers)
    <3> HIDE DEF after, readers, q, k
    <3> QED
      BY <1>8 DEF GateAt, QueueOf
  <2>2. Entered(after, q, k) \in [Callers -> Phases]
    BY DEF Entered, GatesTyped, Phases
  <2> HIDE DEF after, readers, q, k
  <2> QED
    BY <1>1, <1>4, <1>5, <1>6, <2>1, <2>2 DEF GatesTyped
<1>10. Admits(q, k) \subseteq Callers /\ \A s \in Admits(q, k) : phase[s] = "waiting" /\ HomeOf[s] = p
  <2>1. k \in 0..Len(q)
    BY <1>1, <1>7, AdmittedRun DEF Left
  <2> HIDE DEF after, readers, k
  <2> QED
    BY <1>1, <2>1 DEF GateOK, GateAt, QueueOf, Admits
<1>11. /\ phase'[r] = "idle"
       /\ \A s \in Admits(q, k) : phase'[s] = "granted"
       /\ \A s \in Callers \ Admits(q, k) : s # r => phase'[s] = phase[s]
  <2>1. r \notin Admits(q, k)
    BY <1>10 DEF Inside
  <2> HIDE DEF readers, q, k
  <2> QED
    BY <1>4, <1>10, <2>1 DEF Entered, GatesTyped
<1> HIDE DEF readers, q, k, after
<1>12. ASSUME NEW o \in Processes PROVE GateOK(o)'
  <2>1. CASE o = p
    BY <1>4, <1>8, <1>9, <2>1, GateNext
  <2>2. CASE o # p
    <3>1. GateAt(o, phase, activeReaders'[o], activeWriter'[o], waiting'[o])
      BY <1>9, <2>2 DEF GateOK
    <3>2. \A s \in Callers : HomeOf[s] = o => phase'[s] = phase[s]
      BY <1>10, <1>11, <2>2
    <3>3. GateAt(o, phase', activeReaders'[o], activeWriter'[o], waiting'[o])
      BY <3>1, <3>2, GateSame
    <3> QED
      BY <3>3, GateNext
  <2> QED
    BY <2>1, <2>2
<1>13. ASSUME NEW s \in Callers, NEW t \in Callers, Overtakes(s, t) PROVE FALSE
  <2>1. s \in Admits(q, k) /\ HomeOf[t] = p
    BY <1>10, <1>11, <1>13 DEF Overtakes, Inside
  <2>2. PICK i \in 1..k : q[i] = s
    BY <2>1 DEF Admits
  <2>3. i \in DOMAIN q
    BY <1>1, <1>7, <2>2, AdmittedRun DEF Left, k
  <2>4. PICK j \in 1..i : q[j] = t
    BY <1>10, <1>13, <2>1, <2>2, <2>3 DEF Overtakes, q
  <2>5. t \in Admits(q, k)
    <3>1. k \in Nat
      BY <1>1, <1>7, AdmittedRun DEF Left, k
    <3>2. j \in 1..k
      BY <2>2, <2>4, <3>1
    <3> QED
      BY <2>4, <3>2 DEF Admits
  <2> QED
    BY <1>11, <1>13, <2>5 DEF Overtakes
<1>14. \A s \in Callers \ {r} :
          phase'[s] = phase[s] \/ (phase[s] = "waiting" /\ phase'[s] = "granted")
  <2> TAKE s \in Callers \ {r}
  <2>1. CASE s \in Admits(q, k)
    BY <1>10, <1>11, <2>1
  <2>2. CASE s \notin Admits(q, k)
    BY <1>11, <2>2
  <2> QED
    BY <2>1, <2>2
<1>15. \A s, t \in Callers : ~Overtakes(s, t)
  BY <1>13
<1>16. phase'[r] = "idle" /\ \A o \in Processes : GateOK(o)'
  BY <1>11, <1>12
<1> QED
  BY <1>9, <1>14, <1>15, <1>16

\* Somebody comes and enters, or waits.
LEMMA CallGate ==
    ASSUME GatesTyped, lockPool' = lockPool, \A p \in Processes : GateOK(p),
           NEW r \in Callers, Call(r)
    PROVE  /\ GatesTyped' /\ \A p \in Processes : GateOK(p)'
           /\ phase[r] = "idle" /\ r \notin closed /\ phase'[r] \in {"granted", "waiting"}
           /\ \A s \in Callers \ {r} : phase'[s] = phase[s]
           /\ \A s, t \in Callers : ~Overtakes(s, t)
<1> DEFINE p == HomeOf[r]
           q == waiting[p]
           W == Within(p, phase)
<1>1. p \in Processes /\ q \in Seq(Callers) /\ GateOK(p) /\ phase[r] = "idle" /\ r \notin closed
  BY CallersAssumption DEF GatesTyped, Call
<1>2. /\ phase' \in [Callers -> Phases] /\ phase'[r] \in {"granted", "waiting"}
      /\ \A s \in Callers \ {r} : phase'[s] = phase[s]
  BY DEF Call, GatesTyped, Phases
<1>3. /\ GatesTyped'
      /\ \A o \in Processes \ {p} : /\ activeReaders'[o] = activeReaders[o]
                                    /\ activeWriter'[o] = activeWriter[o]
                                    /\ waiting'[o] = waiting[o]
  <2>1. Append(q, r) \in Seq(Callers) /\ activeReaders[p] + 1 \in Nat
    BY <1>1 DEF GatesTyped
  <2> HIDE DEF p
  <2>2. CASE Passable(p, GateMode(r)) /\ GateMode(r) = "shared"
    BY <1>1, <1>2, <2>1, <2>2 DEF Call, GatesTyped, p
  <2>3. CASE Passable(p, GateMode(r)) /\ GateMode(r) # "shared"
    BY <1>1, <1>2, <2>1, <2>3 DEF Call, GatesTyped, p
  <2>4. CASE ~Passable(p, GateMode(r))
    BY <1>1, <1>2, <2>1, <2>4 DEF Call, GatesTyped, Enqueue, p
  <2> QED
    BY <2>2, <2>3, <2>4
<1>4. r \notin W /\ IsFiniteSet(W) /\ Cardinality(W) \in Nat
  <2>1. r \notin W
    BY <1>1 DEF Within, Inside
  <2> QED
    BY <2>1, WithinFinite
<1>5. \A i \in 1..Len(q) : q[i] \in Callers /\ q[i] # r
  BY <1>1 DEF GateOK, GateAt, QueueOf
<1>6. ASSUME Passable(p, GateMode(r))
      PROVE  GateAt(p, phase', activeReaders'[p], activeWriter'[p], waiting'[p])
  <2>1. q = << >> /\ waiting'[p] = << >> /\ phase'[r] = "granted" /\ activeWriter[p] = FALSE
    BY <1>1, <1>6 DEF Call, Passable, GatesTyped
  <2>2. Within(p, phase') = W \cup {r}
    BY <1>2, <2>1 DEF Within, Inside
  <2>3. QueueOf(p, phase', << >>)
    <3>1. \A s \in Callers : HomeOf[s] = p => phase[s] # "waiting"
      BY <1>1, <2>1 DEF GateOK, GateAt, QueueOf
    <3> QED
      BY <1>2, <2>1, <3>1 DEF QueueOf
  <2>4. activeReaders[p] = Cardinality(W) /\ \A s \in W : GateMode(s) = "shared"
    BY <1>1, <2>1 DEF GateOK, GateAt, Counted
  <2>5. CASE GateMode(r) = "shared"
    <3>1. activeReaders'[p] = activeReaders[p] + 1 /\ activeWriter'[p] = FALSE
      BY <1>1, <1>6, <2>1, <2>5 DEF Call, GatesTyped
    <3>2. Cardinality(W \cup {r}) = Cardinality(W) + 1
      BY <1>4, FS_AddElement, Zenon
    <3>3. Counted(p, phase', activeReaders'[p], FALSE)
      BY <2>2, <2>4, <2>5, <3>1, <3>2 DEF Counted
    <3>4. activeReaders'[p] \in Nat /\ Woken(p, phase', FALSE, << >>)
      BY <1>4, <2>4, <3>1 DEF Woken
    <3>5. GateAt(p, phase', activeReaders'[p], FALSE, << >>)
      BY <2>3, <3>3, <3>4 DEF GateAt
    <3> QED
      BY <2>1, <3>1, <3>5
  <2>6. CASE GateMode(r) # "shared"
    <3>1. activeReaders[p] = 0 /\ activeReaders'[p] = 0 /\ activeWriter'[p] = TRUE
      BY <1>1, <1>6, <2>6 DEF Call, Passable, GatesTyped
    <3>2. W = {}
      BY <1>4, <2>4, <3>1, FS_EmptySet
    <3>3. Counted(p, phase', 0, TRUE)
      BY <2>2, <2>6, <3>2, Modes DEF Counted
    <3>4. GateAt(p, phase', 0, TRUE, << >>)
      BY <2>3, <3>3 DEF GateAt, Woken
    <3> QED
      BY <2>1, <3>1, <3>4
  <2> QED
    BY <2>5, <2>6
<1>7. ASSUME ~Passable(p, GateMode(r))
      PROVE  GateAt(p, phase', activeReaders'[p], activeWriter'[p], waiting'[p])
  <2>1. /\ waiting'[p] = Append(q, r) /\ phase'[r] = "waiting"
        /\ activeReaders'[p] = activeReaders[p] /\ activeWriter'[p] = activeWriter[p]
    BY <1>1, <1>7 DEF Call, Enqueue, GatesTyped
  <2>2. Within(p, phase') = W
    BY <1>1, <1>2, <2>1 DEF Within, Inside
  <2>3. QueueOf(p, phase', Append(q, r))
    <3>1. QueueOf(p, phase, q)
      BY <1>1 DEF GateOK, GateAt
    <3>2. \A i \in 1..Len(q) : HomeOf[q[i]] = p /\ phase'[q[i]] = "waiting"
      BY <1>2, <1>5, <3>1 DEF QueueOf
    <3>3. ASSUME NEW s \in Callers, HomeOf[s] = p, phase'[s] = "waiting"
          PROVE  \E i \in 1..Len(Append(q, r)) : Append(q, r)[i] = s
      <4>1. CASE s = r
        BY <1>1, <4>1
      <4>2. CASE s # r
        <5>1. PICK i \in 1..Len(q) : q[i] = s
          BY <1>2, <3>1, <3>3, <4>2 DEF QueueOf
        <5> QED
          BY <1>1, <5>1
      <4> QED
        BY <4>1, <4>2
    <3>4. \A i \in 1..Len(Append(q, r)) :
             HomeOf[Append(q, r)[i]] = p /\ phase'[Append(q, r)[i]] = "waiting"
      BY <1>1, <2>1, <3>2
    <3>5. \A i, j \in 1..Len(Append(q, r)) : Append(q, r)[i] = Append(q, r)[j] => i = j
      BY <1>1, <1>5, <3>1 DEF QueueOf
    <3> QED
      BY <1>1, <3>3, <3>4, <3>5 DEF QueueOf
  <2>4. Counted(p, phase', activeReaders[p], activeWriter[p])
    BY <1>1, <2>2 DEF GateOK, GateAt, Counted
  <2>5. Woken(p, phase', activeWriter[p], Append(q, r))
    <3>1. CASE q # << >>
      <4>1. Append(q, r)[1] = q[1]
        BY <1>1, <3>1
      <4> QED
        BY <1>1, <2>2, <3>1, <4>1 DEF GateOK, GateAt, Woken
    <3>2. CASE q = << >> /\ activeWriter[p] = TRUE
      <4>1. W # {}
        BY <1>1, <3>2 DEF GateOK, GateAt, Counted
      <4> QED
        BY <2>2, <3>2, <4>1 DEF Woken
    <3>3. CASE q = << >> /\ activeWriter[p] = FALSE
      <4>1. GateMode(r) # "shared" /\ activeReaders[p] # 0
        BY <1>7, <3>3 DEF Passable
      <4>2. W # {}
        BY <1>1, <3>3, <4>1, FS_EmptySet DEF GateOK, GateAt, Counted
      <4>3. Append(q, r)[1] = r
        BY <1>1, <3>3
      <4> QED
        BY <2>2, <4>1, <4>2, <4>3 DEF Woken
    <3> QED
      BY <1>1, <3>1, <3>2, <3>3 DEF GatesTyped
  <2> QED
    BY <1>1, <2>1, <2>3, <2>4, <2>5 DEF GateOK, GateAt
<1>8. ASSUME NEW o \in Processes PROVE GateOK(o)'
  <2>1. CASE o = p
    BY <1>6, <1>7, <2>1, GateNext
  <2>2. CASE o # p
    <3>1. GateAt(o, phase, activeReaders'[o], activeWriter'[o], waiting'[o])
      BY <1>3, <2>2 DEF GateOK
    <3>2. \A s \in Callers : HomeOf[s] = o => phase'[s] = phase[s]
      BY <1>2, <2>2
    <3>3. GateAt(o, phase', activeReaders'[o], activeWriter'[o], waiting'[o])
      BY <3>1, <3>2, GateSame
    <3> QED
      BY <3>3, GateNext
  <2> QED
    BY <2>1, <2>2
<1>9. ASSUME NEW s \in Callers, NEW t \in Callers, Overtakes(s, t) PROVE FALSE
  <2>1. s = r /\ phase'[r] = "granted" /\ phase[t] = "waiting" /\ HomeOf[t] = p
    BY <1>2, <1>9 DEF Overtakes, Inside
  <2>2. q = << >>
    BY <1>1, <2>1 DEF Call, Passable, GatesTyped
  <2> QED
    BY <1>1, <2>1, <2>2 DEF GateOK, GateAt, QueueOf
<1> QED
  BY <1>1, <1>2, <1>3, <1>8, <1>9

\* The advisory locks held do not conflict; with the pool, whoever runs holds
\* one unless its session was dropped; a destroyed session serves nobody.
LocksAgree == \A q, r \in locked : ~Conflict(q, r)

RunnersLocked ==
    \A r \in Callers : lockPool /\ phase[r] = "running" /\ r \notin lost => r \in locked

ClosedIdle == \A r \in Callers : r \in closed => phase[r] = "idle"

LockInv ==
    /\ GatesTyped /\ \A p \in Processes : GateOK(p)
    /\ LocksAgree /\ RunnersLocked /\ ClosedIdle

InOrder == \A s, t \in Callers : ~Overtakes(s, t)

LEMMA LockInitInv == LockInit => LockInv
<1> SUFFICES ASSUME LockInit PROVE LockInv
  OBVIOUS
<1>1. GatesTyped /\ LocksAgree /\ RunnersLocked /\ ClosedIdle
  BY DEF LockInit, GatesTyped, Phases, LocksAgree, RunnersLocked, ClosedIdle
<1>2. ASSUME NEW p \in Processes PROVE GateOK(p)
  <2>1. Within(p, phase) = {}
    BY DEF LockInit, Within, Inside
  <2>2. Cardinality({}) = 0
    BY FS_EmptySet
  <2>3. QueueOf(p, phase, << >>)
    BY DEF LockInit, QueueOf
  <2> QED
    BY <2>1, <2>2, <2>3 DEF LockInit, GateOK, GateAt, Counted, Woken
<1> QED
  BY <1>1, <1>2 DEF LockInv

LEMMA CallStep ==
    ASSUME LockInv, NEW r \in Callers, Call(r)
    PROVE  LockInv' /\ InOrder
<1>1. UNCHANGED <<lockPool, locked, lost, closed>>
  BY DEF Call, pgVars
<1>2. /\ GatesTyped' /\ \A p \in Processes : GateOK(p)'
      /\ r \notin closed /\ phase'[r] \in {"granted", "waiting"}
      /\ \A s \in Callers \ {r} : phase'[s] = phase[s]
      /\ InOrder
  BY <1>1, CallGate DEF LockInv, InOrder
<1>3. LocksAgree'
  BY <1>1 DEF LockInv, LocksAgree, Conflict
<1>4. RunnersLocked' /\ ClosedIdle'
  BY <1>1, <1>2 DEF LockInv, RunnersLocked, ClosedIdle
<1> QED
  BY <1>2, <1>3, <1>4 DEF LockInv

\* Somebody leaves the gate, with or without a session to give up.
LEMMA LeaverStep ==
    ASSUME LockInv, NEW r \in Callers, phase[r] \in Inside, Leave(r),
           lockPool' = lockPool, locked' \in {locked, locked \ {r}},
           lost' \in {lost, lost \ {r}}, closed' \in {closed, closed \cup {r}}
    PROVE  LockInv' /\ InOrder
<1>1. /\ GatesTyped' /\ \A p \in Processes : GateOK(p)'
      /\ phase'[r] = "idle"
      /\ \A s \in Callers \ {r} :
            phase'[s] = phase[s] \/ (phase[s] = "waiting" /\ phase'[s] = "granted")
      /\ InOrder
  BY LeaveStep DEF LockInv, InOrder
<1>2. LocksAgree'
  BY DEF LockInv, LocksAgree, Conflict
<1>3. RunnersLocked' /\ ClosedIdle'
  BY <1>1 DEF LockInv, RunnersLocked, ClosedIdle
<1> QED
  BY <1>1, <1>2, <1>3 DEF LockInv

\* Steps that nobody enters or leaves a gate by.
LEMMA InsideStep ==
    ASSUME LockInv, UNCHANGED <<gateVars, lockPool>>, phase' \in [Callers -> Phases],
           \A r \in Callers : /\ phase'[r] \in Inside <=> phase[r] \in Inside
                              /\ phase'[r] = "waiting" <=> phase[r] = "waiting"
    PROVE  GatesTyped' /\ (\A p \in Processes : GateOK(p)') /\ InOrder
<1>1. GatesTyped' /\ InOrder
  BY DEF LockInv, GatesTyped, gateVars, InOrder, Overtakes
<1>2. ASSUME NEW p \in Processes PROVE GateOK(p)'
  <2>1. GateAt(p, phase, activeReaders'[p], activeWriter'[p], waiting'[p])
    BY DEF LockInv, GateOK, gateVars
  <2>2. GateAt(p, phase', activeReaders'[p], activeWriter'[p], waiting'[p])
    BY <2>1, GateSame
  <2> QED
    BY <2>2, GateNext
<1> QED
  BY <1>1, <1>2

LEMMA AdvanceStep ==
    ASSUME LockInv, NEW r \in Callers,
           StartUnpooled(r) \/ Connect(r) \/ LockAnswered(r) \/ Finish(r)
    PROVE  LockInv' /\ InOrder
<1>1. /\ UNCHANGED <<gateVars, lockPool, locked, lost, closed>>
      /\ phase[r] \in Inside /\ phase'[r] \in Inside /\ phase' \in [Callers -> Phases]
      /\ \A s \in Callers \ {r} : phase'[s] = phase[s]
      /\ phase'[r] = "running" => ~lockPool \/ r \in locked
  BY DEF LockInv, GatesTyped, Phases, Inside, StartUnpooled, Connect, LockAnswered, Finish, pgVars
<1>2. GatesTyped' /\ (\A p \in Processes : GateOK(p)') /\ InOrder
  <2>1. "waiting" \notin Inside
    BY DEF Inside
  <2>2. \A s \in Callers : /\ phase'[s] \in Inside <=> phase[s] \in Inside
                           /\ phase'[s] = "waiting" <=> phase[s] = "waiting"
    BY <1>1, <2>1
  <2> QED
    BY <1>1, <2>2, InsideStep
<1>3. LocksAgree'
  BY <1>1 DEF LockInv, LocksAgree, Conflict
<1>4. RunnersLocked' /\ ClosedIdle'
  BY <1>1 DEF LockInv, RunnersLocked, ClosedIdle, Inside
<1> QED
  BY <1>2, <1>3, <1>4 DEF LockInv

\* PostgreSQL grants a lock, drops a session, or notices that one is closed.
LEMMA SessionStep ==
    ASSUME LockInv, Grant \/ \E r \in Callers : SessionLost(r) \/ Reap(r)
    PROVE  LockInv' /\ InOrder
<1>1. UNCHANGED <<phase, gateVars, lockPool>>
  BY DEF Grant, SessionLost, Reap
<1>2. GatesTyped' /\ (\A p \in Processes : GateOK(p)') /\ InOrder
  BY <1>1, InsideStep DEF LockInv, GatesTyped
<1>3. CASE Grant
  <2>1. PICK h : locked' = locked \cup {h} /\ UNCHANGED <<lost, closed>>
                 /\ \A q \in locked \ {h} : "exclusive" \notin {ModeOf[q], ModeOf[h]}
    BY <1>3 DEF Grant, AdvisoryMode
  <2>2. LocksAgree'
    BY <2>1 DEF LockInv, LocksAgree, Conflict
  <2>3. RunnersLocked' /\ ClosedIdle'
    BY <1>1, <2>1 DEF LockInv, RunnersLocked, ClosedIdle
  <2> QED
    BY <1>2, <2>2, <2>3 DEF LockInv
<1>4. ASSUME NEW r \in Callers, SessionLost(r) \/ Reap(r)
      PROVE  LockInv' /\ InOrder
  <2>1. /\ locked' = locked \ {r} /\ closed' \subseteq closed
        /\ lost' = lost \cup {r} \/ (lost' = lost /\ r \in closed)
    BY <1>4 DEF SessionLost, Reap, Forget
  <2>2. LocksAgree'
    BY <2>1 DEF LockInv, LocksAgree, Conflict
  <2>3. RunnersLocked' /\ ClosedIdle'
    BY <1>1, <2>1 DEF LockInv, RunnersLocked, ClosedIdle
  <2> QED
    BY <1>2, <2>2, <2>3 DEF LockInv
<1> QED
  BY <1>3, <1>4

LEMMA CrashStep ==
    ASSUME LockInv, NEW p \in Processes, Crash(p)
    PROVE  LockInv' /\ InOrder
<1>1. /\ lockPool' = lockPool /\ locked' = locked
      /\ \A r \in Callers : phase'[r] = IF HomeOf[r] = p THEN "idle" ELSE phase[r]
      /\ phase' \in [Callers -> Phases]
      /\ \A r \in Callers : HomeOf[r] # p => (r \in lost' <=> r \in lost)
      /\ \A r \in Callers : HomeOf[r] # p => (r \in closed' <=> r \in closed)
  BY DEF Crash, LockInv, GatesTyped, Phases
<1>2. /\ GatesTyped'
      /\ activeReaders'[p] = 0 /\ activeWriter'[p] = FALSE /\ waiting'[p] = << >>
      /\ \A o \in Processes \ {p} : /\ activeReaders'[o] = activeReaders[o]
                                    /\ activeWriter'[o] = activeWriter[o]
                                    /\ waiting'[o] = waiting[o]
  BY <1>1 DEF Crash, LockInv, GatesTyped
<1>3. InOrder
  BY <1>1 DEF InOrder, Overtakes, Inside
<1>4. GateOK(p)'
  <2>1. Within(p, phase') = {}
    BY <1>1 DEF Within, Inside
  <2>2. Cardinality({}) = 0
    BY FS_EmptySet
  <2>3. QueueOf(p, phase', << >>)
    BY <1>1 DEF QueueOf
  <2>4. GateAt(p, phase', 0, FALSE, << >>)
    BY <2>1, <2>2, <2>3 DEF GateAt, Counted, Woken
  <2> QED
    BY <1>1, <1>2, <2>4, GateNext
<1>5. ASSUME NEW o \in Processes \ {p} PROVE GateOK(o)'
  <2>1. GateAt(o, phase, activeReaders'[o], activeWriter'[o], waiting'[o])
    BY <1>2 DEF LockInv, GateOK
  <2>2. \A r \in Callers : HomeOf[r] = o => phase'[r] = phase[r]
    BY <1>1
  <2>3. GateAt(o, phase', activeReaders'[o], activeWriter'[o], waiting'[o])
    BY <2>1, <2>2, GateSame
  <2> QED
    BY <1>1, <2>3, GateNext
<1>6. LocksAgree'
  BY <1>1 DEF LockInv, LocksAgree, Conflict
<1>7. RunnersLocked' /\ ClosedIdle'
  BY <1>1 DEF LockInv, RunnersLocked, ClosedIdle
<1> QED
  BY <1>2, <1>3, <1>4, <1>5, <1>6, <1>7 DEF LockInv

LEMMA LockNextInv == LockInv /\ [LockNext]_lockVars => LockInv' /\ InOrder
<1> SUFFICES ASSUME LockInv, [LockNext]_lockVars PROVE LockInv' /\ InOrder
  OBVIOUS
<1>1. ASSUME NEW r \in Callers, Call(r) PROVE LockInv' /\ InOrder
  BY <1>1, CallStep
<1>2. ASSUME NEW r \in Callers,
             StartUnpooled(r) \/ Connect(r) \/ LockAnswered(r) \/ Finish(r)
      PROVE  LockInv' /\ InOrder
  BY <1>2, AdvanceStep
<1>3. ASSUME NEW r \in Callers,
             FinishUnpooled(r) \/ Unlock(r) \/ ConnectFails(r) \/ QueryFails(r)
      PROVE  LockInv' /\ InOrder
  <2>1. /\ phase[r] \in Inside /\ Leave(r) /\ lockPool' = lockPool
        /\ locked' \in {locked, locked \ {r}} /\ lost' \in {lost, lost \ {r}}
        /\ closed' \in {closed, closed \cup {r}}
    BY <1>3 DEF FinishUnpooled, Unlock, ConnectFails, QueryFails, Destroyed, Inside, pgVars
  <2> QED
    BY <2>1, LeaverStep
<1>4. CASE Grant \/ \E r \in Callers : SessionLost(r) \/ Reap(r)
  BY <1>4, SessionStep
<1>5. ASSUME NEW p \in Processes, Crash(p) PROVE LockInv' /\ InOrder
  BY <1>5, CrashStep
<1>6. CASE UNCHANGED lockVars
  <2>1. UNCHANGED <<phase, gateVars, lockPool, locked, lost, closed>>
    BY <1>6 DEF lockVars, pgVars
  <2>2. GatesTyped' /\ (\A p \in Processes : GateOK(p)') /\ InOrder
    BY <2>1, InsideStep DEF LockInv, GatesTyped
  <2>3. LocksAgree' /\ RunnersLocked' /\ ClosedIdle'
    BY <2>1 DEF LockInv, LocksAgree, Conflict, RunnersLocked, ClosedIdle
  <2> QED
    BY <2>2, <2>3 DEF LockInv
<1> QED
  BY <1>1, <1>2, <1>3, <1>4, <1>5, <1>6 DEF LockNext

LEMMA LockInvariant == LockSpec => []LockInv
<1> QED
  BY LockInitInv, LockNextInv, PTL DEF LockSpec

\* No wake-up is lost: a request waits at a gate only while somebody is inside
\* whose leaving drains the queue (AsyncReadWriteGate.#drain).
THEOREM NoWakeupLost == LockSpec => []NoLostWakeup
<1>1. LockInv => NoLostWakeup
  <2> SUFFICES ASSUME LockInv, NEW p \in Processes, waiting[p] # << >>
               PROVE  /\ InGate(p) # {}
                      /\ GateMode(Head(waiting[p])) = "shared" => activeWriter[p]
    BY DEF NoLostWakeup
  <2>1. waiting[p] \in Seq(Callers) /\ Woken(p, phase, activeWriter[p], waiting[p])
    BY DEF LockInv, GateOK, GateAt, GatesTyped
  <2>2. InGate(p) = Within(p, phase)
    BY DEF InGate, Within
  <2> QED
    BY <2>1, <2>2 DEF Woken
<1> QED
  BY <1>1, LockInvariant, PTL

\* A termination runs alone beside starts, whatever failed before: on all the
\* processes with the lock pool, on its own without (#withNftLifecycleLock).
THEOREM TerminationsAlone == LockSpec => []LifecycleExclusion
<1>1. LockInv => LifecycleExclusion
  <2> SUFFICES ASSUME LockInv, NEW q \in Callers, NEW r \in Callers, Conflict(q, r),
                      lockPool \/ HomeOf[q] = HomeOf[r],
                      phase[q] = "running", phase[r] = "running",
                      q \notin lost, r \notin lost
               PROVE  FALSE
    BY DEF LifecycleExclusion
  <2>1. CASE lockPool
    BY <2>1 DEF LockInv, RunnersLocked, LocksAgree
  <2>2. CASE ~lockPool
    <3> DEFINE p == HomeOf[q]
    <3>1. p \in Processes /\ q \in Within(p, phase) /\ r \in Within(p, phase) /\ q # r
      BY <2>2 DEF Within, Inside, Conflict
    <3>2. GateMode(q) = "exclusive" \/ GateMode(r) = "exclusive"
      BY <2>2 DEF Conflict, GateMode
    <3>3. Counted(p, phase, activeReaders[p], activeWriter[p])
      BY <3>1 DEF LockInv, GateOK, GateAt
    <3> QED
      BY <3>1, <3>2, <3>3 DEF Counted
  <2> QED
    BY <2>1, <2>2
<1> QED
  BY <1>1, LockInvariant, PTL

\* Nobody enters a gate past a request that was waiting there and still waits
\* (AsyncReadWriteGate.#acquire looks at the queue before the counters).
THEOREM ServedInOrder == LockSpec => FirstComeFirstServed
<1>1. LockInv /\ [LockNext]_lockVars => [\A q, r \in Callers : ~Overtakes(q, r)]_lockVars
  BY LockNextInv DEF InOrder
<1> QED
  BY <1>1, LockInvariant, PTL DEF LockSpec, FirstComeFirstServed

-----------------------------------------------------------------------------
(* The sessions with PostgreSQL.  A request that asked for the advisory lock *)
(* is answered, and PostgreSQL keeps nothing for a request that is gone.     *)

InSession == {"locking", "running", "unlocking"}
Members(w) == {w[i] : i \in 1..Len(w)}
Distinct(w) == w \in Seq(Callers) /\ \A i, j \in 1..Len(w) : w[i] = w[j] => i = j

\* A request that waits for the advisory lock has it, is queued for it, or has
\* a dropped session and will get an error; a lock or a place in the queue is
\* a request's that will give it up, or a destroyed connection's, which
\* PostgreSQL notices (the finally blocks of #withNftLifecycleLock).
NobodyWaitsInVain ==
    /\ \A r \in Callers : phase[r] = "locking" => r \in locked \cup Members(pgWaiting) \cup lost
    /\ \A r \in locked : phase[r] \in InSession \/ r \in closed
    /\ \A r \in Members(pgWaiting) : phase[r] = "locking" \/ r \in closed

\* Where a request and its session stand, by the state of the request, the
\* locks, the queue, the dropped and the destroyed sessions.
SessionAt(r, at, lk, q, ls, cl) ==
    /\ at = "locking" => lockPool /\ r \in lk \cup q \cup ls
    /\ at = "unlocking" => lockPool
    /\ r \in lk => lockPool /\ r \notin ls /\ (at \in InSession \/ r \in cl)
    /\ r \in q => lockPool /\ r \notin lk \cup ls /\ (at = "locking" \/ r \in cl)
    /\ r \in ls => lockPool /\ at \in InSession

SessionsOK ==
    /\ Distinct(pgWaiting)
    /\ locked \subseteq Callers /\ lost \subseteq Callers /\ closed \subseteq Callers
    /\ faults \in 0..MaxFaults
    /\ \A r \in Callers :
          SessionAt(r, phase[r], locked, Members(pgWaiting), lost, closed)

LEMMA AppendDistinct ==
    ASSUME NEW w, Distinct(w), NEW r \in Callers, r \notin Members(w)
    PROVE  Distinct(Append(w, r)) /\ Members(Append(w, r)) = Members(w) \cup {r}
<1> DEFINE a == Append(w, r)
           n == Len(w)
<1>1. w \in Seq(Callers) /\ n \in Nat
  BY DEF Distinct
<1>2. a \in Seq(Callers) /\ Len(a) = n + 1 /\ a[n + 1] = r /\ \A i \in 1..n : a[i] = w[i]
  BY <1>1
<1>3. \A i \in 1..n : w[i] # r
  BY DEF Members
<1> HIDE DEF a, n
<1>4. \A i \in 1..Len(a) : i = n + 1 \/ i \in 1..n
  BY <1>1, <1>2
<1>5. \A i \in 1..n : i \in 1..Len(a) /\ n + 1 \in 1..Len(a)
  BY <1>1, <1>2
<1>6. \A i, j \in 1..Len(a) : a[i] = a[j] => i = j
  <2>1. \A i, j \in 1..n : w[i] = w[j] => i = j
    BY DEF Distinct, n
  <2> QED
    BY <1>2, <1>3, <1>4, <2>1
<1>7. Members(a) = Members(w) \cup {r}
  <2>1. n + 1 \in 1..Len(a)
    BY <1>1, <1>2
  <2>2. Members(a) = {a[i] : i \in 1..Len(a)} /\ Members(w) = {w[i] : i \in 1..n}
    BY DEF Members, n
  <2> QED
    BY <1>2, <1>4, <1>5, <2>1, <2>2
<1> QED
  BY <1>2, <1>6, <1>7 DEF Distinct, a

\* A queue without one of its entries.
LEMMA RemoveDistinct ==
    ASSUME NEW w, Distinct(w), NEW i \in 1..Len(w)
    PROVE  Distinct(RemoveAt(w, i)) /\ Members(RemoveAt(w, i)) = Members(w) \ {w[i]}
<1> DEFINE a == RemoveAt(w, i)
           n == Len(w)
           at(k) == IF k < i THEN k ELSE k + 1
<1>1. w \in Seq(Callers) /\ n \in Nat /\ i \in 1..n
  BY DEF Distinct
<1>2. a \in Seq(Callers) /\ Len(a) = n - 1 /\ \A k \in 1..(n - 1) : a[k] = w[at(k)]
  <2>1. /\ SubSeq(w, 1, i - 1) \in Seq(Callers) /\ Len(SubSeq(w, 1, i - 1)) = i - 1
        /\ \A k \in 1..(i - 1) : SubSeq(w, 1, i - 1)[k] = w[k]
    BY <1>1
  <2>2. /\ SubSeq(w, i + 1, n) \in Seq(Callers) /\ Len(SubSeq(w, i + 1, n)) = n - i
        /\ \A k \in 1..(n - i) : SubSeq(w, i + 1, n)[k] = w[i + k]
    BY <1>1
  <2> DEFINE u == SubSeq(w, 1, i - 1)
             v == SubSeq(w, i + 1, n)
  <2>3. a = u \o v
    BY DEF RemoveAt
  <2> HIDE DEF u, v, a
  <2>4. /\ a \in Seq(Callers) /\ Len(a) = n - 1
        /\ \A k \in 1..(n - 1) : a[k] = IF k < i THEN u[k] ELSE v[k - (i - 1)]
    <3>1. /\ u \in Seq(Callers) /\ Len(u) = i - 1 /\ v \in Seq(Callers) /\ Len(v) = n - i
      BY <2>1, <2>2 DEF u, v
    <3> HIDE DEF n
    <3>2. /\ u \o v \in Seq(Callers) /\ Len(u \o v) = Len(u) + Len(v)
          /\ \A k \in 1..Len(u) + Len(v) :
                (u \o v)[k] = IF k <= Len(u) THEN u[k] ELSE v[k - Len(u)]
      BY <3>1, ConcatProperties, Zenon
    <3>3. Len(u) + Len(v) = n - 1
      BY <1>1, <3>1
    <3>4. Len(a) = n - 1 /\ a \in Seq(Callers)
      BY <2>3, <3>2, <3>3
    <3>5. ASSUME NEW k \in 1..(n - 1) PROVE a[k] = IF k < i THEN u[k] ELSE v[k - (i - 1)]
      <4>1. k <= Len(u) <=> k < i
        BY <1>1, <3>1
      <4> QED
        BY <2>3, <3>1, <3>2, <3>3, <4>1
    <3> QED
      BY <3>4, <3>5
  <2>5. ASSUME NEW k \in 1..(n - 1) PROVE a[k] = w[at(k)]
    <3>1. CASE k < i
      BY <1>1, <2>1, <2>4, <3>1 DEF u
    <3>2. CASE k >= i
      <4>1. k - (i - 1) \in 1..(n - i) /\ i + (k - (i - 1)) = k + 1 /\ ~(k < i)
        BY <1>1, <3>2
      <4> QED
        BY <2>2, <2>4, <4>1 DEF v
    <3> QED
      BY <1>1, <3>1, <3>2
  <2> QED
    BY <2>4, <2>5
<1>3. \A k \in 1..(n - 1) : at(k) \in 1..n /\ at(k) # i
  BY <1>1
<1>4. \A j, k \in 1..(n - 1) : at(j) = at(k) => j = k
  BY <1>1
<1>5. \A j \in 1..n : j # i => \E k \in 1..(n - 1) : at(k) = j
  <2> TAKE j \in 1..n
  <2>1. CASE j < i
    <3>1. j \in 1..(n - 1) /\ at(j) = j
      BY <1>1, <2>1
    <3> QED
      BY <3>1
  <2>2. CASE j > i
    <3>1. j - 1 \in 1..(n - 1) /\ at(j - 1) = j
      BY <1>1, <2>2
    <3> QED
      BY <3>1
  <2> QED
    BY <1>1, <2>1, <2>2
<1>6. \A j, k \in 1..n : w[j] = w[k] => j = k
  BY DEF Distinct
<1> HIDE DEF a, n, at
<1>7. Members(a) = {a[k] : k \in 1..(n - 1)} /\ Members(w) = {w[j] : j \in 1..n}
  BY <1>2 DEF Members, n
<1>8. \A j, k \in 1..Len(a) : a[j] = a[k] => j = k
  BY <1>2, <1>3, <1>4, <1>6
<1>9. Members(a) \subseteq Members(w) \ {w[i]}
  <2> SUFFICES ASSUME NEW k \in 1..(n - 1) PROVE a[k] \in Members(w) /\ a[k] # w[i]
    BY <1>7
  <2>1. a[k] = w[at(k)] /\ at(k) \in 1..n /\ at(k) # i
    BY <1>2, <1>3
  <2> QED
    BY <1>1, <1>6, <1>7, <2>1
<1>10. Members(w) \ {w[i]} \subseteq Members(a)
  <2> SUFFICES ASSUME NEW j \in 1..n, w[j] # w[i] PROVE w[j] \in Members(a)
    BY <1>7
  <2>1. PICK k \in 1..(n - 1) : at(k) = j
    BY <1>5
  <2> QED
    BY <1>2, <1>7, <2>1
<1> QED
  BY <1>2, <1>8, <1>9, <1>10 DEF Distinct, a

\* PostgreSQL serves the head of its queue.
LEMMA TailDistinct ==
    ASSUME NEW w, Distinct(w), w # << >>
    PROVE  /\ Head(w) \in Members(w) /\ Distinct(Tail(w))
           /\ Members(Tail(w)) = Members(w) \ {Head(w)}
<1>1. w \in Seq(Callers) /\ 1 \in 1..Len(w) /\ Head(w) = w[1]
  BY DEF Distinct
<1>2. Tail(w) = RemoveAt(w, 1)
  BY <1>1 DEF RemoveAt
<1>3. Head(w) \in Members(w)
  BY <1>1 DEF Members
<1>4. Distinct(RemoveAt(w, 1)) /\ Members(RemoveAt(w, 1)) = Members(w) \ {w[1]}
  BY <1>1, RemoveDistinct
<1> QED
  BY <1>1, <1>2, <1>3, <1>4

LEMMA MembersCallers ==
    ASSUME NEW w, Distinct(w) PROVE Members(w) \subseteq Callers
BY DEF Distinct, Members

LEMMA SessionsStart == LockInit => SessionsOK
<1> SUFFICES ASSUME LockInit PROVE SessionsOK
  OBVIOUS
<1>1. Distinct(<< >>) /\ Members(<< >>) = {}
  BY DEF Distinct, Members
<1> QED
  BY <1>1 DEF LockInit, SessionsOK, SessionAt

\* Steps that only move requests.
LEMMA MovesKeepSessions ==
    ASSUME SessionsOK, UNCHANGED pgVars, faults' \in 0..MaxFaults,
           \A r \in Callers :
              \/ phase'[r] = phase[r]
              \/ /\ phase[r] \notin InSession \/ ~lockPool
                 /\ phase'[r] \notin {"locking", "unlocking"}
              \/ phase[r] = "locking" /\ r \in locked /\ phase'[r] = "running"
              \/ phase[r] = "running" /\ lockPool /\ phase'[r] = "unlocking"
    PROVE  SessionsOK'
<1>1. UNCHANGED <<lockPool, locked, pgWaiting, lost, closed>>
  BY DEF pgVars
<1>2. Members(pgWaiting)' = Members(pgWaiting) /\ Distinct(pgWaiting)'
  BY <1>1 DEF Members, Distinct, SessionsOK
<1>3. ASSUME NEW r \in Callers
      PROVE  SessionAt(r, phase[r], locked, Members(pgWaiting), lost, closed)'
  <2> DEFINE q == Members(pgWaiting)
  <2>1. SessionAt(r, phase[r], locked, q, lost, closed)
    BY DEF SessionsOK
  <2>2. SessionAt(r, phase'[r], locked, q, lost, closed)
    <3> HIDE DEF q
    <3> QED
      BY <2>1 DEF SessionAt, InSession
  <2> HIDE DEF q
  <2> QED
    BY <1>1, <1>2, <2>2 DEF SessionAt, q
<1> QED
  BY <1>1, <1>2, <1>3 DEF SessionsOK

\* Steps on the session of one request.
LEMMA SessionsMove ==
    ASSUME SessionsOK, NEW r \in Callers, lockPool' = lockPool, faults' \in 0..MaxFaults,
           Distinct(pgWaiting)',
           \A s \in Callers \ {r} :
              /\ s \in Members(pgWaiting)' <=> s \in Members(pgWaiting)
              /\ s \in locked' <=> s \in locked
              /\ s \in lost' <=> s \in lost
              /\ s \in closed' <=> s \in closed
              /\ \/ phase'[s] = phase[s]
                 \/ phase[s] \notin InSession /\ phase'[s] \notin InSession,
           locked' \subseteq Callers, lost' \subseteq Callers, closed' \subseteq Callers,
           SessionAt(r, phase'[r], locked', Members(pgWaiting)', lost', closed')
    PROVE  SessionsOK'
<1>1. ASSUME NEW s \in Callers
      PROVE  SessionAt(s, phase'[s], locked', Members(pgWaiting)', lost', closed')
  <2>1. CASE s = r
    BY <2>1
  <2>2. CASE s # r
    <3> DEFINE q == Members(pgWaiting)
               new == Members(pgWaiting)'
    <3>1. SessionAt(s, phase[s], locked, q, lost, closed)
      BY DEF SessionsOK
    <3>2. s \in new <=> s \in q
      BY <2>2
    <3> HIDE DEF q, new
    <3>3. SessionAt(s, phase'[s], locked', new, lost', closed')
      BY <2>2, <3>1, <3>2 DEF SessionAt, InSession
    <3> QED
      BY <3>3 DEF new
  <2> QED
    BY <2>1, <2>2
<1>2. \A s \in Callers : SessionAt(s, phase[s], locked, Members(pgWaiting), lost, closed)'
  BY <1>1 DEF SessionAt
<1> QED
  BY <1>2 DEF SessionsOK

LEMMA NextQueue ==
    ASSUME NEW w, pgWaiting' = w, Distinct(w)
    PROVE  Distinct(pgWaiting)' /\ Members(pgWaiting)' = Members(w)
BY DEF Distinct, Members

LEMMA ConnectSession ==
    ASSUME LockInv, SessionsOK, NEW r \in Callers, Connect(r)
    PROVE  SessionsOK'
<1> DEFINE q == Members(pgWaiting)
<1>1. /\ lockPool /\ phase[r] = "granted" /\ phase'[r] = "locking"
      /\ \A s \in Callers \ {r} : phase'[s] = phase[s]
      /\ UNCHANGED <<lockPool, locked, lost, closed, faults>>
      /\ pgWaiting' = Append(pgWaiting, r)
  BY DEF Connect, LockInv, GatesTyped
<1>2. r \notin locked /\ r \notin q /\ r \notin lost
  <2>1. r \notin closed
    BY <1>1 DEF LockInv, ClosedIdle
  <2>2. SessionAt(r, phase[r], locked, q, lost, closed)
    BY DEF SessionsOK
  <2> HIDE DEF q
  <2> QED
    BY <1>1, <2>1, <2>2 DEF SessionAt, InSession
<1>3. Distinct(Append(pgWaiting, r)) /\ Members(Append(pgWaiting, r)) = q \cup {r}
  BY <1>2, AppendDistinct DEF SessionsOK
<1>4. Distinct(pgWaiting)' /\ Members(pgWaiting)' = q \cup {r}
  BY <1>1, <1>3, NextQueue
<1>5. SessionAt(r, phase'[r], locked', q \cup {r}, lost', closed')
  <2> HIDE DEF q
  <2> QED
    BY <1>1, <1>2 DEF SessionAt
<1> HIDE DEF q
<1> QED
  BY <1>1, <1>4, <1>5, SessionsMove DEF SessionsOK, q

LEMMA GrantSession == ASSUME SessionsOK, Grant PROVE SessionsOK'
<1> DEFINE q == Members(pgWaiting)
           r == Head(pgWaiting)
<1>1. /\ pgWaiting # << >> /\ locked' = locked \cup {r} /\ pgWaiting' = Tail(pgWaiting)
      /\ UNCHANGED <<phase, lockPool, lost, closed, faults>>
  BY DEF Grant
<1>2. Distinct(Tail(pgWaiting)) /\ Members(Tail(pgWaiting)) = q \ {r} /\ r \in q
  BY <1>1, TailDistinct DEF SessionsOK
<1>3. r \in Callers
  BY <1>2, MembersCallers DEF SessionsOK
<1>4. Distinct(pgWaiting)' /\ Members(pgWaiting)' = q \ {r}
  BY <1>1, <1>2, NextQueue
<1>5. SessionAt(r, phase[r], locked, q, lost, closed)
  BY <1>3 DEF SessionsOK
<1>6. locked \subseteq Callers /\ lost \subseteq Callers /\ closed \subseteq Callers
      /\ faults \in 0..MaxFaults
  BY DEF SessionsOK
<1> HIDE DEF q, r
<1>7. SessionAt(r, phase'[r], locked', q \ {r}, lost', closed')
  BY <1>1, <1>2, <1>5 DEF SessionAt, InSession
<1>8. \A s \in Callers \ {r} :
              /\ s \in Members(pgWaiting)' <=> s \in q
              /\ s \in locked' <=> s \in locked
              /\ s \in lost' <=> s \in lost
              /\ s \in closed' <=> s \in closed
              /\ phase'[s] = phase[s]
  BY <1>1, <1>4
<1> QED
  BY <1>1, <1>3, <1>4, <1>6, <1>7, <1>8, SessionsMove DEF q

\* PostgreSQL forgets the session of one request.
LEMMA Forgotten ==
    ASSUME SessionsOK, NEW r \in Callers, Forget(r)
    PROVE  /\ locked' = locked \ {r} /\ Distinct(pgWaiting)'
           /\ Members(pgWaiting)' = Members(pgWaiting) \ {r}
<1>1. Distinct(pgWaiting)
  BY DEF SessionsOK
<1>2. CASE \E i \in DOMAIN pgWaiting : pgWaiting[i] = r
  <2>1. PICK i \in 1..Len(pgWaiting) : pgWaiting[i] = r /\ pgWaiting' = RemoveAt(pgWaiting, i)
    BY <1>1, <1>2 DEF Forget, Distinct
  <2>2. /\ Distinct(RemoveAt(pgWaiting, i))
        /\ Members(RemoveAt(pgWaiting, i)) = Members(pgWaiting) \ {r}
    BY <1>1, <2>1, RemoveDistinct
  <2>3. Distinct(pgWaiting)' /\ Members(pgWaiting)' = Members(pgWaiting) \ {r}
    BY <2>1, <2>2, NextQueue
  <2> QED
    BY <2>3 DEF Forget
<1>3. CASE ~\E i \in DOMAIN pgWaiting : pgWaiting[i] = r
  <2>1. pgWaiting' = pgWaiting /\ r \notin Members(pgWaiting)
    BY <1>1, <1>3 DEF Forget, Distinct, Members
  <2>2. Distinct(pgWaiting)' /\ Members(pgWaiting)' = Members(pgWaiting)
    BY <1>1, <2>1, NextQueue
  <2> QED
    BY <2>1, <2>2 DEF Forget
<1> QED
  BY <1>2, <1>3

LEMMA ForgetSession ==
    ASSUME LockInv, SessionsOK, NEW r \in Callers, SessionLost(r) \/ Reap(r)
    PROVE  SessionsOK'
<1> DEFINE q == Members(pgWaiting)
           new == Members(pgWaiting)'
<1>1. Forget(r) /\ UNCHANGED <<phase, lockPool>>
  BY DEF SessionLost, Reap
<1>2. locked' = locked \ {r} /\ Distinct(pgWaiting)' /\ new = q \ {r}
  BY <1>1, Forgotten
<1>3. /\ SessionAt(r, phase[r], locked, q, lost, closed) /\ ClosedIdle
      /\ locked \subseteq Callers /\ lost \subseteq Callers /\ closed \subseteq Callers
      /\ faults \in 0..MaxFaults
  BY DEF SessionsOK, LockInv
<1> HIDE DEF q, new
<1>4. /\ SessionAt(r, phase'[r], locked', new, lost', closed')
      /\ lost' \subseteq Callers /\ closed' \subseteq Callers /\ faults' \in 0..MaxFaults
      /\ \A s \in Callers \ {r} : (s \in lost' <=> s \in lost) /\ (s \in closed' <=> s \in closed)
  <2>1. CASE SessionLost(r)
    <3>1. /\ lockPool /\ phase[r] \in InSession /\ lost' = lost \cup {r}
          /\ closed' = closed /\ faults < MaxFaults /\ faults' = faults + 1
      BY <2>1 DEF SessionLost, InSession
    <3>2. faults' \in 0..MaxFaults
      BY <1>3, <3>1
    <3>3. SessionAt(r, phase'[r], locked', new, lost', closed')
      BY <1>1, <1>2, <3>1 DEF SessionAt
    <3> QED
      BY <1>3, <3>1, <3>2, <3>3
  <2>2. CASE Reap(r)
    <3>1. r \in closed /\ closed' = closed \ {r} /\ lost' = lost /\ faults' = faults
      BY <2>2 DEF Reap
    <3>2. phase[r] = "idle"
      BY <1>3, <3>1 DEF ClosedIdle
    <3>3. SessionAt(r, phase'[r], locked', new, lost', closed')
      BY <1>1, <1>2, <1>3, <3>1, <3>2 DEF SessionAt, InSession
    <3> QED
      BY <1>3, <3>1, <3>3
  <2> QED
    BY <2>1, <2>2
<1>5. locked' \subseteq Callers
  BY <1>2, <1>3
<1> QED
  BY <1>1, <1>2, <1>4, <1>5, SessionsMove DEF q, new

\* Who leaves a gate, and what becomes of its session.
LEMMA LeaverSession ==
    ASSUME LockInv, SessionsOK, NEW r \in Callers, Unlock(r) \/ QueryFails(r)
    PROVE  SessionsOK'
<1> DEFINE q == Members(pgWaiting)
<1>1. Leave(r) /\ phase[r] \in InSession /\ UNCHANGED <<lockPool, pgWaiting>>
  BY DEF Unlock, QueryFails, Destroyed, InSession
<1>2. /\ phase'[r] = "idle"
      /\ \A s \in Callers \ {r} :
            phase'[s] = phase[s] \/ (phase[s] = "waiting" /\ phase'[s] = "granted")
  <2>1. phase[r] \in Inside
    BY <1>1 DEF InSession, Inside
  <2> QED
    BY <1>1, <2>1, LeaveStep DEF LockInv
<1>3. /\ SessionAt(r, phase[r], locked, q, lost, closed)
      /\ locked \subseteq Callers /\ lost \subseteq Callers /\ closed \subseteq Callers
      /\ faults \in 0..MaxFaults /\ Distinct(pgWaiting)
  BY DEF SessionsOK
<1>4. Distinct(pgWaiting)' /\ Members(pgWaiting)' = q
  BY <1>1, <1>3, NextQueue
<1> HIDE DEF q
<1>5. /\ SessionAt(r, phase'[r], locked', q, lost', closed')
      /\ locked' \subseteq Callers /\ lost' \subseteq Callers /\ closed' \subseteq Callers
      /\ faults' \in 0..MaxFaults
      /\ \A s \in Callers \ {r} : /\ s \in locked' <=> s \in locked
                                  /\ s \in lost' <=> s \in lost
                                  /\ s \in closed' <=> s \in closed
  <2>1. CASE Unlock(r)
    <3>1. /\ r \in locked /\ locked' = locked \ {r} /\ UNCHANGED <<lost, closed, faults>>
      BY <2>1 DEF Unlock
    <3>2. r \notin q /\ r \notin lost
      BY <1>3, <3>1 DEF SessionAt
    <3>3. SessionAt(r, phase'[r], locked', q, lost', closed')
      BY <1>2, <3>1, <3>2 DEF SessionAt
    <3> QED
      BY <1>3, <3>1, <3>3
  <2>2. CASE QueryFails(r)
    <3>1. /\ locked' = locked /\ lost' = lost \ {r} /\ closed' = closed \cup {r}
          /\ faults' = faults \/ (faults < MaxFaults /\ faults' = faults + 1)
      BY <2>2 DEF QueryFails, Destroyed
    <3>2. faults' \in 0..MaxFaults
      BY <1>3, <3>1
    <3>3. SessionAt(r, phase'[r], locked', q, lost', closed')
      BY <1>1, <1>2, <1>3, <3>1 DEF SessionAt
    <3> QED
      BY <1>3, <3>1, <3>2, <3>3
  <2> QED
    BY <2>1, <2>2
<1>6. \A s \in Callers \ {r} :
         \/ phase'[s] = phase[s]
         \/ phase[s] \notin InSession /\ phase'[s] \notin InSession
  BY <1>2 DEF InSession
<1> QED
  BY <1>1, <1>4, <1>5, <1>6, SessionsMove DEF q

LEMMA CrashSessions ==
    ASSUME LockInv, SessionsOK, NEW p \in Processes, Crash(p)
    PROVE  SessionsOK'
<1> DEFINE q == Members(pgWaiting)
<1>1. /\ UNCHANGED <<lockPool, locked, pgWaiting>>
      /\ \A r \in Callers : phase'[r] = IF HomeOf[r] = p THEN "idle" ELSE phase[r]
      /\ lost' = {r \in lost : HomeOf[r] # p}
      /\ closed' = closed \cup
            {r \in Callers : HomeOf[r] = p /\ phase[r] \in InSession /\ lockPool}
      /\ faults < MaxFaults /\ faults' = faults + 1
  BY DEF Crash, InSession
<1>2. /\ locked \subseteq Callers /\ lost \subseteq Callers /\ closed \subseteq Callers
      /\ faults \in 0..MaxFaults /\ Distinct(pgWaiting)
  BY DEF SessionsOK
<1>3. Distinct(pgWaiting)' /\ Members(pgWaiting)' = q
  BY <1>1, <1>2, NextQueue
<1>4. ASSUME NEW r \in Callers PROVE SessionAt(r, phase'[r], locked', q, lost', closed')
  <2>1. SessionAt(r, phase[r], locked, q, lost, closed)
    BY DEF SessionsOK
  <2> HIDE DEF q
  <2>2. CASE HomeOf[r] = p
    <3>1. phase'[r] = "idle" /\ r \notin lost' /\ (lockPool /\ phase[r] \in InSession => r \in closed')
          /\ (r \in closed => r \in closed')
      BY <1>1, <2>2
    <3> QED
      BY <1>1, <2>1, <3>1 DEF SessionAt, InSession
  <2>3. CASE HomeOf[r] # p
    <3>1. phase'[r] = phase[r] /\ (r \in lost' <=> r \in lost) /\ (r \in closed => r \in closed')
      BY <1>1, <2>3
    <3> QED
      BY <1>1, <2>1, <3>1 DEF SessionAt
  <2> QED
    BY <2>2, <2>3
<1>5. locked' \subseteq Callers /\ lost' \subseteq Callers /\ closed' \subseteq Callers
      /\ faults' \in 0..MaxFaults
  <2>1. faults' \in 0..MaxFaults
    BY <1>1, <1>2
  <2> QED
    BY <1>1, <1>2, <2>1
<1>6. \A r \in Callers : SessionAt(r, phase[r], locked, Members(pgWaiting), lost, closed)'
  BY <1>1, <1>3, <1>4 DEF SessionAt
<1> QED
  BY <1>3, <1>5, <1>6 DEF SessionsOK

LEMMA SessionsNext ==
    ASSUME LockInv, SessionsOK, [LockNext]_lockVars
    PROVE  SessionsOK'
<1>1. ASSUME NEW r \in Callers,
             \/ Call(r) \/ StartUnpooled(r) \/ FinishUnpooled(r) \/ ConnectFails(r)
             \/ LockAnswered(r) \/ Finish(r)
      PROVE  SessionsOK'
  <2>1. UNCHANGED pgVars
    BY <1>1 DEF Call, StartUnpooled, FinishUnpooled, ConnectFails, LockAnswered, Finish
  <2>2. faults' \in 0..MaxFaults
    <3>1. faults \in 0..MaxFaults
      BY DEF SessionsOK
    <3>2. faults' = faults \/ (faults < MaxFaults /\ faults' = faults + 1)
      BY <1>1 DEF Call, StartUnpooled, FinishUnpooled, ConnectFails, LockAnswered, Finish
    <3> QED
      BY <3>1, <3>2
  <2>3. CASE Call(r) \/ StartUnpooled(r) \/ LockAnswered(r) \/ Finish(r)
    <3>1. phase \in [Callers -> Phases]
      BY DEF LockInv, GatesTyped
    <3>2. \A s \in Callers \ {r} : phase'[s] = phase[s]
      BY <2>3, <3>1 DEF Call, StartUnpooled, LockAnswered, Finish
    <3>3. \/ phase[r] = "idle" /\ phase'[r] \in {"granted", "waiting"}
          \/ phase[r] = "granted" /\ phase'[r] = "running"
          \/ phase[r] = "locking" /\ r \in locked /\ phase'[r] = "running"
          \/ phase[r] = "running" /\ lockPool /\ phase'[r] = "unlocking"
      BY <2>3, <3>1 DEF Call, StartUnpooled, LockAnswered, Finish
    <3>4. "idle" \notin InSession /\ "granted" \notin InSession
      BY DEF InSession
    <3> QED
      BY <2>1, <2>2, <3>2, <3>3, <3>4, MovesKeepSessions
  <2>4. CASE FinishUnpooled(r) \/ ConnectFails(r)
    <3>1. /\ Leave(r) /\ phase[r] \in Inside /\ lockPool' = lockPool
          /\ phase[r] \notin InSession \/ ~lockPool
      BY <2>4 DEF FinishUnpooled, ConnectFails, Inside, InSession, pgVars
    <3>2. /\ phase'[r] = "idle"
          /\ \A s \in Callers \ {r} :
                phase'[s] = phase[s] \/ (phase[s] = "waiting" /\ phase'[s] = "granted")
      BY <3>1, LeaveStep DEF LockInv
    <3>3. "waiting" \notin InSession
      BY DEF InSession
    <3> QED
      BY <2>1, <2>2, <3>1, <3>2, <3>3, MovesKeepSessions
  <2> QED
    BY <1>1, <2>3, <2>4
<1>2. CASE UNCHANGED lockVars
  <2>1. UNCHANGED pgVars /\ phase' = phase /\ faults' = faults
    BY <1>2 DEF lockVars
  <2> QED
    BY <2>1, MovesKeepSessions DEF SessionsOK
<1>3. ASSUME NEW r \in Callers, Connect(r) PROVE SessionsOK'
  BY <1>3, ConnectSession
<1>4. CASE Grant
  BY <1>4, GrantSession
<1>5. ASSUME NEW r \in Callers, Unlock(r) \/ QueryFails(r) PROVE SessionsOK'
  BY <1>5, LeaverSession
<1>6. ASSUME NEW r \in Callers, SessionLost(r) \/ Reap(r) PROVE SessionsOK'
  BY <1>6, ForgetSession
<1>7. ASSUME NEW p \in Processes, Crash(p) PROVE SessionsOK'
  BY <1>7, CrashSessions
<1> QED
  BY <1>1, <1>2, <1>3, <1>4, <1>5, <1>6, <1>7 DEF LockNext

LEMMA SessionsInvariant == LockSpec => []SessionsOK
<1> QED
  BY SessionsStart, SessionsNext, LockInvariant, PTL DEF LockSpec

\* The fields of the gates and of PostgreSQL's lock have their types: no
\* counter of a gate goes below zero (AsyncReadWriteGate).
THEOREM LockTypeCorrect == LockSpec => []LockTypeOK
<1>1. LockInv /\ SessionsOK => LockTypeOK
  BY DEF LockInv, GatesTyped, SessionsOK, Distinct, LockTypeOK
<1> QED
  BY <1>1, LockInvariant, SessionsInvariant, PTL

\* A request that waits for the advisory lock has it, is queued for it or will
\* get an error, and PostgreSQL keeps neither a lock nor a place for a request
\* that is gone, except till it notices a destroyed connection.
THEOREM NoLockOrphaned == LockSpec => []NobodyWaitsInVain
<1>1. SessionsOK => NobodyWaitsInVain
  <2> SUFFICES ASSUME SessionsOK PROVE NobodyWaitsInVain
    OBVIOUS
  <2> DEFINE q == Members(pgWaiting)
  <2>1. \A r \in Callers : SessionAt(r, phase[r], locked, q, lost, closed)
    BY DEF SessionsOK
  <2>2. locked \subseteq Callers /\ q \subseteq Callers
    BY MembersCallers DEF SessionsOK
  <2> HIDE DEF q
  <2>3. /\ \A r \in Callers : phase[r] = "locking" => r \in locked \cup q \cup lost
        /\ \A r \in locked : phase[r] \in InSession \/ r \in closed
        /\ \A r \in q : phase[r] = "locking" \/ r \in closed
    BY <2>1, <2>2 DEF SessionAt
  <2> QED
    BY <2>3 DEF NobodyWaitsInVain, q
<1> QED
  BY <1>1, SessionsInvariant, PTL
=============================================================================

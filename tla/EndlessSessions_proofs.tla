------------------------- MODULE EndlessSessions_proofs -------------------------
(***************************************************************************)
(* EndlessSessions for every number of runs, payments, handlers, plays and  *)
(* phases: what Ronin pays out was banked, at the digest of the saved row,  *)
(* one payment starts one run, a run that is over on the server holds its   *)
(* Miner no more, and the row is never off Ronin's chain of checkpoints.    *)
(*                                                                          *)
(* What makes them inductive: one handler at a time is inside a transaction *)
(* and so finds its row as it left it; a transaction in the mempool still   *)
(* fits Ronin, so one that pays out carries the digest that was banked; and *)
(* a row that was signed as over never takes another phase.                 *)
(***************************************************************************)
EXTENDS EndlessSessions, SumsTheorems

USE EndlessConstants

Statuses == Closed \union {"none", "active", "banked"}

\* What a handler holds.
PhaseHeld(h) ==
    /\ h = [op |-> h.op, run |-> h.run, token |-> h.token, checkpoint |-> h.checkpoint,
            play |-> h.play, bank |-> h.bank]
    /\ h.op \in {"checkpoint", "anchor"} /\ h.run \in Runs /\ h.play \in Plays
    /\ h.bank \in BOOLEAN

CloseHeld ==
    [op : Closing, why : {"start", "bank", "retry", "abandon", "terminate"}, run : Runs,
     at : Seq(Plays), as : {"extraction", "death"}]

RecoverHeld ==
    [op : Closing, why : {"recover"}, run : Runs, at : Seq(Plays), as : {"death"},
     rows : SUBSET Runs]

PlainHeld ==
    {Idle, [op |-> "waiting"]}
        \union [op : {"ghosts"}, runs : SUBSET Runs]
        \union [op : {"enter"}, payment : Payments]
        \union [op : {"begin"}, payment : Payments, run : Runs]
        \union [op : {"resume"}, run : Runs]

IsHeld(h) == h \in PlainHeld \/ h \in CloseHeld \/ h \in RecoverHeld \/ PhaseHeld(h)

EndlessTypeOK ==
    /\ status \in [Runs -> Statuses] /\ signed \in [Runs -> Statuses]
    /\ digest \in [Runs -> Seq(Plays)] /\ anchored \in [Runs -> Seq(Plays)]
    /\ payment \in [Runs -> Payments \union {NoPayment}]
    /\ banked \subseteq Runs
    /\ chain \in [Runs -> {"none", "active", "extraction", "death", "forced"}]
    /\ request = [q \in Requests |-> request[q]]
    /\ \A q \in Requests : IsHeld(request[q])

\* A run that is banked, and sealed at this digest for ever.
Payable(r, at) == signed[r] \notin {"none", "active"} /\ r \in banked /\ at = digest[r]

\* A transaction that is not mined yet still fits Ronin.
TxOK(t) ==
    /\ \/ t \in [kind : {"begin"}, run : Runs]
       \/ t \in [kind : {"checkpoint"}, run : Runs, at : Seq(Plays), to : Seq(Plays)]
       \/ t \in [kind : {"settle"}, run : Runs, at : Seq(Plays), as : {"extraction", "death"}]
    /\ Accepted(t, chain, anchored)
    /\ t.kind = "settle" /\ t.as = "extraction" => Payable(t.run, t.at)
    /\ t.kind = "checkpoint" =>
           Len(t.at) <= Depth(t.run) /\ \E play \in Plays : t.to = Append(t.at, play)

RowOK(r) ==
    /\ signed[r] # "none" => status[r] # "none"
    /\ status[r] = "banked" => signed[r] = "banked"
    /\ signed[r] = "banked" => r \in banked
    /\ chain[r] = "extraction" => Payable(r, anchored[r])
    /\ Rewards /\ status[r] # "none" => chain[r] # "none"
    /\ Rewards /\ status[r] \in Closed => Ended(r)
    /\ Rewards => \/ anchored[r] = digest[r]
                  \/ \E play \in Plays : anchored[r] = Append(digest[r], play)

\* What a handler knows across the steps of the others ...
Knows(h) ==
    /\ h.op = "waiting" => Runs # {}
    /\ h.op = "ghosts" => \A r \in h.runs : Ended(r)
    /\ h.op = "resume" => status[h.run] # "none" /\ (Rewards => chain[h.run] # "none")
    /\ h.op \in Closing /\ h.as = "extraction" =>
           h.why \in {"bank", "retry"} /\ Payable(h.run, h.at)
    /\ Rewards /\ h.op \in Closing /\ h.why \in {"abandon", "terminate"} =>
           chain[h.run] # "none" /\ (h.op = "closed" => Ended(h.run))
    /\ Rewards /\ h.op \in Closing /\ h.why = "recover" =>
           \A r \in h.rows :
               /\ chain[r] # "none"
               /\ h.op # "close" => r = h.run \/ Ended(r)
               /\ h.op = "closed" => Ended(r)

\* ... and because it holds the row lock.
KnowsInside(h) ==
    /\ h.op = "begin" => status[h.run] = "none" /\ \A r \in Runs : payment[r] # h.payment
    /\ h.op = "anchor" => status[h.run] = "active" /\ signed[h.run] = "active"

OneInside ==
    \A p, q \in Requests :
        InTransaction(request[p]) /\ InTransaction(request[q]) => p = q

EndlessInv ==
    /\ EndlessTypeOK
    /\ OneInside
    /\ \A t \in pool : TxOK(t)
    /\ \A r, s \in Locked : r = s
    /\ \A r \in Runs : RowOK(r)
    /\ \A q \in Requests : Knows(request[q]) /\ KnowsInside(request[q])
    /\ PaymentStartsOneRun

-----------------------------------------------------------------------------
(* What the handlers hold.                                                  *)

LEMMA HeldPlain ==
    ASSUME NEW h, IsHeld(h)
    PROVE  /\ h.op = "ghosts" => h \in [op : {"ghosts"}, runs : SUBSET Runs]
           /\ h.op = "enter" => h \in [op : {"enter"}, payment : Payments]
           /\ h.op = "begin" => h \in [op : {"begin"}, payment : Payments, run : Runs]
           /\ h.op = "resume" => h \in [op : {"resume"}, run : Runs]
           /\ h.op \in {"checkpoint", "anchor"} => PhaseHeld(h)
<1>1. CASE h \in PlainHeld
  BY <1>1 DEF PlainHeld, Idle
<1>2. CASE h \in CloseHeld \/ h \in RecoverHeld
  BY <1>2 DEF CloseHeld, RecoverHeld, Closing
<1>3. CASE PhaseHeld(h)
  BY <1>3 DEF PhaseHeld
<1> QED
  BY <1>1, <1>2, <1>3 DEF IsHeld

LEMMA HeldClosing ==
    ASSUME NEW h, IsHeld(h), h.op \in Closing
    PROVE  IF h.why = "recover" THEN h \in RecoverHeld ELSE h \in CloseHeld
<1>1. CASE h \in PlainHeld
  BY <1>1 DEF PlainHeld, Idle, Closing
<1>2. CASE h \in CloseHeld \/ h \in RecoverHeld
  BY <1>2 DEF CloseHeld, RecoverHeld
<1>3. CASE PhaseHeld(h)
  BY <1>3 DEF PhaseHeld, Closing
<1> QED
  BY <1>1, <1>2, <1>3 DEF IsHeld

LEMMA IdleIsFine ==
    IsHeld(Idle) /\ Knows(Idle) /\ KnowsInside(Idle) /\ ~InTransaction(Idle)
BY DEF Idle, IsHeld, PlainHeld, Knows, KnowsInside, InTransaction, Closing

-----------------------------------------------------------------------------
(* The frame.                                                               *)

\* What a transaction or a handler counts on is not taken back.
NothingTakenBack ==
    \A r \in Runs :
        /\ chain[r] # "none" => chain'[r] # "none"
        /\ Ended(r) => chain'[r] = chain[r]
        /\ status[r] # "none" => status'[r] # "none"
        /\ signed[r] \notin {"none", "active"} /\ r \in banked =>
               /\ signed'[r] \notin {"none", "active"} /\ r \in banked'
               /\ digest'[r] = digest[r]

\* Knows(h) in the next state, for an h of this one.
KnowsNext(h) ==
    /\ h.op = "waiting" => Runs # {}
    /\ h.op = "ghosts" => \A r \in h.runs : chain'[r] \in {"extraction", "death", "forced"}
    /\ h.op = "resume" => status'[h.run] # "none" /\ (Rewards => chain'[h.run] # "none")
    /\ h.op \in Closing /\ h.as = "extraction" =>
           /\ h.why \in {"bank", "retry"}
           /\ signed'[h.run] \notin {"none", "active"} /\ h.run \in banked'
           /\ h.at = digest'[h.run]
    /\ Rewards /\ h.op \in Closing /\ h.why \in {"abandon", "terminate"} =>
           /\ chain'[h.run] # "none"
           /\ h.op = "closed" => chain'[h.run] \in {"extraction", "death", "forced"}
    /\ Rewards /\ h.op \in Closing /\ h.why = "recover" =>
           \A r \in h.rows :
               /\ chain'[r] # "none"
               /\ h.op # "close" => r = h.run \/ chain'[r] \in {"extraction", "death", "forced"}
               /\ h.op = "closed" => chain'[r] \in {"extraction", "death", "forced"}

LEMMA KnowsOn ==
    ASSUME EndlessTypeOK, NothingTakenBack, NEW h, IsHeld(h), Knows(h)
    PROVE  KnowsNext(h)
<1>1. /\ h.op = "ghosts" => h.runs \in SUBSET Runs
      /\ h.op = "resume" => h.run \in Runs
  BY HeldPlain
<1>2. h.op \in Closing => h.run \in Runs /\ (h.why = "recover" => h.rows \in SUBSET Runs)
  BY HeldClosing DEF CloseHeld, RecoverHeld
<1> QED
  BY <1>1, <1>2 DEF Knows, KnowsNext, NothingTakenBack, Ended, Payable

LEMMA KnowsThen ==
    ASSUME NEW q \in Requests, KnowsNext(request'[q])
    PROVE  Knows(request[q])'
BY DEF KnowsNext, Knows, Ended, Payable

\* One handler goes on, the others hold what they held; it changes a row only
\* while nobody else is inside a transaction.
LEMMA OthersKnow ==
    ASSUME EndlessInv, NothingTakenBack, NEW q \in Requests,
           request' = [request EXCEPT ![q] = request'[q]],
           IsHeld(request'[q]), KnowsNext(request'[q]), KnowsInside(request[q])',
           \/ DatabaseFree \/ InTransaction(request[q])
           \/ UNCHANGED <<status, signed, payment>> /\ ~InTransaction(request'[q])
    PROVE  /\ request' = [p \in Requests |-> request'[p]]
           /\ \A p \in Requests : IsHeld(request'[p])
           /\ OneInside'
           /\ (\A p \in Requests : Knows(request[p]) /\ KnowsInside(request[p]))'
<1>1. \A p \in Requests : p # q => request'[p] = request[p]
  BY DEF EndlessInv, EndlessTypeOK
<1>2. request' = [p \in Requests |-> request'[p]] /\ \A p \in Requests : IsHeld(request'[p])
  BY <1>1 DEF EndlessInv, EndlessTypeOK
<1>3. OneInside'
  BY <1>1 DEF EndlessInv, OneInside, DatabaseFree
<1>4. ASSUME NEW p \in Requests, p # q PROVE Knows(request[p])' /\ KnowsInside(request[p])'
  <2>1. request'[p] = request[p] /\ IsHeld(request[p]) /\ Knows(request[p]) /\ KnowsInside(request[p])
    BY <1>1, <1>4 DEF EndlessInv, EndlessTypeOK
  <2>2. Knows(request[p])'
    BY <2>1, KnowsOn, KnowsThen DEF EndlessInv
  <2>3. KnowsInside(request[p])'
    <3>1. CASE InTransaction(request[p])
      <4>1. UNCHANGED <<status, signed, payment>>
        BY <1>4, <3>1 DEF EndlessInv, OneInside, DatabaseFree
      <4> QED
        BY <2>1, <4>1 DEF KnowsInside
    <3>2. CASE ~InTransaction(request[p])
      BY <2>1, <3>2 DEF KnowsInside, InTransaction
    <3> QED
      BY <3>1, <3>2
  <2> QED
    BY <2>2, <2>3
<1>5. Knows(request[q])'
  BY KnowsThen
<1> QED
  BY <1>2, <1>3, <1>4, <1>5

LEMMA AllKnow ==
    ASSUME EndlessInv, NothingTakenBack, request' = request,
           UNCHANGED <<status, signed, payment>>
    PROVE  /\ request' = [p \in Requests |-> request'[p]]
           /\ \A p \in Requests : IsHeld(request'[p])
           /\ OneInside'
           /\ (\A p \in Requests : Knows(request[p]) /\ KnowsInside(request[p]))'
<1>1. \A p \in Requests : Knows(request[p])'
  BY KnowsOn, KnowsThen DEF EndlessInv, EndlessTypeOK
<1>2. \A p \in Requests : KnowsInside(request[p])'
  BY DEF EndlessInv, KnowsInside
<1> QED
  BY <1>1, <1>2 DEF EndlessInv, EndlessTypeOK, OneInside, InTransaction

\* Nothing but handlers, reservations, receipts and the mempool.
Quiet == UNCHANGED <<status, signed, digest, payment, banked, chain, anchored>>

LEMMA QuietRows ==
    ASSUME EndlessInv, Quiet, \A t \in pool' : TxOK(t)
    PROVE  /\ NothingTakenBack
           /\ (\A t \in pool : TxOK(t))'
           /\ (\A r, s \in Locked : r = s)'
           /\ (\A r \in Runs : RowOK(r))'
           /\ PaymentStartsOneRun'
<1>1. NothingTakenBack
  BY DEF Quiet, NothingTakenBack
<1>2. (\A t \in pool : TxOK(t))'
  BY DEF Quiet, TxOK, Accepted, Payable, Depth
<1>3. (\A r, s \in Locked : r = s)' /\ PaymentStartsOneRun'
  BY DEF Quiet, EndlessInv, Locked, PaymentStartsOneRun
<1>4. (\A r \in Runs : RowOK(r))'
  BY DEF Quiet, EndlessInv, RowOK, Payable, Ended
<1> QED
  BY <1>1, <1>2, <1>3, <1>4

LEMMA GoesOn ==
    ASSUME EndlessInv, Quiet, \A t \in pool' : TxOK(t), NEW q \in Requests,
           request' = [request EXCEPT ![q] = request'[q]],
           IsHeld(request'[q]), Knows(request'[q]), KnowsInside(request'[q]),
           InTransaction(request'[q]) => DatabaseFree \/ InTransaction(request[q])
    PROVE  EndlessInv'
<1>1. NothingTakenBack
  BY QuietRows
<1>2. KnowsNext(request'[q]) /\ KnowsInside(request[q])'
  BY KnowsOn, <1>1 DEF EndlessInv, Quiet, KnowsInside
<1>3. UNCHANGED <<status, signed, payment>>
  BY DEF Quiet
<1>4. /\ request' = [p \in Requests |-> request'[p]]
      /\ \A p \in Requests : IsHeld(request'[p])
      /\ OneInside'
      /\ (\A p \in Requests : Knows(request[p]) /\ KnowsInside(request[p]))'
  BY <1>1, <1>2, <1>3, OthersKnow
<1>5. EndlessTypeOK'
  BY <1>4 DEF EndlessInv, EndlessTypeOK, Quiet
<1> QED
  BY <1>4, <1>5, QuietRows DEF EndlessInv

\* The handler's new state, from the definitions its action uses.
LEMMA Becoming ==
    ASSUME EndlessInv, NEW q \in Requests, NEW h, request' = [request EXCEPT ![q] = h]
    PROVE  request'[q] = h
BY DEF EndlessInv, EndlessTypeOK

LEMMA AnswerStep ==
    ASSUME EndlessInv, NEW q \in Requests, Quiet, pool' \subseteq pool, Answered(q)
    PROVE  EndlessInv'
<1>1. request' = [request EXCEPT ![q] = Idle]
  BY DEF Answered, Becomes
<1>2. request'[q] = Idle
  BY <1>1, Becoming
<1> QED
  BY <1>1, <1>2, IdleIsFine, GoesOn DEF EndlessInv

-----------------------------------------------------------------------------
(* Arrivals.                                                                *)

LEMMA ArrivalSteps ==
    ASSUME EndlessInv, NEW q \in Requests,
           \/ FindGhosts(q) \/ RecoverMiner(q)
           \/ \E p \in Payments : StartRun(q, p)
           \/ \E r \in Runs, play \in Plays, bank \in BOOLEAN : CheckpointPhase(q, r, play, bank)
           \/ \E r \in Runs, seen \in BOOLEAN : ResumeRun(q, r, seen)
           \/ \E r \in Runs : RetrySettlement(q, r) \/ AbandonRun(q, r) \/ TerminateRun(q, r)
    PROVE  EndlessInv'
<1>1. Quiet /\ pool' = pool
  BY DEF FindGhosts, RecoverMiner, StartRun, CheckpointPhase, ResumeRun, RetrySettlement,
         AbandonRun, TerminateRun, Quiet, row, ledger
<1>2. SUFFICES \E h : /\ request' = [request EXCEPT ![q] = h]
                      /\ IsHeld(h) /\ Knows(h) /\ KnowsInside(h)
                      /\ InTransaction(h) => DatabaseFree
  BY <1>1, Becoming, GoesOn DEF EndlessInv
<1>3. CASE FindGhosts(q)
  <2> DEFINE h == [op |-> "ghosts", runs |-> ActiveRuns]
  <2>1. request' = [request EXCEPT ![q] = h] /\ Rewards /\ Locked = {}
    BY <1>3 DEF FindGhosts, Becomes
  <2>2. IsHeld(h)
    BY DEF IsHeld, PlainHeld, ActiveRuns
  <2>3. \A r \in ActiveRuns : Ended(r)
    BY <2>1 DEF ActiveRuns, Active, Locked, Ended, EndlessInv, EndlessTypeOK, RowOK
  <2>4. Knows(h) /\ KnowsInside(h) /\ ~InTransaction(h)
    BY <2>3 DEF Knows, KnowsInside, InTransaction, Closing
  <2> QED
    BY <2>1, <2>2, <2>4
<1>4. CASE RecoverMiner(q)
  <2> DEFINE h == [op |-> "waiting"]
  <2>1. request' = [request EXCEPT ![q] = h] /\ Runs # {}
    BY <1>4 DEF RecoverMiner, Becomes, Locked, Recoverable
  <2>2. IsHeld(h) /\ Knows(h) /\ KnowsInside(h) /\ ~InTransaction(h)
    BY <2>1 DEF IsHeld, PlainHeld, Knows, KnowsInside, InTransaction, Closing
  <2> QED
    BY <2>1, <2>2
<1>5. CASE \E p \in Payments : StartRun(q, p)
  <2>1. PICK p \in Payments : request' = [request EXCEPT ![q] = [op |-> "enter", payment |-> p]]
    BY <1>5 DEF StartRun, Becomes
  <2> DEFINE h == [op |-> "enter", payment |-> p]
  <2>2. IsHeld(h) /\ Knows(h) /\ KnowsInside(h) /\ ~InTransaction(h)
    BY DEF IsHeld, PlainHeld, Knows, KnowsInside, InTransaction, Closing
  <2> QED
    BY <2>1, <2>2
<1>6. CASE \E r \in Runs, play \in Plays, bank \in BOOLEAN : CheckpointPhase(q, r, play, bank)
  <2>1. PICK r \in Runs, play \in Plays, bank \in BOOLEAN :
           request' = [request EXCEPT ![q] =
               [op |-> "checkpoint", run |-> r, token |-> token[r],
                checkpoint |-> Checkpoint(r), play |-> play, bank |-> bank]]
    BY <1>6 DEF CheckpointPhase, Becomes
  <2> DEFINE h == [op |-> "checkpoint", run |-> r, token |-> token[r],
                   checkpoint |-> Checkpoint(r), play |-> play, bank |-> bank]
  <2>2. IsHeld(h) /\ Knows(h) /\ KnowsInside(h) /\ ~InTransaction(h)
    BY DEF IsHeld, PhaseHeld, Knows, KnowsInside, InTransaction, Closing
  <2> QED
    BY <2>1, <2>2
<1>7. CASE \E r \in Runs, seen \in BOOLEAN : ResumeRun(q, r, seen)
  <2>1. PICK r \in Runs, seen \in BOOLEAN : ResumeRun(q, r, seen)
    BY <1>7
  <2> DEFINE h == [op |-> "resume", run |-> r]
  <2>2. request' = [request EXCEPT ![q] = h] /\ r \in Selected(seen)
    BY <2>1 DEF ResumeRun, Becomes
  <2>3. status[r] \in {"active", "expired"}
    BY <2>2 DEF Selected, Resumable, ActiveRuns, Active
  <2>4. Knows(h)
    BY <2>3 DEF Knows, Closing, EndlessInv, RowOK
  <2>5. IsHeld(h) /\ KnowsInside(h) /\ ~InTransaction(h)
    BY DEF IsHeld, PlainHeld, KnowsInside, InTransaction, Closing
  <2> QED
    BY <2>2, <2>4, <2>5
<1>8. CASE \E r \in Runs : RetrySettlement(q, r)
  <2>1. PICK r \in Runs : RetrySettlement(q, r)
    BY <1>8
  <2> DEFINE h == [op |-> "close", why |-> "retry", run |-> r, at |-> digest[r],
                   as |-> "extraction"]
  <2>2. request' = [request EXCEPT ![q] = h] /\ status[r] = "banked"
    BY <2>1 DEF RetrySettlement, Becomes
  <2>3. Payable(r, digest[r])
    BY <2>2 DEF EndlessInv, RowOK, Payable
  <2>4. IsHeld(h)
    BY DEF IsHeld, CloseHeld, Closing, EndlessInv, EndlessTypeOK
  <2>5. Knows(h) /\ KnowsInside(h) /\ ~InTransaction(h)
    BY <2>3 DEF Knows, KnowsInside, InTransaction, Closing
  <2> QED
    BY <2>2, <2>4, <2>5
<1>9. CASE \E r \in Runs : AbandonRun(q, r) \/ TerminateRun(q, r)
  <2>1. PICK r \in Runs : AbandonRun(q, r) \/ TerminateRun(q, r)
    BY <1>9
  <2>2. PICK why \in {"abandon", "terminate"} :
           request' = [request EXCEPT ![q] =
               [op |-> "close", why |-> why, run |-> r, at |-> digest[r], as |-> "death"]]
    BY <2>1 DEF AbandonRun, TerminateRun, Becomes
  <2> DEFINE h == [op |-> "close", why |-> why, run |-> r, at |-> digest[r], as |-> "death"]
  <2>3. DatabaseFree /\ (Rewards => chain[r] # "none")
    BY <2>1 DEF AbandonRun, TerminateRun, Active, EndlessInv, RowOK
  <2>4. IsHeld(h)
    BY DEF IsHeld, CloseHeld, Closing, EndlessInv, EndlessTypeOK
  <2>5. Knows(h) /\ KnowsInside(h)
    BY <2>3 DEF Knows, KnowsInside, Closing
  <2> QED
    BY <2>2, <2>3, <2>4, <2>5
<1> QED
  BY <1>3, <1>4, <1>5, <1>6, <1>7, <1>8, <1>9

-----------------------------------------------------------------------------
(* Steps that leave the rows and Ronin alone.                               *)

LEMMA AnswerSteps ==
    ASSUME EndlessInv, NEW q \in Requests,
           \/ EntryRefused(q) \/ BeginFails(q) \/ CheckpointFails(q) \/ StoreReceipt(q)
           \/ MarkPending(q) \/ StartUndone(q) \/ ClearReservation(q)
    PROVE  EndlessInv'
<1>1. Quiet /\ pool' \subseteq pool /\ Answered(q)
  BY DEF EntryRefused, BeginFails, CheckpointFails, StoreReceipt, MarkPending, StartUndone,
         ClearReservation, Quiet, row, ledger
<1> QED
  BY <1>1, AnswerStep

\* The smallest new run is one of them.
LEMMA LeastOfNumbers ==
    ASSUME NEW S \in SUBSET Nat, S # {}
    PROVE  Min(S) \in S
<1>1. \E x \in S : \A y \in S : <<y, x>> \notin OpToRel(<, Nat)
  BY WFMin, NatLessThanWellFounded, Zenon
<1>2. \A x, y \in Nat : <<y, x>> \in OpToRel(<, Nat) <=> y < x
  BY DEF OpToRel
<1>3. PICK x \in S : \A y \in S : ~(y < x)
  BY <1>1, <1>2, Zenon
<1>4. \A y \in S : x <= y
  BY <1>3
<1> QED
  BY <1>4 DEF Min

LEMMA FirstRun == Runs # {} => 1 \in Runs
<1>1. Cardinality(Runs) \in Nat
  BY FS_CardinalityType
<1> QED
  BY <1>1

\* The Miner's one run is the smallest.
LEMMA OnlyRun ==
    ASSUME EndlessInv, NEW r \in Locked
    PROVE  Min(Locked) = r
<1>1. Locked = {r}
  BY DEF EndlessInv
<1>2. r \in Nat
  BY FS_CardinalityType DEF Locked
<1> QED
  BY <1>1, <1>2 DEF Min

LEMMA StartSteps ==
    ASSUME EndlessInv, NEW q \in Requests,
           EnterRun(q) \/ StartNotSaved(q) \/ BeginRecovery(q)
    PROVE  EndlessInv'
<1> DEFINE g == request[q]
<1>1. IsHeld(g) /\ Knows(g) /\ KnowsInside(g)
  BY DEF EndlessInv, EndlessTypeOK
<1>2. CASE EnterRun(q)
  <2> DEFINE r == Min(NewRuns)
             h == [op |-> "begin", payment |-> g.payment, run |-> r]
  <2>1. /\ g.op = "enter" /\ DatabaseFree /\ Eligible(g.payment) /\ NewRuns # {}
        /\ request' = [request EXCEPT ![q] = h]
        /\ pool' = IF Rewards THEN pool \union {BeginTx(r)} ELSE pool
        /\ Quiet
    BY <1>2 DEF EnterRun, Becomes, Quiet, row
  <2>2. r \in NewRuns
    <3>1. NewRuns \in SUBSET Nat
      BY FS_CardinalityType DEF NewRuns
    <3> QED
      BY <2>1, <3>1, LeastOfNumbers
  <2>3. r \in Runs /\ chain[r] = "none" /\ status[r] = "none"
    BY <2>2 DEF NewRuns
  <2>4. g.payment \in Payments
    BY <1>1, <2>1, HeldPlain
  <2>5. IsHeld(h) /\ Knows(h)
    BY <2>3, <2>4 DEF IsHeld, PlainHeld, Knows, Closing
  <2>6. KnowsInside(h)
    BY <2>1, <2>3 DEF KnowsInside, Eligible, Consumed
  <2>7. \A t \in pool' : TxOK(t)
    BY <2>1, <2>3 DEF EndlessInv, TxOK, BeginTx, Accepted
  <2>8. request'[q] = h
    BY <2>1, Becoming
  <2> QED
    BY <2>1, <2>5, <2>6, <2>7, <2>8, GoesOn
<1>3. CASE StartNotSaved(q)
  <2> DEFINE h == [op |-> "close", why |-> "start", run |-> g.run, at |-> << >>, as |-> "death"]
  <2>1. g.op = "begin" /\ request' = [request EXCEPT ![q] = h] /\ Quiet /\ pool' = pool
    BY <1>3 DEF StartNotSaved, Becomes, Quiet, row, ledger
  <2>2. g.run \in Runs
    BY <1>1, <2>1, HeldPlain
  <2>3. << >> \in Seq(Plays)
    OBVIOUS
  <2>4. h \in CloseHeld
    BY <2>2, <2>3 DEF CloseHeld, Closing
  <2>5. Knows(h) /\ KnowsInside(h) /\ ~InTransaction(h)
    BY DEF Knows, KnowsInside, InTransaction, Closing
  <2>6. request'[q] = h
    BY <2>1, Becoming
  <2> QED
    BY <2>1, <2>4, <2>5, <2>6, GoesOn DEF IsHeld, EndlessInv
<1>4. CASE BeginRecovery(q)
  <2> DEFINE h == [op |-> "close", why |-> "recover", run |-> 1, at |-> << >>, as |-> "death",
                   rows |-> Recoverable]
  <2>1. g.op = "waiting" /\ request' = [request EXCEPT ![q] = h] /\ Quiet /\ pool' = pool
    BY <1>4 DEF BeginRecovery, Becomes, Quiet, row, ledger
  <2>2. 1 \in Runs
    BY <1>1, <2>1, FirstRun DEF Knows
  <2>3. << >> \in Seq(Plays) /\ Recoverable \in SUBSET Runs
    BY DEF Recoverable
  <2>4. h \in RecoverHeld
    BY <2>2, <2>3 DEF RecoverHeld, Closing
  <2>5. Rewards => \A r \in Recoverable : chain[r] # "none"
    BY DEF EndlessInv, RowOK, Recoverable
  <2>6. Knows(h) /\ KnowsInside(h) /\ ~InTransaction(h)
    BY <2>5 DEF Knows, KnowsInside, InTransaction, Closing
  <2>7. request'[q] = h
    BY <2>1, Becoming
  <2> QED
    BY <2>1, <2>4, <2>6, <2>7, GoesOn DEF IsHeld, EndlessInv
<1> QED
  BY <1>2, <1>3, <1>4

LEMMA SendCheckpointStep ==
    ASSUME EndlessInv, NEW q \in Requests, SendCheckpoint(q)
    PROVE  EndlessInv'
<1> DEFINE g == request[q]
           r == g.run
           h == [g EXCEPT !.op = "anchor"]
           t == AnchorTx(r, anchored[r], Sealed(q))
<1>1. /\ g.op = "checkpoint" /\ DatabaseFree /\ Acceptable(q) /\ r \in Locked
      /\ Len(anchored[r]) = Depth(r)
      /\ pool' = pool \union {t}
      /\ request' = [request EXCEPT ![q] = h]
      /\ Rewards /\ Quiet
  BY DEF SendCheckpoint, Goes, Becomes, Quiet, row
<1>2. PhaseHeld(g) /\ r \in Runs /\ g.play \in Plays
  BY <1>1, HeldPlain DEF EndlessInv, EndlessTypeOK, PhaseHeld
<1>3. digest[r] \in Seq(Plays) /\ anchored[r] \in Seq(Plays)
  BY <1>2 DEF EndlessInv, EndlessTypeOK
<1>4. anchored[r] = digest[r]
  <2>1. \A play \in Plays : anchored[r] # Append(digest[r], play)
    BY <1>1, <1>3 DEF Depth
  <2> QED
    BY <1>1, <1>2, <2>1 DEF EndlessInv, RowOK
<1>5. Sealed(q) = Append(anchored[r], g.play) /\ Sealed(q) \in Seq(Plays)
  BY <1>2, <1>3, <1>4 DEF Sealed
<1>6. TxOK(t)
  <2>1. t \in [kind : {"checkpoint"}, run : Runs, at : Seq(Plays), to : Seq(Plays)]
    BY <1>2, <1>3, <1>5 DEF AnchorTx
  <2>2. Accepted(t, chain, anchored)
    BY <1>1 DEF Accepted, AnchorTx, Locked
  <2>3. Len(t.at) <= Depth(t.run) /\ t.to = Append(t.at, g.play)
    BY <1>3, <1>4, <1>5 DEF AnchorTx, Depth
  <2> QED
    BY <1>2, <2>1, <2>2, <2>3 DEF TxOK
<1>7. status[r] = "active" /\ signed[r] = "active"
  BY <1>1 DEF Acceptable, Active, Valid
<1>8. PhaseHeld(h) /\ h.op = "anchor" /\ h.run = r
  BY <1>2 DEF PhaseHeld
<1>9. IsHeld(h) /\ Knows(h) /\ KnowsInside(h)
  BY <1>7, <1>8 DEF IsHeld, Knows, KnowsInside, Closing
<1>10. request'[q] = h
  BY <1>1, Becoming
<1>11. \A u \in pool' : TxOK(u)
  BY <1>1, <1>6 DEF EndlessInv
<1> QED
  BY <1>1, <1>9, <1>10, <1>11, GoesOn

-----------------------------------------------------------------------------
(* The operator's settlements.                                              *)

LEMMA SendSettleStep ==
    ASSUME EndlessInv, NEW q \in Requests, SendSettle(q)
    PROVE  EndlessInv'
<1> DEFINE g == request[q]
           r == Target(q)
           h == [g EXCEPT !.op = "closing", !.run = r]
           t == SettleTx(r, anchored[r], g.as)
<1>1. /\ g.op = "close" /\ r \in Locked
      /\ g.why = "recover" \/ anchored[r] = g.at
      /\ pool' = pool \union {t}
      /\ request' = [request EXCEPT ![q] = h]
      /\ Rewards /\ Quiet
  BY DEF SendSettle, Sendable, Becomes, Quiet, row
<1>2. /\ IF g.why = "recover" THEN g \in RecoverHeld ELSE g \in CloseHeld
      /\ Knows(g) /\ IsHeld(g)
  BY <1>1, HeldClosing DEF EndlessInv, EndlessTypeOK, Closing
<1>3. r \in Runs /\ anchored[r] \in Seq(Plays) /\ chain[r] = "active"
  BY <1>1 DEF Locked, EndlessInv, EndlessTypeOK
<1>4. g.why # "recover" => r = g.run
  BY DEF Target
<1>5. g.as \in {"extraction", "death"} /\ (g.as = "extraction" => g.why # "recover")
  BY <1>2 DEF RecoverHeld, CloseHeld
<1>6. g.as = "extraction" => Payable(r, anchored[r])
  BY <1>1, <1>2, <1>4, <1>5 DEF Knows, Closing
<1>7. TxOK(t)
  <2>1. t \in [kind : {"settle"}, run : Runs, at : Seq(Plays), as : {"extraction", "death"}]
    BY <1>3, <1>5 DEF SettleTx
  <2>2. Accepted(t, chain, anchored)
    BY <1>3 DEF Accepted, SettleTx
  <2> QED
    BY <1>6, <2>1, <2>2 DEF TxOK, SettleTx
<1>8. \A u \in pool' : TxOK(u)
  BY <1>1, <1>7 DEF EndlessInv
<1>9. /\ IF g.why = "recover" THEN h \in RecoverHeld ELSE h \in CloseHeld
      /\ h.op = "closing" /\ h.why = g.why /\ h.run = r /\ h.as = g.as /\ h.at = g.at
      /\ g.why = "recover" => h.rows = g.rows /\ g.rows \in SUBSET Runs
  BY <1>2, <1>3 DEF RecoverHeld, CloseHeld, Closing
<1>10. ASSUME g.why = "recover", NEW x \in g.rows PROVE x = r \/ Ended(x)
  <2>1. x \in Runs /\ chain[x] # "none"
    BY <1>1, <1>2, <1>9, <1>10 DEF Knows, Closing
  <2>2. chain[x] = "active" => x = r
    BY <1>1, <2>1 DEF Locked, EndlessInv
  <2>3. chain[x] \in {"none", "active", "extraction", "death", "forced"}
    BY <2>1 DEF EndlessInv, EndlessTypeOK
  <2> QED
    BY <2>1, <2>2, <2>3 DEF Ended
<1>11. Knows(h)
  <2>1. h.op \in Closing /\ g.op \in Closing
    BY <1>1, <1>9 DEF Closing
  <2>2. h.as = "extraction" => h.why \in {"bank", "retry"} /\ Payable(h.run, h.at)
    BY <1>2, <1>4, <1>5, <1>9, <2>1 DEF Knows
  <2>3. h.why \in {"abandon", "terminate"} => chain[h.run] # "none"
    BY <1>3, <1>9
  <2>4. h.why = "recover" =>
            \A x \in h.rows : chain[x] # "none" /\ (x = h.run \/ Ended(x))
    BY <1>1, <1>2, <1>9, <1>10, <2>1 DEF Knows
  <2> QED
    BY <1>9, <2>2, <2>3, <2>4 DEF Knows
<1>12. KnowsInside(h) /\ IsHeld(h)
  BY <1>9 DEF KnowsInside, IsHeld
<1>13. InTransaction(h) => InTransaction(g)
  BY <1>1, <1>9 DEF InTransaction, Closing
<1>14. request'[q] = h
  BY <1>1, Becoming
<1> QED
  BY <1>1, <1>8, <1>11, <1>12, <1>13, <1>14, GoesOn

\* A handler learns that its run is over.
LEMMA ClosedStep ==
    ASSUME EndlessInv, NEW q \in Requests, AlreadyClosed(q) \/ SettleConfirmed(q)
    PROVE  EndlessInv'
<1> DEFINE g == request[q]
           h == [g EXCEPT !.op = "closed"]
<1>1. /\ g.op \in {"close", "closing"}
      /\ request' = [request EXCEPT ![q] = h]
      /\ Quiet /\ pool' = pool
  BY DEF AlreadyClosed, SettleConfirmed, Goes, Becomes, Quiet, row, ledger
<1>2. /\ IF g.why = "recover" THEN g \in RecoverHeld ELSE g \in CloseHeld
      /\ Knows(g) /\ IsHeld(g)
  BY <1>1, HeldClosing DEF EndlessInv, EndlessTypeOK, Closing
<1>3. /\ IF g.why = "recover" THEN h \in RecoverHeld ELSE h \in CloseHeld
      /\ h.op = "closed" /\ h.why = g.why /\ h.run = g.run /\ h.as = g.as /\ h.at = g.at
      /\ g.why = "recover" => h.rows = g.rows /\ g.rows \in SUBSET Runs
      /\ g.run \in Runs
  BY <1>2 DEF RecoverHeld, CloseHeld, Closing
<1>4. \A r \in Runs : chain[r] \in {"none", "active", "extraction", "death", "forced"}
  BY DEF EndlessInv, EndlessTypeOK
<1>5. SUFFICES Knows(h)
  <2>1. KnowsInside(h) /\ IsHeld(h)
    BY <1>3 DEF KnowsInside, IsHeld
  <2>2. InTransaction(h) => InTransaction(g)
    BY <1>1, <1>3 DEF InTransaction, Closing
  <2>3. request'[q] = h
    BY <1>1, Becoming
  <2>4. \A t \in pool' : TxOK(t)
    BY <1>1 DEF EndlessInv
  <2> QED
    BY <1>1, <2>1, <2>2, <2>3, <2>4, GoesOn
<1>6. CASE Rewards /\ AlreadyClosed(q)
  <2>1. Locked = {}
    BY <1>6 DEF AlreadyClosed
  <2>2. \A r \in Runs : chain[r] # "none" => Ended(r)
    BY <1>4, <2>1 DEF Locked, Ended
  <2> QED
    BY <1>1, <1>2, <1>3, <2>2 DEF Knows, Closing, Payable
<1>7. CASE SettleConfirmed(q)
  <2>1. g.op = "closing" /\ Ended(g.run)
    BY <1>7 DEF SettleConfirmed, Confirmed, HasEvent, Ended
  <2> QED
    BY <1>2, <1>3, <2>1 DEF Knows, Closing, Payable
<1>8. CASE ~Rewards
  BY <1>1, <1>2, <1>3, <1>8 DEF Knows, Closing, Payable
<1> QED
  BY <1>6, <1>7, <1>8

LEMMA FailSteps ==
    ASSUME EndlessInv, NEW q \in Requests, SettleRefused(q) \/ SettleLost(q)
    PROVE  EndlessInv'
<1> DEFINE g == request[q]
           h == [g EXCEPT !.op = "failed"]
<1>1. g.op \in {"close", "closing"} /\ Fails(q)
  BY DEF SettleRefused, SettleLost
<1>2. Quiet /\ pool' = pool
  BY <1>1 DEF Fails, Quiet, row, ledger
<1>3. CASE g.why \in {"bank", "terminate"}
  <2>1. request' = [request EXCEPT ![q] = h]
    BY <1>1, <1>3 DEF Fails, Goes, Becomes
  <2>2. g \in CloseHeld /\ Knows(g)
    BY <1>1, <1>3, HeldClosing DEF EndlessInv, EndlessTypeOK, Closing
  <2>3. /\ h \in CloseHeld
        /\ h.op = "failed" /\ h.why = g.why /\ h.run = g.run /\ h.as = g.as /\ h.at = g.at
    BY <2>2 DEF CloseHeld, Closing
  <2>4. Knows(h) /\ KnowsInside(h) /\ IsHeld(h) /\ ~InTransaction(h)
    BY <1>1, <1>3, <2>2, <2>3 DEF Knows, KnowsInside, IsHeld, InTransaction, Closing, Payable
  <2> QED
    BY <1>2, <2>1, <2>4, Becoming, GoesOn DEF EndlessInv
<1>4. CASE g.why \notin {"bank", "terminate"}
  <2>1. Answered(q)
    BY <1>1, <1>4 DEF Fails
  <2> QED
    BY <1>2, <2>1, AnswerStep
<1> QED
  BY <1>3, <1>4

-----------------------------------------------------------------------------
(* Steps that change the rows.                                              *)

\* How a row moves when it takes no phase.
Moves(r) ==
    \/ status'[r] = status[r] /\ signed'[r] = signed[r]
    \/ /\ status'[r] \in Closed /\ (Rewards => Ended(r))
       /\ signed'[r] \in {signed[r], status'[r]}
    \/ /\ status'[r] = "active" /\ signed'[r] = signed[r]
       /\ Rewards => chain[r] # "none"

LEMMA RowsMove ==
    ASSUME EndlessInv, UNCHANGED <<digest, payment, chain, anchored, pool>>,
           status' \in [Runs -> Statuses], signed' \in [Runs -> Statuses],
           banked' = banked,
           \A r \in Runs : Moves(r),
           NEW q \in Requests, Answered(q), DatabaseFree \/ InTransaction(request[q])
    PROVE  EndlessInv'
<1>1. "none" \notin Closed /\ "active" \notin Closed /\ "banked" \notin Closed
  BY DEF Closed
<1>2. NothingTakenBack
  BY <1>1 DEF Moves, NothingTakenBack
<1>3. ASSUME NEW r \in Runs PROVE RowOK(r)'
  <2>1. RowOK(r) /\ Moves(r)
    BY DEF EndlessInv
  <2>2. Payable(r, anchored[r]) => Payable(r, anchored[r])'
    BY <1>2 DEF Payable, NothingTakenBack
  <2>3. signed'[r] # "none" => status'[r] # "none"
    BY <1>1, <2>1 DEF RowOK, Moves
  <2>4. (status'[r] = "banked" => signed'[r] = "banked") /\ (signed'[r] = "banked" => r \in banked')
    BY <1>1, <2>1 DEF RowOK, Moves
  <2>5. Rewards /\ status'[r] # "none" => chain'[r] # "none"
    BY <2>1 DEF RowOK, Moves, Ended
  <2>6. Rewards /\ status'[r] \in Closed => Ended(r)'
    BY <1>1, <2>1 DEF RowOK, Moves, Ended
  <2> QED
    BY <2>1, <2>2, <2>3, <2>4, <2>5, <2>6 DEF RowOK
<1>4. (\A t \in pool : TxOK(t))'
  BY <1>2 DEF EndlessInv, TxOK, Accepted, Payable, Depth, NothingTakenBack
<1>5. (\A r, s \in Locked : r = s)' /\ PaymentStartsOneRun'
  BY DEF EndlessInv, Locked, PaymentStartsOneRun
<1>6. request' = [request EXCEPT ![q] = Idle] /\ request'[q] = Idle
  BY Becoming DEF Answered, Becomes
<1>7. KnowsNext(Idle) /\ KnowsInside(request[q])'
  BY <1>6 DEF KnowsNext, KnowsInside, Idle, Closing
<1>8. /\ request' = [p \in Requests |-> request'[p]]
      /\ \A p \in Requests : IsHeld(request'[p])
      /\ OneInside'
      /\ (\A p \in Requests : Knows(request[p]) /\ KnowsInside(request[p]))'
  BY <1>2, <1>6, <1>7, IdleIsFine, OthersKnow
<1>9. EndlessTypeOK'
  BY <1>8 DEF EndlessInv, EndlessTypeOK
<1> QED
  BY <1>3, <1>4, <1>5, <1>8, <1>9 DEF EndlessInv

LEMMA ExpirySteps ==
    ASSUME EndlessInv, NEW q \in Requests,
           ExpireGhosts(q) \/ ExpireRecovered(q)
    PROVE  EndlessInv'
<1> DEFINE g == request[q]
<1>1. PICK runs \in SUBSET Runs :
         /\ status' = [r \in Runs |-> IF r \in runs THEN "expired" ELSE status[r]]
         /\ \/ signed' = signed
            \/ signed' = [r \in Runs |-> IF r \in runs THEN "expired" ELSE signed[r]]
         /\ Rewards => \A r \in runs : Ended(r)
  <2>1. IsHeld(g) /\ Knows(g)
    BY DEF EndlessInv, EndlessTypeOK
  <2>2. CASE ExpireGhosts(q)
    <3> DEFINE runs == {r \in g.runs : Active(r)}
    <3>1. g.op = "ghosts"
      BY <2>2 DEF ExpireGhosts
    <3>2. g.runs \in SUBSET Runs /\ \A r \in g.runs : Ended(r)
      BY <2>1, <3>1, HeldPlain DEF Knows
    <3>3. /\ status' = [r \in Runs |-> IF r \in runs THEN "expired" ELSE status[r]]
          /\ signed' = [r \in Runs |-> IF r \in runs THEN "expired" ELSE signed[r]]
      BY <2>2 DEF ExpireGhosts, Expire
    <3> QED
      BY <3>2, <3>3
  <2>3. CASE ExpireRecovered(q)
    <3> DEFINE runs == g.rows \intersect Recoverable
    <3>1. g.op = "closed" /\ g.why = "recover"
      BY <2>3 DEF ExpireRecovered, Why
    <3>2. g.rows \in SUBSET Runs /\ (Rewards => \A r \in g.rows : Ended(r))
      BY <2>1, <3>1, HeldClosing DEF Knows, RecoverHeld, Closing
    <3>3. status' = [r \in Runs |-> IF r \in runs THEN "expired" ELSE status[r]]
      BY <2>3 DEF ExpireRecovered, Expire
    <3>4. signed' = signed
      BY <2>3 DEF ExpireRecovered
    <3> QED
      BY <3>2, <3>3, <3>4
  <2> QED
    BY <2>2, <2>3
<1>2. UNCHANGED <<digest, payment, banked, chain, anchored, pool>> /\ Answered(q) /\ DatabaseFree
  BY DEF ExpireGhosts, ExpireRecovered, ledger
<1>3. status' \in [Runs -> Statuses] /\ signed' \in [Runs -> Statuses] /\ banked \subseteq Runs
  BY <1>1 DEF EndlessInv, EndlessTypeOK, Statuses, Closed
<1>4. \A r \in Runs : Moves(r)
  BY <1>1 DEF Moves, Closed, EndlessInv, EndlessTypeOK
<1> QED
  BY <1>2, <1>3, <1>4, RowsMove

LEMMA ReviveStep ==
    ASSUME EndlessInv, NEW q \in Requests, ReviveRun(q)
    PROVE  EndlessInv'
<1> DEFINE r == request[q].run
<1>1. /\ UNCHANGED <<digest, payment, signed, banked, chain, anchored, pool>>
      /\ status' = [status EXCEPT ![r] = "active"]
      /\ request[q].op = "resume" /\ Answered(q) /\ DatabaseFree
  BY DEF ReviveRun, ledger
<1>2. Rewards => chain[r] # "none"
  BY <1>1 DEF EndlessInv, Knows
<1>3. status \in [Runs -> Statuses] /\ signed \in [Runs -> Statuses] /\ banked \subseteq Runs
  BY DEF EndlessInv, EndlessTypeOK
<1>4. status' \in [Runs -> Statuses]
  BY <1>1, <1>3 DEF Statuses
<1>5. \A x \in Runs : Moves(x)
  BY <1>1, <1>2, <1>3 DEF Moves
<1> QED
  BY <1>1, <1>3, <1>4, <1>5, RowsMove

LEMMA CloseSteps ==
    ASSUME EndlessInv, NEW q \in Requests,
           RejectRun(q) \/ \E knockout \in BOOLEAN : StoreAbandoned(q, knockout)
    PROVE  EndlessInv'
<1> DEFINE g == request[q]
           r == g.run
<1>1. /\ UNCHANGED <<digest, payment, chain, anchored, pool>>
      /\ g.op = "closed" /\ g.why \in {"abandon", "terminate"} /\ Answered(q)
      /\ g.why = "terminate" => DatabaseFree
      /\ banked' = banked
  BY DEF RejectRun, StoreAbandoned, Why, ledger
<1>2. PICK to \in Closed :
         /\ status' = [status EXCEPT ![r] = to]
         /\ signed' = signed \/ signed' = [signed EXCEPT ![r] = to]
  BY DEF RejectRun, StoreAbandoned, Closed
<1>3. r \in Runs /\ (Rewards => Ended(r))
  <2>1. g \in CloseHeld /\ Knows(g)
    BY <1>1, HeldClosing DEF EndlessInv, EndlessTypeOK, Closing
  <2> QED
    BY <1>1, <2>1 DEF CloseHeld, Knows, Closing
<1>4. status \in [Runs -> Statuses] /\ signed \in [Runs -> Statuses] /\ banked \subseteq Runs
  BY DEF EndlessInv, EndlessTypeOK
<1>5. status' \in [Runs -> Statuses] /\ signed' \in [Runs -> Statuses]
  <2>1. to \in Statuses
    BY DEF Statuses
  <2> QED
    BY <1>2, <1>4, <2>1
<1> HIDE DEF r
<1>6. \A x \in Runs : Moves(x)
  <2> SUFFICES ASSUME NEW x \in Runs PROVE Moves(x)
    OBVIOUS
  <2>1. CASE x = r
    <3>1. status'[x] = to /\ (signed'[x] = signed[x] \/ signed'[x] = to)
      BY <1>2, <1>4, <2>1
    <3> QED
      BY <1>3, <2>1, <3>1 DEF Moves
  <2>2. CASE x # r
    <3>1. status'[x] = status[x] /\ signed'[x] = signed[x]
      BY <1>2, <1>4, <2>2
    <3> QED
      BY <3>1 DEF Moves
  <2> QED
    BY <2>1, <2>2
<1>7. DatabaseFree \/ InTransaction(g)
  BY <1>1 DEF InTransaction, Closing
<1> QED
  BY <1>1, <1>3, <1>4, <1>5, <1>6, <1>7, RowsMove

\* A new row: its payment is none of the others'.
LEMMA BeganStep ==
    ASSUME EndlessInv, NEW q \in Requests, RunBegan(q)
    PROVE  EndlessInv'
<1> DEFINE g == request[q]
           r == g.run
<1>1. /\ g.op = "begin" /\ (Rewards => chain[r] = "active")
      /\ status' = [status EXCEPT ![r] = "active"]
      /\ signed' = [signed EXCEPT ![r] = "active"]
      /\ payment' = [payment EXCEPT ![r] = g.payment]
      /\ UNCHANGED <<digest, banked, chain, anchored, pool>> /\ Answered(q)
  BY DEF RunBegan, ledger
<1>2. /\ r \in Runs /\ g.payment \in Payments
      /\ status[r] = "none" /\ \A s \in Runs : payment[s] # g.payment
  BY <1>1, HeldPlain DEF EndlessInv, EndlessTypeOK, KnowsInside
<1>3. /\ status \in [Runs -> Statuses] /\ signed \in [Runs -> Statuses]
      /\ payment \in [Runs -> Payments \union {NoPayment}]
  BY DEF EndlessInv, EndlessTypeOK
<1>4. signed[r] = "none"
  BY <1>2 DEF EndlessInv, RowOK
<1>5. NothingTakenBack
  BY <1>1, <1>2, <1>3, <1>4 DEF NothingTakenBack
<1>6. (\A x \in Runs : RowOK(x))'
  <2> SUFFICES ASSUME NEW x \in Runs PROVE RowOK(x)'
    OBVIOUS
  <2>1. RowOK(x)
    BY DEF EndlessInv
  <2>2. CASE x = r
    BY <1>1, <1>2, <1>3, <1>4, <2>1, <2>2 DEF RowOK, Payable, Closed
  <2>3. CASE x # r
    BY <1>1, <1>3, <2>1, <2>3 DEF RowOK, Payable, Ended
  <2> QED
    BY <2>2, <2>3
<1>7. (\A t \in pool : TxOK(t))'
  BY <1>1, <1>5 DEF EndlessInv, TxOK, Accepted, Payable, Depth, NothingTakenBack
<1>8. (\A x, y \in Locked : x = y)'
  BY <1>1 DEF EndlessInv, Locked
<1>9. PaymentStartsOneRun'
  BY <1>1, <1>2, <1>3 DEF EndlessInv, PaymentStartsOneRun
<1>10. request' = [request EXCEPT ![q] = Idle] /\ request'[q] = Idle
  BY <1>1, Becoming DEF Answered, Becomes
<1>11. KnowsNext(Idle) /\ KnowsInside(request[q])' /\ InTransaction(g)
  BY <1>1, <1>10 DEF KnowsNext, KnowsInside, Idle, Closing, InTransaction
<1>12. /\ request' = [p \in Requests |-> request'[p]]
       /\ \A p \in Requests : IsHeld(request'[p])
       /\ OneInside'
       /\ (\A p \in Requests : Knows(request[p]) /\ KnowsInside(request[p]))'
  BY <1>5, <1>10, <1>11, IdleIsFine, OthersKnow
<1>13. EndlessTypeOK'
  BY <1>1, <1>2, <1>3, <1>12 DEF EndlessInv, EndlessTypeOK, Statuses
<1> QED
  BY <1>6, <1>7, <1>8, <1>9, <1>12, <1>13 DEF EndlessInv

\* A phase is saved: the row takes over what Ronin has, and from a bank on it is
\* payable at just that digest.
LEMMA SaveSteps ==
    ASSUME EndlessInv, NEW q \in Requests, SaveCheckpoint(q) \/ CheckpointAnchored(q)
    PROVE  EndlessInv'
<1> DEFINE g == request[q]
           r == g.run
           to == Resynced(q)
           h(op) == [op |-> op, why |-> "bank", run |-> r, at |-> to, as |-> "extraction"]
<1>1. /\ g.op \in {"checkpoint", "anchor"} /\ Save(q)
      /\ g.op = "checkpoint" => DatabaseFree /\ Acceptable(q)
      /\ Rewards /\ g.op = "checkpoint" => Len(anchored[r]) = Depth(r) + 1
      /\ g.op = "anchor" => anchored[r] = Sealed(q)
  BY DEF SaveCheckpoint, CheckpointAnchored
<1>2. PhaseHeld(g) /\ r \in Runs /\ g.play \in Plays
  BY <1>1, HeldPlain DEF EndlessInv, EndlessTypeOK, PhaseHeld
<1>3. /\ status \in [Runs -> Statuses] /\ signed \in [Runs -> Statuses]
      /\ digest \in [Runs -> Seq(Plays)] /\ anchored \in [Runs -> Seq(Plays)]
      /\ banked \subseteq Runs
  BY DEF EndlessInv, EndlessTypeOK
<1>4. status[r] = "active" /\ signed[r] = "active"
  <2>1. g.op = "anchor" => status[r] = "active" /\ signed[r] = "active"
    BY DEF EndlessInv, KnowsInside
  <2>2. Acceptable(q) => status[r] = "active" /\ signed[r] = "active"
    BY DEF Acceptable, Active, Valid
  <2> QED
    BY <1>1, <2>1, <2>2
<1>5. Sealed(q) \in Seq(Plays) /\ Sealed(q) = Append(digest[r], g.play)
      /\ Len(Sealed(q)) = Depth(r) + 1
  BY <1>2, <1>3 DEF Sealed, Depth
<1>6. to \in Seq(Plays) /\ Len(to) = Depth(r) + 1 /\ (Rewards => to = anchored[r])
  BY <1>1, <1>2, <1>3, <1>5 DEF Resynced
<1>7. /\ UNCHANGED <<payment, chain, anchored, pool>>
      /\ digest' = [digest EXCEPT ![r] = to]
      /\ \/ UNCHANGED <<status, signed, banked>> /\ Answered(q)
         \/ /\ status' = [status EXCEPT ![r] = "banked"]
            /\ signed' = [signed EXCEPT ![r] = "banked"]
            /\ banked' = banked \union {r}
            /\ \/ Answered(q)
               \/ \E op \in {"close", "failed"} : request' = [request EXCEPT ![q] = h(op)]
  BY <1>1 DEF Save, ledger, Becomes
<1>8. /\ status' \in [Runs -> Statuses] /\ signed' \in [Runs -> Statuses]
      /\ digest' \in [Runs -> Seq(Plays)] /\ banked' \subseteq Runs
      /\ banked \subseteq banked' /\ digest'[r] = to
      /\ \A x \in Runs : x # r => UNCHANGED <<status[x], signed[x], digest[x]>>
  BY <1>2, <1>3, <1>6, <1>7 DEF Statuses
<1>9. status'[r] = signed'[r] /\ status'[r] \in {"active", "banked"}
      /\ (status'[r] = "banked" => r \in banked')
  BY <1>2, <1>3, <1>4, <1>7
<1>10. NothingTakenBack
  BY <1>4, <1>7, <1>8, <1>9 DEF NothingTakenBack
<1>11. ASSUME NEW x \in Runs PROVE RowOK(x)'
  <2>1. RowOK(x)
    BY DEF EndlessInv
  <2>2. CASE x = r
    BY <1>4, <1>6, <1>7, <1>8, <1>9, <2>1, <2>2 DEF RowOK, Payable, Closed
  <2>3. CASE x # r
    BY <1>7, <1>8, <2>1, <2>3 DEF RowOK, Payable, Ended
  <2> QED
    BY <2>2, <2>3
<1>12. ASSUME NEW t \in pool PROVE TxOK(t)'
  <2>1. TxOK(t)
    BY DEF EndlessInv
  <2>2. t.kind = "settle" /\ t.as = "extraction" => Payable(t.run, t.at)'
    BY <1>10, <2>1 DEF TxOK, Payable, NothingTakenBack
  <2>3. t.kind = "checkpoint" => Len(t.at) <= Len(digest'[t.run])
    <3> SUFFICES ASSUME t.kind = "checkpoint" PROVE Len(t.at) <= Len(digest'[t.run])
      OBVIOUS
    <3>1. t.run \in Runs /\ t.at \in Seq(Plays) /\ Len(t.at) <= Depth(t.run)
      BY <2>1 DEF TxOK
    <3>2. Len(t.at) \in Nat /\ Depth(t.run) \in Nat /\ Len(digest'[t.run]) \in Nat
      BY <1>3, <1>8, <3>1 DEF Depth
    <3>3. Depth(t.run) <= Len(digest'[t.run])
      <4>1. CASE t.run = r
        BY <1>6, <1>8, <3>2, <4>1
      <4>2. CASE t.run # r
        BY <1>8, <3>1, <3>2, <4>2 DEF Depth
      <4> QED
        BY <4>1, <4>2
    <3> QED
      BY <3>1, <3>2, <3>3
  <2> QED
    BY <1>7, <2>1, <2>2, <2>3 DEF TxOK, Accepted, Depth
<1>13. (\A x, y \in Locked : x = y)' /\ PaymentStartsOneRun'
  BY <1>7 DEF EndlessInv, Locked, PaymentStartsOneRun
<1>14. /\ request' = [request EXCEPT ![q] = request'[q]]
       /\ IsHeld(request'[q]) /\ KnowsNext(request'[q]) /\ KnowsInside(request[q])'
  <2>1. CASE Answered(q)
    <3>1. request' = [request EXCEPT ![q] = Idle] /\ request'[q] = Idle
      BY <2>1, Becoming DEF Answered, Becomes
    <3>2. KnowsNext(Idle) /\ KnowsInside(request[q])'
      BY <3>1 DEF KnowsNext, KnowsInside, Idle, Closing
    <3> QED
      BY <3>1, <3>2, IdleIsFine
  <2>2. CASE ~Answered(q)
    <3>1. PICK op \in {"close", "failed"} : request' = [request EXCEPT ![q] = h(op)]
      BY <1>7, <2>2
    <3>2. request'[q] = h(op) /\ status'[r] = "banked" /\ r \in banked'
      BY <1>2, <1>3, <1>7, <2>2, <3>1, Becoming
    <3>3. h(op) \in CloseHeld
      BY <1>2, <1>6 DEF CloseHeld, Closing
    <3>4. KnowsNext(h(op))
      BY <1>8, <1>9, <3>2 DEF KnowsNext, Closing
    <3>5. KnowsInside(request[q])'
      BY <3>1, <3>2 DEF KnowsInside
    <3> QED
      BY <3>1, <3>2, <3>3, <3>4, <3>5 DEF IsHeld
  <2> QED
    BY <2>1, <2>2
<1>15. DatabaseFree \/ InTransaction(g)
  BY <1>1 DEF InTransaction
<1>16. /\ request' = [p \in Requests |-> request'[p]]
       /\ \A p \in Requests : IsHeld(request'[p])
       /\ OneInside'
       /\ (\A p \in Requests : Knows(request[p]) /\ KnowsInside(request[p]))'
  BY <1>10, <1>14, <1>15, OthersKnow
<1>17. EndlessTypeOK'
  BY <1>7, <1>8, <1>16 DEF EndlessInv, EndlessTypeOK
<1> QED
  BY <1>7, <1>11, <1>12, <1>13, <1>16, <1>17 DEF EndlessInv

-----------------------------------------------------------------------------
(* Ronin moves on.                                                          *)

\* What is still valid on Ronin was sent while it was.
LEMMA StillFits ==
    ASSUME EndlessInv, NEW t \in pool, Accepted(t, chain', anchored'),
           UNCHANGED <<signed, digest, banked>>
    PROVE  TxOK(t)'
BY DEF EndlessInv, TxOK, Payable, Depth

\* Ronin takes a step of its own, on run r.
RoninSteps(r) ==
    /\ UNCHANGED <<row, request>> /\ pool' = Still(chain', anchored')
    /\ chain' = [chain EXCEPT ![r] = chain'[r]]
    /\ anchored' = [anchored EXCEPT ![r] = anchored'[r]]
    /\ anchored'[r] \in Seq(Plays)
    /\ chain'[r] \in {"active", "extraction", "death", "forced"}
    /\ ~Ended(r)
    /\ chain'[r] = "active" => chain[r] = "active" \/ Locked = {}
    /\ chain'[r] = "extraction" => Payable(r, anchored'[r])
    /\ Rewards => \/ anchored'[r] = digest[r]
                  \/ \E play \in Plays : anchored'[r] = Append(digest[r], play)

LEMMA ChainMoves ==
    ASSUME EndlessInv, NEW r \in Runs, RoninSteps(r)
    PROVE  EndlessInv'
<1> USE DEF RoninSteps
<1>1. /\ chain \in [Runs -> {"none", "active", "extraction", "death", "forced"}]
      /\ anchored \in [Runs -> Seq(Plays)]
      /\ UNCHANGED <<status, signed, digest, payment, banked, request>>
  BY DEF EndlessInv, EndlessTypeOK, row
<1>2. \A x \in Runs : x # r => UNCHANGED <<chain[x], anchored[x]>>
  BY <1>1
<1>3. NothingTakenBack
  BY <1>1, <1>2 DEF NothingTakenBack, Ended
<1>4. ASSUME NEW x \in Runs PROVE RowOK(x)'
  <2>1. RowOK(x)
    BY DEF EndlessInv
  <2>2. CASE x = r
    <3>1. Rewards /\ status[r] \in Closed => Ended(r)'
      BY <1>1, <1>3, <2>1, <2>2 DEF RowOK, Ended, NothingTakenBack
    <3> QED
      BY <1>1, <2>1, <2>2, <3>1 DEF RowOK, Payable
  <2>3. CASE x # r
    BY <1>1, <1>2, <2>1, <2>3 DEF RowOK, Payable, Ended
  <2> QED
    BY <2>2, <2>3
<1>5. \A t \in pool' : t \in pool /\ Accepted(t, chain', anchored')
  BY DEF Still
<1>6. (\A t \in pool : TxOK(t))'
  BY <1>1, <1>5, StillFits
<1>7. (\A x, y \in Locked : x = y)'
  BY <1>1, <1>2 DEF EndlessInv, Locked
<1>8. PaymentStartsOneRun'
  BY <1>1 DEF EndlessInv, PaymentStartsOneRun
<1>9. /\ request' = [p \in Requests |-> request'[p]]
      /\ \A p \in Requests : IsHeld(request'[p])
      /\ OneInside'
      /\ (\A p \in Requests : Knows(request[p]) /\ KnowsInside(request[p]))'
  BY <1>1, <1>3, AllKnow
<1>10. EndlessTypeOK'
  BY <1>1, <1>9 DEF EndlessInv, EndlessTypeOK
<1> QED
  BY <1>4, <1>6, <1>7, <1>8, <1>9, <1>10 DEF EndlessInv

LEMMA MineSteps ==
    ASSUME EndlessInv, NEW t \in pool,
           MineBegin(t) \/ MineCheckpoint(t) \/ MineSettle(t)
    PROVE  EndlessInv'
<1> DEFINE r == t.run
<1>1. TxOK(t)
  BY DEF EndlessInv
<1>2. r \in Runs
  BY <1>1 DEF TxOK
<1>3. /\ chain \in [Runs -> {"none", "active", "extraction", "death", "forced"}]
      /\ anchored \in [Runs -> Seq(Plays)] /\ digest \in [Runs -> Seq(Plays)]
      /\ RowOK(r)
  BY <1>2 DEF EndlessInv, EndlessTypeOK
<1>4. UNCHANGED <<row, request>> /\ pool' = Still(chain', anchored')
  BY DEF MineBegin, MineCheckpoint, MineSettle
<1>5. CASE MineBegin(t)
  <2>1. chain' = [chain EXCEPT ![r] = "active"] /\ anchored' = anchored /\ Locked = {}
    BY <1>5 DEF MineBegin
  <2>2. chain[r] = "none"
    BY <1>1, <1>5 DEF MineBegin, TxOK, Accepted
  <2>3. /\ chain'[r] = "active" /\ chain' = [chain EXCEPT ![r] = chain'[r]]
        /\ anchored'[r] = anchored[r] /\ anchored' = [anchored EXCEPT ![r] = anchored'[r]]
    BY <1>2, <1>3, <2>1
  <2>4. ~Ended(r)
    BY <2>2 DEF Ended
  <2>5. Rewards => \/ anchored'[r] = digest[r]
                   \/ \E play \in Plays : anchored'[r] = Append(digest[r], play)
    BY <1>3, <2>3 DEF RowOK
  <2>6. anchored'[r] \in Seq(Plays)
    BY <1>2, <1>3, <2>3
  <2> QED
    BY <1>2, <1>4, <2>1, <2>3, <2>4, <2>5, <2>6, ChainMoves DEF RoninSteps
<1>6. CASE MineSettle(t)
  <2>1. chain' = [chain EXCEPT ![r] = t.as] /\ anchored' = anchored
    BY <1>6 DEF MineSettle
  <2>2. chain[r] = "active" /\ t.at = anchored[r] /\ t.as \in {"extraction", "death"}
        /\ (t.as = "extraction" => Payable(r, anchored[r]))
    BY <1>1, <1>6 DEF MineSettle, TxOK, Accepted
  <2>3. /\ chain'[r] = t.as /\ chain' = [chain EXCEPT ![r] = chain'[r]]
        /\ anchored'[r] = anchored[r] /\ anchored' = [anchored EXCEPT ![r] = anchored'[r]]
    BY <1>2, <1>3, <2>1
  <2>4. ~Ended(r)
    BY <2>2 DEF Ended
  <2>5. Rewards => \/ anchored'[r] = digest[r]
                   \/ \E play \in Plays : anchored'[r] = Append(digest[r], play)
    BY <1>3, <2>3 DEF RowOK
  <2>6. anchored'[r] \in Seq(Plays)
    BY <1>2, <1>3, <2>3
  <2> QED
    BY <1>2, <1>4, <2>2, <2>3, <2>4, <2>5, <2>6, ChainMoves DEF RoninSteps
<1>7. CASE MineCheckpoint(t)
  <2>1. anchored' = [anchored EXCEPT ![r] = t.to] /\ chain' = chain /\ t.kind = "checkpoint"
    BY <1>7 DEF MineCheckpoint
  <2>2. /\ chain[r] = "active" /\ t.at = anchored[r] /\ t.to \in Seq(Plays)
        /\ Len(t.at) <= Depth(r) /\ \E play \in Plays : t.to = Append(t.at, play)
    BY <1>1, <2>1 DEF TxOK, Accepted
  <2>3. Rewards => anchored[r] = digest[r]
    <3>1. \A play \in Plays : anchored[r] # Append(digest[r], play)
      BY <1>2, <1>3, <2>2 DEF Depth
    <3> QED
      BY <1>3, <3>1 DEF RowOK
  <2>4. /\ chain'[r] = "active" /\ chain' = [chain EXCEPT ![r] = chain'[r]]
        /\ anchored'[r] = t.to /\ anchored' = [anchored EXCEPT ![r] = anchored'[r]]
    BY <1>2, <1>3, <2>1, <2>2
  <2>5. ~Ended(r)
    BY <2>2 DEF Ended
  <2>6. Rewards => \/ anchored'[r] = digest[r]
                   \/ \E play \in Plays : anchored'[r] = Append(digest[r], play)
    BY <2>2, <2>3, <2>4
  <2>7. chain' = [chain EXCEPT ![r] = chain'[r]]
    BY <2>4
  <2>8. anchored' = [anchored EXCEPT ![r] = anchored'[r]]
    BY <2>4
  <2>9. anchored'[r] \in Seq(Plays)
    BY <2>2, <2>4
  <2>10. /\ chain'[r] \in {"active", "extraction", "death", "forced"}
         /\ chain'[r] = "active" => chain[r] = "active" \/ Locked = {}
         /\ chain'[r] = "extraction" => Payable(r, anchored'[r])
    BY <2>2, <2>4
  <2> QED
    BY <1>2, <1>4, <2>5, <2>6, <2>7, <2>8, <2>9, <2>10, ChainMoves DEF RoninSteps
<1> QED
  BY <1>5, <1>6, <1>7

LEMMA OwnerSteps ==
    ASSUME EndlessInv,
           \/ \E t \in pool : DropTransaction(t)
           \/ \E r \in Runs : ForceAbandon(r)
    PROVE  EndlessInv'
<1>1. CASE \E t \in pool : DropTransaction(t)
  <2>1. UNCHANGED <<row, chain, anchored, request>> /\ pool' \subseteq pool
    BY <1>1 DEF DropTransaction
  <2>2. Quiet
    BY <2>1 DEF Quiet, row
  <2>3. NothingTakenBack /\ (\A t \in pool : TxOK(t))' /\ (\A r, s \in Locked : r = s)'
        /\ (\A r \in Runs : RowOK(r))' /\ PaymentStartsOneRun'
    BY <2>1, <2>2, QuietRows DEF EndlessInv
  <2>4. /\ request' = [p \in Requests |-> request'[p]]
        /\ \A p \in Requests : IsHeld(request'[p])
        /\ OneInside'
        /\ (\A p \in Requests : Knows(request[p]) /\ KnowsInside(request[p]))'
    BY <2>1, <2>2, <2>3, AllKnow DEF Quiet
  <2>5. EndlessTypeOK'
    BY <2>2, <2>4 DEF EndlessInv, EndlessTypeOK, Quiet
  <2> QED
    BY <2>3, <2>4, <2>5 DEF EndlessInv
<1>2. CASE \E r \in Runs : ForceAbandon(r)
  <2>1. PICK r \in Runs : ForceAbandon(r)
    BY <1>2
  <2>2. /\ chain[r] = "active" /\ chain' = [chain EXCEPT ![r] = "forced"]
        /\ pool' = Still(chain', anchored) /\ UNCHANGED <<row, anchored, request>>
    BY <2>1 DEF ForceAbandon
  <2>3. /\ chain \in [Runs -> {"none", "active", "extraction", "death", "forced"}]
        /\ anchored \in [Runs -> Seq(Plays)] /\ RowOK(r)
    BY DEF EndlessInv, EndlessTypeOK
  <2>4. /\ chain'[r] = "forced" /\ chain' = [chain EXCEPT ![r] = chain'[r]]
        /\ anchored'[r] = anchored[r] /\ anchored' = [anchored EXCEPT ![r] = anchored'[r]]
        /\ pool' = Still(chain', anchored') /\ anchored'[r] \in Seq(Plays)
    BY <2>2, <2>3
  <2>5. ~Ended(r)
    BY <2>2 DEF Ended
  <2>6. Rewards => \/ anchored'[r] = digest[r]
                   \/ \E play \in Plays : anchored'[r] = Append(digest[r], play)
    BY <2>3, <2>4 DEF RowOK
  <2> QED
    BY <2>2, <2>4, <2>5, <2>6, ChainMoves DEF RoninSteps
<1> QED
  BY <1>1, <1>2

LEMMA RestartStep == EndlessInv /\ Restart => EndlessInv'
<1> SUFFICES ASSUME EndlessInv, Restart PROVE EndlessInv'
  OBVIOUS
<1>1. Quiet /\ pool' = pool /\ request' = [q \in Requests |-> Idle]
  BY DEF Restart, Quiet, row, ledger
<1>2. /\ (\A t \in pool : TxOK(t))' /\ (\A r, s \in Locked : r = s)'
      /\ (\A r \in Runs : RowOK(r))' /\ PaymentStartsOneRun'
  BY <1>1, QuietRows DEF EndlessInv
<1>3. (\A q \in Requests : Knows(request[q]) /\ KnowsInside(request[q]))' /\ OneInside'
  BY <1>1 DEF Knows, KnowsInside, Idle, Closing, OneInside, InTransaction
<1>4. EndlessTypeOK'
  BY <1>1, IdleIsFine DEF EndlessInv, EndlessTypeOK, Quiet
<1> QED
  BY <1>2, <1>3, <1>4 DEF EndlessInv

-----------------------------------------------------------------------------
(* The theorems.                                                            *)

LEMMA EndlessInitial == Init => EndlessInv
<1> SUFFICES ASSUME Init PROVE EndlessInv
  OBVIOUS
<1>1. << >> \in Seq(Plays)
  OBVIOUS
<1>2. EndlessTypeOK
  BY <1>1, IdleIsFine DEF Init, EndlessTypeOK, Statuses
<1>3. OneInside /\ \A q \in Requests : Knows(request[q]) /\ KnowsInside(request[q])
  BY IdleIsFine DEF Init, OneInside
<1>4. (\A r \in Runs : RowOK(r)) /\ Locked = {} /\ pool = {} /\ PaymentStartsOneRun
  BY DEF Init, RowOK, Closed, Locked, PaymentStartsOneRun
<1> QED
  BY <1>2, <1>3, <1>4 DEF EndlessInv

LEMMA EndlessStep == EndlessInv /\ [Next]_vars => EndlessInv'
<1> SUFFICES ASSUME EndlessInv, [Next]_vars PROVE EndlessInv'
  OBVIOUS
<1>1. CASE UNCHANGED vars
  <2>1. Quiet /\ pool' = pool /\ request' = request
    BY <1>1 DEF vars, row, ledger, Quiet
  <2>2. NothingTakenBack /\ (\A t \in pool : TxOK(t))' /\ (\A r, s \in Locked : r = s)'
        /\ (\A r \in Runs : RowOK(r))' /\ PaymentStartsOneRun'
    BY <2>1, QuietRows DEF EndlessInv
  <2>3. /\ OneInside'
        /\ (\A p \in Requests : Knows(request[p]) /\ KnowsInside(request[p]))'
    BY <2>1, <2>2, AllKnow DEF Quiet
  <2>4. EndlessTypeOK'
    BY <2>1 DEF EndlessInv, EndlessTypeOK, Quiet
  <2> QED
    BY <2>2, <2>3, <2>4 DEF EndlessInv
<1>2. CASE Mine
  BY <1>2, MineSteps DEF Mine
<1>3. CASE (\E t \in pool : DropTransaction(t)) \/ (\E r \in Runs : ForceAbandon(r))
  BY <1>3, OwnerSteps
<1>4. CASE \E q \in Requests, p \in Payments : StartRun(q, p)
  BY <1>4, ArrivalSteps
<1>5. CASE \E q \in Requests, r \in Runs, play \in Plays, bank \in BOOLEAN :
              CheckpointPhase(q, r, play, bank)
  BY <1>5, ArrivalSteps
<1>6. CASE \E q \in Requests, r \in Runs, seen \in BOOLEAN : ResumeRun(q, r, seen)
  BY <1>6, ArrivalSteps
<1>7. CASE \E q \in Requests, r \in Runs :
              RetrySettlement(q, r) \/ AbandonRun(q, r) \/ TerminateRun(q, r)
  BY <1>7, ArrivalSteps
<1>8. CASE \E q \in Requests : FindGhosts(q) \/ RecoverMiner(q)
  BY <1>8, ArrivalSteps
<1>9. CASE \E q \in Requests : Continue(q)
  <2>1. PICK q \in Requests : Continue(q)
    BY <1>9
  <2>2. CASE EntryRefused(q) \/ BeginFails(q) \/ CheckpointFails(q) \/ StoreReceipt(q)
             \/ MarkPending(q) \/ StartUndone(q) \/ ClearReservation(q)
    BY <2>2, AnswerSteps
  <2>3. CASE EnterRun(q) \/ StartNotSaved(q) \/ BeginRecovery(q)
    BY <2>3, StartSteps
  <2>4. CASE SendCheckpoint(q) \/ SendSettle(q)
    BY <2>4, SendCheckpointStep, SendSettleStep
  <2>5. CASE AlreadyClosed(q) \/ SettleConfirmed(q) \/ SettleRefused(q) \/ SettleLost(q)
    BY <2>5, ClosedStep, FailSteps
  <2>6. CASE ExpireGhosts(q) \/ ExpireRecovered(q) \/ ReviveRun(q)
    BY <2>6, ExpirySteps, ReviveStep
  <2>7. CASE RejectRun(q) \/ \E knockout \in BOOLEAN : StoreAbandoned(q, knockout)
    BY <2>7, CloseSteps
  <2>8. CASE RunBegan(q) \/ SaveCheckpoint(q) \/ CheckpointAnchored(q)
    BY <2>8, BeganStep, SaveSteps
  <2> QED
    BY <2>1, <2>2, <2>3, <2>4, <2>5, <2>6, <2>7, <2>8 DEF Continue
<1>10. CASE Restart
  BY <1>10, RestartStep
<1> QED
  BY <1>1, <1>2, <1>3, <1>4, <1>5, <1>6, <1>7, <1>8, <1>9, <1>10 DEF Next

\* The invariant holds of every instance.
THEOREM EndlessInvariant == Spec => []EndlessInv
<1> QED
  BY EndlessInitial, EndlessStep, PTL DEF Spec

\* Ronin pays out only runs that the server has banked, at the digest of the row.
THEOREM PaidIsBanked == Spec => []OnlyBankedIsPaid
<1>1. EndlessInv => OnlyBankedIsPaid
  BY DEF EndlessInv, RowOK, Payable, OnlyBankedIsPaid
<1> QED
  BY <1>1, EndlessInvariant, PTL

\* One MATT payment starts one run.
THEOREM OneRunPerPayment == Spec => []PaymentStartsOneRun
<1>1. EndlessInv => PaymentStartsOneRun
  BY DEF EndlessInv
<1> QED
  BY <1>1, EndlessInvariant, PTL

\* A run that is over on the server holds its Miner no more.
THEOREM ClosedRunsRelease == Spec => []ClosedIsReleased
<1>1. EndlessInv => ClosedIsReleased
  BY DEF EndlessInv, RowOK, ClosedIsReleased
<1> QED
  BY <1>1, EndlessInvariant, PTL

LEMMA OneFurtherIsPrefix ==
    ASSUME NEW d \in Seq(Plays), NEW a \in Seq(Plays),
           a = d \/ \E play \in Plays : a = Append(d, play)
    PROVE  IsPrefix(d, a) /\ Len(a) <= Len(d) + 1
<1>1. CASE a = d
  BY <1>1 DEF IsPrefix
<1>2. ASSUME NEW play \in Plays, a = Append(d, play) PROVE IsPrefix(d, a) /\ Len(a) <= Len(d) + 1
  <2>1. Len(a) = Len(d) + 1 /\ Len(d) \in Nat
    BY <1>2
  <2>2. \A i \in 1..Len(d) : a[i] = d[i]
    BY <1>2
  <2>3. SubSeq(a, 1, Len(d)) = SubSeq(d, 1, Len(d))
    BY <2>1, <2>2
  <2> QED
    BY <2>1, <2>3 DEF IsPrefix
<1> QED
  BY <1>1, <1>2

\* The row is never ahead of Ronin, never off its chain of checkpoints, and at
\* most one checkpoint behind.
THEOREM RowIsOnChain == Spec => []RowFollowsChain
<1>1. EndlessInv => RowFollowsChain
  <2> SUFFICES ASSUME EndlessInv, Rewards, NEW r \in Runs
               PROVE  IsPrefix(digest[r], anchored[r]) /\ Len(anchored[r]) <= Depth(r) + 1
    BY DEF RowFollowsChain
  <2>1. digest[r] \in Seq(Plays) /\ anchored[r] \in Seq(Plays) /\ RowOK(r)
    BY DEF EndlessInv, EndlessTypeOK
  <2> QED
    BY <2>1, OneFurtherIsPrefix DEF RowOK, Depth
<1> QED
  BY <1>1, EndlessInvariant, PTL

-----------------------------------------------------------------------------
(* Types.                                                                   *)

\* What EndlessTypeOK leaves out: the columns no safety property relies on.
ColumnsTyped ==
    /\ token \in [Runs -> 0..MaxTokens]
    /\ terminating \in [Runs -> BOOLEAN]
    /\ reward \in [Runs -> {"none", "pending", "settled"}]

\* A session's new token is a number above every token that was given.
LEMMA TokensCount ==
    ASSUME token \in [Runs -> 0..MaxTokens], Runs # {}
    PROVE  NewToken \in Nat /\ \A r \in Runs : token[r] < NewToken
<1> DEFINE S == {token[r] : r \in Runs}
           U == {k \in 1..(MaxTokens + 1) : k - 1 \in S}
<1>1. \A x \in S : x \in Nat /\ x <= MaxTokens
  BY EndlessConstants
<1>2. \A x \in S : x + 1 \in U /\ (x + 1) - 1 = x
  BY <1>1, EndlessConstants
<1>3. U # {} /\ MaxTokens + 1 \in Nat /\ U \in SUBSET (1..(MaxTokens + 1))
  <2>1. PICK r \in Runs : TRUE
    OBVIOUS
  <2>2. token[r] + 1 \in U
    BY <1>2, <2>1
  <2> QED
    BY <2>2, EndlessConstants
<1>4. PICK k \in U : \A y \in U : k >= y
  BY <1>3, GreatestOfNumbers
<1>5. k - 1 \in S /\ k \in Nat
  BY <1>4
<1>6. \A x \in S : k - 1 >= x
  BY <1>1, <1>2, <1>4, <1>5
<1> HIDE DEF U, S
<1>7. Max(S) \in S /\ \A x \in S : Max(S) >= x
  BY <1>5, <1>6 DEF Max
<1>8. NewToken = 1 + Max(S)
  BY DEF NewToken, S
<1>9. \A r \in Runs : token[r] \in S
  BY DEF S
<1> QED
  BY <1>1, <1>7, <1>8, <1>9

LEMMA ColumnsStep == ColumnsTyped /\ EndlessInv /\ [Next]_vars => ColumnsTyped'
<1> SUFFICES ASSUME ColumnsTyped, EndlessInv, [Next]_vars PROVE ColumnsTyped'
  OBVIOUS
<1>1. CASE UNCHANGED <<token, terminating, reward>>
  BY <1>1 DEF ColumnsTyped
<1>2. CASE UNCHANGED <<token, reward>> /\ terminating' \in [Runs -> BOOLEAN]
  BY <1>2 DEF ColumnsTyped
<1>3. CASE UNCHANGED token /\ terminating' \in [Runs -> BOOLEAN]
           /\ reward' \in [Runs -> {"none", "pending", "settled"}]
  BY <1>3 DEF ColumnsTyped
<1>4. CASE \E q \in Requests : Continue(q)
  <2>1. PICK q \in Requests : Continue(q)
    BY <1>4
  <2>2. CASE ReviveRun(q)
    <3>1. request[q].run \in Runs
      BY <2>2, HeldPlain DEF ReviveRun, EndlessInv, EndlessTypeOK
    <3>2. NewToken \in 0..MaxTokens
      BY <2>2, <3>1, TokensCount DEF ReviveRun, ColumnsTyped
    <3> QED
      BY <2>2, <3>1, <3>2 DEF ReviveRun, ColumnsTyped
  <2>3. CASE ExpireGhosts(q) \/ ExpireRecovered(q)
    BY <1>2, <2>3 DEF ExpireGhosts, ExpireRecovered, Expire, ColumnsTyped
  <2>4. CASE StoreReceipt(q) \/ MarkPending(q) \/ \E knockout \in BOOLEAN : StoreAbandoned(q, knockout)
    BY <1>3, <2>4 DEF StoreReceipt, MarkPending, Queued, StoreAbandoned, ColumnsTyped
  <2>5. CASE RejectRun(q) \/ ClearReservation(q)
    BY <1>3, <2>5 DEF RejectRun, ClearReservation, ColumnsTyped
  <2>6. CASE EnterRun(q) \/ EntryRefused(q) \/ RunBegan(q) \/ BeginFails(q) \/ StartNotSaved(q)
    BY <1>1, <2>6 DEF EnterRun, EntryRefused, RunBegan, BeginFails, StartNotSaved, row
  <2>7. CASE SendCheckpoint(q) \/ SaveCheckpoint(q) \/ CheckpointAnchored(q) \/ CheckpointFails(q)
    BY <1>1, <2>7 DEF SendCheckpoint, SaveCheckpoint, CheckpointAnchored, CheckpointFails, Save, row
  <2>8. CASE SendSettle(q) \/ AlreadyClosed(q) \/ SettleConfirmed(q) \/ SettleRefused(q)
             \/ SettleLost(q) \/ StartUndone(q) \/ BeginRecovery(q)
    <3>1. row' = row
      BY <2>8 DEF SendSettle, AlreadyClosed, SettleConfirmed, SettleRefused, SettleLost,
                  Fails, StartUndone, BeginRecovery
    <3> QED
      BY <1>1, <3>1 DEF row
  <2> QED
    BY <2>1, <2>2, <2>3, <2>4, <2>5, <2>6, <2>7, <2>8 DEF Continue
<1>5. CASE \E q \in Requests, r \in Runs : TerminateRun(q, r)
  BY <1>2, <1>5 DEF TerminateRun, ColumnsTyped
<1>6. CASE UNCHANGED vars
  BY <1>1, <1>6 DEF vars, row
<1>7. CASE Mine \/ (\E t \in pool : DropTransaction(t)) \/ (\E r \in Runs : ForceAbandon(r)) \/ Restart
  BY <1>1, <1>7 DEF Mine, MineBegin, MineCheckpoint, MineSettle, DropTransaction, ForceAbandon, Restart, row
<1>8. CASE \E q \in Requests : \/ \E p \in Payments : StartRun(q, p)
                              \/ FindGhosts(q) \/ RecoverMiner(q)
  BY <1>1, <1>8 DEF StartRun, FindGhosts, RecoverMiner, row
<1>9. CASE \E q \in Requests, r \in Runs :
              \/ \E play \in Plays, bank \in BOOLEAN : CheckpointPhase(q, r, play, bank)
              \/ \E seen \in BOOLEAN : ResumeRun(q, r, seen)
              \/ RetrySettlement(q, r) \/ AbandonRun(q, r)
  <2>1. CASE \E q \in Requests, r \in Runs, play \in Plays, bank \in BOOLEAN :
                CheckpointPhase(q, r, play, bank)
    BY <1>1, <2>1 DEF CheckpointPhase, row
  <2>2. CASE \E q \in Requests, r \in Runs, seen \in BOOLEAN : ResumeRun(q, r, seen)
    BY <1>1, <2>2 DEF ResumeRun, row
  <2>3. CASE \E q \in Requests, r \in Runs : RetrySettlement(q, r) \/ AbandonRun(q, r)
    BY <1>1, <2>3 DEF RetrySettlement, AbandonRun, row
  <2> QED
    BY <1>9, <2>1, <2>2, <2>3
<1> QED
  BY <1>4, <1>5, <1>6, <1>7, <1>8, <1>9 DEF Next

\* A row's columns, the banks and Ronin's record of a run keep their types,
\* and the tokens that replace lost ones are numbered.
THEOREM EndlessTypeCorrect == Spec => []TypeOK
<1>1. Init => ColumnsTyped
  BY EndlessConstants DEF Init, ColumnsTyped
<1>2. EndlessInv /\ ColumnsTyped => TypeOK
  BY DEF EndlessInv, EndlessTypeOK, ColumnsTyped, Statuses, TypeOK
<1> QED
  BY <1>1, <1>2, ColumnsStep, EndlessInvariant, PTL DEF Spec

-----------------------------------------------------------------------------
(* One browser per run.                                                     *)

\* A phase is saved for the browser whose token is in force at that moment, on
\* an active row that no administrator has reserved, and takes it one phase on.
\* A browser that was superseded stays so: a new token is above all earlier ones.
HolderStep ==
    \A r \in Runs :
        /\ digest'[r] # digest[r] =>
               /\ Active(r) /\ ~terminating[r]
               /\ \E play \in Plays : digest'[r] = Append(digest[r], play)
               /\ \E q \in Requests : /\ request[q].op \in {"checkpoint", "anchor"}
                                      /\ request[q].run = r /\ request[q].token = token[r]
        /\ token'[r] # token[r] => \A s \in Runs : token[s] < token'[r]
OnlyHolderSaves == [][HolderStep]_vars

\* While a checkpoint is being sent to Ronin nobody else gets at its row.
AnchorOK(h) ==
    h.op = "anchor" => /\ h.run \in Runs /\ h.token = token[h.run] /\ ~terminating[h.run]
AnchorsHold == \A q \in Requests : AnchorOK(request[q])

LEMMA StepsAreLabelled ==
    ASSUME EndlessInv, NEW q \in Requests, NEW op
    PROVE  [request[q] EXCEPT !.op = op].op = op
<1> DEFINE h == request[q]
<1>1. IsHeld(h)
  BY DEF EndlessInv, EndlessTypeOK
<1>2. CASE h \in PlainHeld
  BY <1>2 DEF PlainHeld, Idle
<1>3. CASE h \in CloseHeld \/ h \in RecoverHeld
  BY <1>3 DEF CloseHeld, RecoverHeld
<1>4. CASE PhaseHeld(h)
  <2>1. h = [op |-> h.op, run |-> h.run, token |-> h.token, checkpoint |-> h.checkpoint,
             play |-> h.play, bank |-> h.bank]
    BY <1>4 DEF PhaseHeld
  <2> HIDE DEF h
  <2>2. [h EXCEPT !.op = op].op = op
    BY <2>1
  <2> QED
    BY <2>2 DEF h
<1> QED
  BY <1>1, <1>2, <1>3, <1>4 DEF IsHeld

\* A handler goes on or answers; the reservations and tokens change only while
\* no checkpoint is under way.
LEMMA AnchorsStay ==
    ASSUME EndlessInv, AnchorsHold, NEW q \in Requests, NEW h,
           request' = [request EXCEPT ![q] = h], AnchorOK(h)',
           DatabaseFree \/ UNCHANGED <<token, terminating>>
    PROVE  AnchorsHold'
<1> SUFFICES ASSUME NEW p \in Requests PROVE AnchorOK(request[p])'
  BY DEF AnchorsHold
<1>1. CASE p = q
  <2>1. request'[p] = h
    BY <1>1, Becoming
  <2> QED
    BY <2>1 DEF AnchorOK
<1>2. CASE p # q
  <2>1. request'[p] = request[p] /\ AnchorOK(request[p])
    BY <1>2 DEF EndlessInv, EndlessTypeOK, AnchorsHold
  <2>2. DatabaseFree => request[p].op # "anchor"
    BY DEF DatabaseFree, InTransaction
  <2> QED
    BY <2>1, <2>2 DEF AnchorOK
<1> QED
  BY <1>1, <1>2

LEMMA AnchorsStart ==
    ASSUME EndlessInv, AnchorsHold, NEW q \in Requests, SendCheckpoint(q)
    PROVE  AnchorsHold'
<1> DEFINE g == request[q]
<1>1. PICK h : /\ h = [g EXCEPT !.op = "anchor"]
               /\ request' = [request EXCEPT ![q] = h]
  BY DEF SendCheckpoint, Goes, Becomes
<1>2. g.op = "checkpoint" /\ Acceptable(q) /\ UNCHANGED <<token, terminating>>
  BY DEF SendCheckpoint, row
<1>3. PhaseHeld(g)
  BY <1>2, HeldPlain DEF EndlessInv, EndlessTypeOK
<1>4. /\ g.run \in Runs
      /\ g = [op |-> g.op, run |-> g.run, token |-> g.token, checkpoint |-> g.checkpoint,
              play |-> g.play, bank |-> g.bank]
  BY <1>3 DEF PhaseHeld
<1>5. g.token = token[g.run] /\ ~terminating[g.run]
  BY <1>2 DEF Acceptable
<1> HIDE DEF g
<1>6. h.run = g.run /\ h.token = g.token
  BY <1>1, <1>4
<1>7. AnchorOK(h)'
  BY <1>2, <1>4, <1>5, <1>6 DEF AnchorOK
<1> QED
  BY <1>1, <1>2, <1>7, AnchorsStay

LEMMA AnchorsStep == AnchorsHold /\ EndlessInv /\ [Next]_vars => AnchorsHold'
<1> SUFFICES ASSUME AnchorsHold, EndlessInv, [Next]_vars PROVE AnchorsHold'
  OBVIOUS
<1> DEFINE Free == DatabaseFree \/ UNCHANGED <<token, terminating>>
<1>1. ASSUME NEW q \in Requests, NEW h, Becomes(q, h), h.op # "anchor", Free
      PROVE  AnchorsHold'
  BY <1>1, AnchorsStay DEF Becomes, AnchorOK
<1>2. ASSUME NEW q \in Requests, Answered(q), Free PROVE AnchorsHold'
  BY <1>1, <1>2 DEF Answered, Idle
<1>3. ASSUME NEW q \in Requests, NEW op, op # "anchor", Goes(q, op), Free PROVE AnchorsHold'
  BY <1>1, <1>3, StepsAreLabelled DEF Goes
<1>4. CASE UNCHANGED <<request, token, terminating>>
  BY <1>4 DEF AnchorsHold, AnchorOK
<1>5. CASE Restart
  <2>1. \A q \in Requests : request'[q].op # "anchor"
    BY <1>5 DEF Restart, Idle
  <2> QED
    BY <2>1 DEF AnchorsHold, AnchorOK
<1>6. CASE \E q \in Requests : Continue(q)
  <2>1. PICK q \in Requests : Continue(q)
    BY <1>6
  <2>2. CASE SendCheckpoint(q)
    BY <2>2, AnchorsStart
  <2>3. CASE ExpireGhosts(q) \/ ReviveRun(q) \/ RejectRun(q) \/ ClearReservation(q) \/ ExpireRecovered(q)
    <3>1. DatabaseFree /\ Answered(q)
      BY <2>3 DEF ExpireGhosts, ReviveRun, RejectRun, ClearReservation, ExpireRecovered
    <3> QED
      BY <1>2, <3>1
  <2>4. CASE EntryRefused(q) \/ RunBegan(q) \/ BeginFails(q) \/ CheckpointFails(q)
             \/ StoreReceipt(q) \/ MarkPending(q) \/ StartUndone(q)
             \/ \E knockout \in BOOLEAN : StoreAbandoned(q, knockout)
    <3>1. Answered(q) /\ UNCHANGED <<token, terminating>>
      BY <2>4 DEF EntryRefused, RunBegan, BeginFails, CheckpointFails, StoreReceipt, MarkPending,
                  StartUndone, StoreAbandoned, row
    <3> QED
      BY <1>2, <3>1
  <2>5. CASE EnterRun(q) \/ StartNotSaved(q) \/ BeginRecovery(q) \/ SendSettle(q)
    <3>1. UNCHANGED <<token, terminating>>
      BY <2>5 DEF EnterRun, StartNotSaved, BeginRecovery, SendSettle, row
    <3>2. CASE EnterRun(q)
      BY <1>1, <3>1, <3>2 DEF EnterRun
    <3>3. CASE StartNotSaved(q)
      BY <1>1, <3>1, <3>3 DEF StartNotSaved
    <3>4. CASE BeginRecovery(q)
      BY <1>1, <3>1, <3>4 DEF BeginRecovery
    <3>5. CASE SendSettle(q)
      <4>1. PICK h : Becomes(q, h) /\ h.op = "closing"
        <5>1. request[q].op \in Closing /\ IsHeld(request[q])
          BY <3>5 DEF SendSettle, Closing, EndlessInv, EndlessTypeOK
        <5>2. request[q] \in CloseHeld \/ request[q] \in RecoverHeld
          BY <5>1, HeldClosing
        <5>3. [request[q] EXCEPT !.op = "closing", !.run = Target(q)].op = "closing"
          BY <5>2 DEF CloseHeld, RecoverHeld
        <5> QED
          BY <3>5, <5>3 DEF SendSettle
      <4> QED
        BY <1>1, <3>1, <4>1
    <3> QED
      BY <2>5, <3>2, <3>3, <3>4, <3>5
  <2>6. CASE AlreadyClosed(q) \/ SettleConfirmed(q) \/ SettleRefused(q) \/ SettleLost(q)
    <3>1. UNCHANGED <<token, terminating>>
      BY <2>6 DEF AlreadyClosed, SettleConfirmed, SettleRefused, SettleLost, Fails, row
    <3>2. Goes(q, "closed") \/ Goes(q, "failed") \/ Answered(q)
      BY <2>6 DEF AlreadyClosed, SettleConfirmed, SettleRefused, SettleLost, Fails
    <3> QED
      BY <1>2, <1>3, <3>1, <3>2
  <2>7. CASE SaveCheckpoint(q) \/ CheckpointAnchored(q)
    <3>1. Save(q)
      BY <2>7 DEF SaveCheckpoint, CheckpointAnchored
    <3>2. UNCHANGED <<token, terminating>>
      BY <3>1 DEF Save
    <3>3. Answered(q) \/ \E op \in {"close", "failed"} :
               Becomes(q, [op |-> op, why |-> "bank", run |-> request[q].run,
                           at |-> Resynced(q), as |-> "extraction"])
      BY <3>1 DEF Save
    <3> QED
      BY <1>1, <1>2, <3>2, <3>3
  <2> QED
    BY <2>1, <2>2, <2>3, <2>4, <2>5, <2>6, <2>7 DEF Continue
<1>7. CASE \E q \in Requests, r \in Runs : TerminateRun(q, r) \/ AbandonRun(q, r)
  <2>1. PICK q \in Requests, r \in Runs, why \in {"terminate", "abandon"} :
           /\ DatabaseFree
           /\ Becomes(q, [op |-> "close", why |-> why, run |-> r, at |-> digest[r], as |-> "death"])
    BY <1>7 DEF TerminateRun, AbandonRun
  <2> QED
    BY <1>1, <2>1
<1>8. CASE UNCHANGED vars \/ Mine \/ (\E t \in pool : DropTransaction(t)) \/ \E r \in Runs : ForceAbandon(r)
  BY <1>4, <1>8 DEF vars, Mine, MineBegin, MineCheckpoint, MineSettle, DropTransaction, ForceAbandon, row
<1>9. CASE \E q \in Requests : \/ \E p \in Payments : StartRun(q, p)
                              \/ FindGhosts(q) \/ RecoverMiner(q)
  BY <1>1, <1>9 DEF StartRun, FindGhosts, RecoverMiner, row
<1>10. CASE \E q \in Requests, r \in Runs :
              \/ \E play \in Plays, bank \in BOOLEAN : CheckpointPhase(q, r, play, bank)
              \/ \E seen \in BOOLEAN : ResumeRun(q, r, seen)
              \/ RetrySettlement(q, r)
  <2>1. CASE \E q \in Requests, r \in Runs, play \in Plays, bank \in BOOLEAN :
                CheckpointPhase(q, r, play, bank)
    BY <1>1, <2>1 DEF CheckpointPhase, row
  <2>2. CASE \E q \in Requests, r \in Runs, seen \in BOOLEAN : ResumeRun(q, r, seen)
    BY <1>1, <2>2 DEF ResumeRun, row
  <2>3. CASE \E q \in Requests, r \in Runs : RetrySettlement(q, r)
    BY <1>1, <2>3 DEF RetrySettlement, row
  <2> QED
    BY <1>10, <2>1, <2>2, <2>3
<1> QED
  BY <1>5, <1>6, <1>7, <1>8, <1>9, <1>10 DEF Next

\* What a save takes over is one phase more than the row has.
LEMMA SavedPhase ==
    ASSUME EndlessInv, AnchorsHold, NEW q \in Requests, SaveCheckpoint(q) \/ CheckpointAnchored(q)
    PROVE  HolderStep
<1> DEFINE g == request[q]
           r == g.run
<1>1. PhaseHeld(g) /\ g.op \in {"checkpoint", "anchor"}
  BY HeldPlain DEF SaveCheckpoint, CheckpointAnchored, EndlessInv, EndlessTypeOK
<1>2. r \in Runs /\ g.play \in Plays
  BY <1>1 DEF PhaseHeld
<1>3. digest' = [digest EXCEPT ![r] = Resynced(q)] /\ token' = token
  BY DEF SaveCheckpoint, CheckpointAnchored, Save
<1>4. Active(r) /\ ~terminating[r] /\ g.token = token[r]
  <2>1. CASE SaveCheckpoint(q)
    BY <2>1 DEF SaveCheckpoint, Acceptable
  <2>2. CASE CheckpointAnchored(q)
    <3>1. g.op = "anchor" /\ AnchorOK(g) /\ KnowsInside(g)
      BY <2>2 DEF CheckpointAnchored, AnchorsHold, EndlessInv
    <3> QED
      BY <3>1 DEF AnchorOK, KnowsInside, Active
  <2> QED
    BY <2>1, <2>2
<1>5. \E play \in Plays : Resynced(q) = Append(digest[r], play)
  <2>1. digest[r] \in Seq(Plays) /\ anchored[r] \in Seq(Plays) /\ RowOK(r)
    BY <1>2 DEF EndlessInv, EndlessTypeOK
  <2>2. CASE Rewards /\ Len(anchored[r]) = Depth(r) + 1
    <3>1. anchored[r] # digest[r]
      BY <2>1, <2>2 DEF Depth
    <3> QED
      BY <2>1, <2>2, <3>1 DEF RowOK, Resynced
  <2>3. CASE ~(Rewards /\ Len(anchored[r]) = Depth(r) + 1)
    BY <1>2, <2>3 DEF Resynced, Sealed
  <2> QED
    BY <2>2, <2>3
<1> HIDE DEF r
<1>6. \A s \in Runs : digest'[s] # digest[s] => s = r
  BY <1>3 DEF EndlessInv, EndlessTypeOK
<1>7. digest'[r] = Resynced(q)
  BY <1>2, <1>3 DEF EndlessInv, EndlessTypeOK
<1> SUFFICES ASSUME NEW s \in Runs, digest'[s] # digest[s]
             PROVE  /\ Active(s) /\ ~terminating[s]
                    /\ \E play \in Plays : digest'[s] = Append(digest[s], play)
                    /\ \E p \in Requests : /\ request[p].op \in {"checkpoint", "anchor"}
                                           /\ request[p].run = s /\ request[p].token = token[s]
  BY <1>3 DEF HolderStep
<1> QED
  BY <1>1, <1>4, <1>5, <1>6, <1>7 DEF r

\* Only a save changes a digest, and only a resumed session a token.
LEMMA HoldersSave == ColumnsTyped /\ AnchorsHold /\ EndlessInv /\ [Next]_vars => HolderStep
<1> SUFFICES ASSUME ColumnsTyped, AnchorsHold, EndlessInv, [Next]_vars PROVE HolderStep
  OBVIOUS
<1>1. CASE UNCHANGED <<digest, token>>
  BY <1>1 DEF HolderStep
<1>2. CASE \E q \in Requests : SaveCheckpoint(q) \/ CheckpointAnchored(q)
  BY <1>2, SavedPhase
<1>3. CASE \E q \in Requests : ReviveRun(q)
  <2>1. PICK q \in Requests : ReviveRun(q)
    BY <1>3
  <2> DEFINE r == request[q].run
  <2>2. r \in Runs
    BY <2>1, HeldPlain DEF ReviveRun, EndlessInv, EndlessTypeOK
  <2>3. digest' = digest /\ token' = [token EXCEPT ![r] = NewToken]
    BY <2>1 DEF ReviveRun
  <2>4. \A s \in Runs : token[s] < NewToken
    BY <2>2, TokensCount DEF ColumnsTyped
  <2> HIDE DEF r
  <2>5. \A s \in Runs : token'[s] # token[s] => token'[s] = NewToken
    BY <2>2, <2>3 DEF ColumnsTyped
  <2> QED
    BY <2>3, <2>4, <2>5 DEF HolderStep
<1>4. CASE \E q \in Requests : Continue(q)
  <2>1. PICK q \in Requests : Continue(q)
    BY <1>4
  <2>2. CASE SaveCheckpoint(q) \/ CheckpointAnchored(q) \/ ReviveRun(q)
    BY <1>2, <1>3, <2>2
  <2>3. CASE ExpireGhosts(q) \/ ExpireRecovered(q) \/ StoreReceipt(q) \/ MarkPending(q)
             \/ RejectRun(q) \/ ClearReservation(q) \/ RunBegan(q)
             \/ \E knockout \in BOOLEAN : StoreAbandoned(q, knockout)
    BY <1>1, <2>3 DEF ExpireGhosts, ExpireRecovered, StoreReceipt, MarkPending, RejectRun,
                      ClearReservation, RunBegan, StoreAbandoned
  <2>4. CASE EnterRun(q) \/ EntryRefused(q) \/ BeginFails(q) \/ StartNotSaved(q)
             \/ SendCheckpoint(q) \/ CheckpointFails(q)
    BY <1>1, <2>4 DEF EnterRun, EntryRefused, BeginFails, StartNotSaved, SendCheckpoint,
                      CheckpointFails, row
  <2>5. CASE SendSettle(q) \/ AlreadyClosed(q) \/ SettleConfirmed(q) \/ SettleRefused(q)
             \/ SettleLost(q) \/ StartUndone(q) \/ BeginRecovery(q)
    <3>1. row' = row
      BY <2>5 DEF SendSettle, AlreadyClosed, SettleConfirmed, SettleRefused, SettleLost,
                  Fails, StartUndone, BeginRecovery
    <3> QED
      BY <1>1, <3>1 DEF row
  <2> QED
    BY <2>1, <2>2, <2>3, <2>4, <2>5 DEF Continue
<1>5. CASE UNCHANGED vars \/ Mine \/ (\E t \in pool : DropTransaction(t))
           \/ (\E r \in Runs : ForceAbandon(r)) \/ Restart
  BY <1>1, <1>5 DEF vars, Mine, MineBegin, MineCheckpoint, MineSettle, DropTransaction,
                    ForceAbandon, Restart, row
<1>6. CASE \E q \in Requests : \/ \E p \in Payments : StartRun(q, p)
                              \/ FindGhosts(q) \/ RecoverMiner(q)
  BY <1>1, <1>6 DEF StartRun, FindGhosts, RecoverMiner, row
<1>7. CASE \E q \in Requests, r \in Runs :
              \/ \E play \in Plays, bank \in BOOLEAN : CheckpointPhase(q, r, play, bank)
              \/ \E seen \in BOOLEAN : ResumeRun(q, r, seen)
              \/ RetrySettlement(q, r) \/ AbandonRun(q, r) \/ TerminateRun(q, r)
  <2>1. CASE \E q \in Requests, r \in Runs, play \in Plays, bank \in BOOLEAN :
                CheckpointPhase(q, r, play, bank)
    BY <1>1, <2>1 DEF CheckpointPhase, row
  <2>2. CASE \E q \in Requests, r \in Runs, seen \in BOOLEAN : ResumeRun(q, r, seen)
    BY <1>1, <2>2 DEF ResumeRun, row
  <2>3. CASE \E q \in Requests, r \in Runs : RetrySettlement(q, r) \/ AbandonRun(q, r) \/ TerminateRun(q, r)
    BY <1>1, <2>3 DEF RetrySettlement, AbandonRun, TerminateRun, row
  <2> QED
    BY <1>7, <2>1, <2>2, <2>3
<1> QED
  BY <1>4, <1>5, <1>6, <1>7 DEF Next

\* However sessions are resumed, ended and recovered while a phase is replayed and
\* sent to Ronin, only the browser whose token is in force takes the run further.
THEOREM HoldersOnlySave == Spec => OnlyHolderSaves
<1>1. Init => ColumnsTyped
  BY EndlessConstants DEF Init, ColumnsTyped
<1>2. Init => AnchorsHold
  BY DEF Init, AnchorsHold, AnchorOK, Idle
<1> QED
  BY <1>1, <1>2, ColumnsStep, AnchorsStep, HoldersSave, EndlessInvariant, PTL
     DEF Spec, OnlyHolderSaves
=============================================================================

------------------------------ MODULE ArenaDays ------------------------------
(***************************************************************************)
(* server/arena-service.js, arena-store.js, arena-settlement.js: the       *)
(* server's side of an arena day, composed with the contract. Operators    *)
(* prepare a day, its top-ups and its settlement as files for the Treasury *)
(* Safe, which executes them on Ronin; every request of a player or an     *)
(* operator first brings the stored day up to what it read from Ronin; and *)
(* settling freezes the ranking of the scores of the day.                  *)
(*                                                                         *)
(* A request is a sequence of awaits: each read of Ronin and each          *)
(* statement or transaction on PostgreSQL is an action, and requests       *)
(* interleave between them. `at` is where a request is. A request may end  *)
(* anywhere, with an error of the RPC or the database or with the process. *)
(* What a run goes through between its start and its score is ArenaRuns'   *)
(* matter.                                                                 *)
(***************************************************************************)
EXTENDS DailyArena, SequencesExt

CONSTANTS
    Requests,       \* bound: requests that are served at a time
    Prices, Seeds, TopUps,  \* the amounts that operators choose
    Suspendable,    \* wallets that may be suspended
    Weights,        \* ARENA_WINNER_WEIGHTS_BPS
    MaxScore,       \* bound: scores are 1..MaxScore
    NoDraft

ASSUME DayConstants ==
    /\ Prices \subseteq MinEntryFee..MaxEntryFee
    /\ Seeds \subseteq 0..MaxDailySeed /\ TopUps \subseteq 1..MaxDailySeed
    /\ Suspendable \subseteq Wallets
    /\ Weights \in Seq(Nat \ {0}) /\ Len(Weights) = MaxWinners /\ Weights # << >>
    /\ MaxScore \in Nat

VARIABLES
    row,        \* matt_mine_arena.days
    planned,    \* admin_drafts configure:<day>
    topUps,     \* admin_drafts seed:<day>:<seeded>:<amount>
    ranking,    \* snapshots and snapshot_entries
    settlement,     \* settlement_drafts
    best,       \* best_scores, 0 for none
    req         \* the requests being served

drafts  == <<planned, topUps, settlement>>
server  == <<row, drafts, ranking, best, req>>
dayVars == <<vars, server>>

\* A day without a row, a row without a ranking: their pool is none that can be.
NoRow == [fee |-> 0, seed |-> 0, pool |-> -1, chain |-> "Unscheduled",
          status |-> "scheduled", confirmed |-> FALSE]
NoRanking == [wallets |-> << >>, pool |-> -1, seed |-> 0]

\* chain.dayStatus: four reads of one block.
DayStatus(d) ==
    [status |-> status[d], fee |-> fee[d], pool |-> entryMatt[d], seed |-> seededMatt[d]]

NoStatus == [status |-> "Unscheduled", fee |-> 0, pool |-> 0, seed |-> 0]

Idle == [at |-> "idle", kind |-> "board", day |-> 1, arg |-> 0, early |-> FALSE,
         closed |-> FALSE, again |-> FALSE, old |-> NoRow, seen |-> NoStatus,
         local |-> "scheduled", board |-> NoRanking]

DaysInit ==
    /\ Init
    /\ row = [d \in Days |-> NoRow] /\ planned = [d \in Days |-> NoDraft]
    /\ topUps = [d \in Days |-> {}]
    /\ ranking = [d \in Days |-> NoRanking] /\ settlement = [d \in Days |-> NoDraft]
    /\ best = NoWallet
    /\ req = [r \in Requests |-> Idle]

-----------------------------------------------------------------------------
(* Requests.                                                               *)

At(r, where) == req[r].at = where
Go(r, where) == req' = [req EXCEPT ![r].at = where]
End(r)       == req' = [req EXCEPT ![r] = Idle]

\* What is checked against the clock when a request comes in.
Timely(kind, d) ==
    CASE kind = "prepare" -> d > Today
      [] kind = "settle"  -> now >= DayEnd(d)
      [] OTHER -> TRUE

FirstStep(kind) ==
    CASE kind = "prepare" -> "drafted" [] kind = "topUp" -> "read" [] OTHER -> "row"

Begin(r, kind, d, arg) ==
    /\ At(r, "idle")
    /\ Timely(kind, d)
    /\ req' = [req EXCEPT ![r] = [Idle EXCEPT !.at = FirstStep(kind), !.kind = kind, !.day = d,
                  !.arg = arg, !.early = (d > Today),
                  !.closed = (kind = "board" /\ now >= DayEnd(d))]]
    /\ UNCHANGED <<vars, row, drafts, ranking, best>>

\* An error of the RPC or the database, or a crash of the process.
Fail(r) ==
    /\ ~At(r, "idle")
    /\ End(r)
    /\ UNCHANGED <<vars, row, drafts, ranking, best>>

-----------------------------------------------------------------------------
(* #ensureDay and #reconcileDay.                                            *)

GetRow(r) ==
    /\ At(r, "row")
    /\ LET known == row[req[r].day] IN
       req' = [req EXCEPT ![r].at = "chain", ![r].old =
                  IF known = NoRow THEN NoRow
                  ELSE [fee |-> known.fee, confirmed |-> known.confirmed]]
    /\ UNCHANGED <<vars, row, drafts, ranking, best>>

\* Where a request goes on when #ensureDay has returned; what that read of the
\* day is not used again.
Ensured(q) ==
    IF q.kind = "board" /\ ~q.closed THEN Idle
    ELSE [Idle EXCEPT !.at = "read", !.kind = q.kind, !.day = q.day, !.arg = q.arg]

GetChain(r) ==
    LET q == req[r]
        s == DayStatus(q.day) IN
    /\ At(r, "chain")
    /\ req' = [req EXCEPT ![r] =
          IF s.status = "Unscheduled"
          THEN IF q.old # NoRow /\ q.early /\ ~q.old.confirmed THEN Ensured(q) ELSE Idle
          ELSE IF q.old # NoRow /\ q.old.fee # s.fee THEN Idle
          ELSE [q EXCEPT !.at = IF q.old = NoRow THEN "insert" ELSE "local", !.seen = s,
                         !.old = NoRow]]
    /\ UNCHANGED <<vars, row, drafts, ranking, best>>

RowStatus(q) ==
    CASE q.seen.status = "Cancelled" -> "cancelled"
      [] q.seen.status = "Settled"   -> "settled"
      [] OTHER -> IF q.early THEN "scheduled" ELSE "open"

\* ON CONFLICT DO NOTHING: a row that came in meanwhile stays.
Insert(r) ==
    LET q == req[r]
        new == [fee |-> q.seen.fee, seed |-> q.seen.seed, pool |-> 0, chain |-> q.seen.status,
                status |-> RowStatus(q), confirmed |-> TRUE] IN
    /\ At(r, "insert")
    /\ row' = [row EXCEPT ![q.day] = IF @ = NoRow THEN new ELSE @]
    /\ IF row'[q.day].fee = q.seen.fee THEN Go(r, "local") ELSE End(r)
    /\ UNCHANGED <<vars, drafts, ranking, best>>

LocalStatus(q) ==
    IF row[q.day].status # "finalized" /\ q.seen.status = "Scheduled" /\ Today = q.day
    THEN "open" ELSE "scheduled"

GetLocal(r) ==
    /\ At(r, "local")
    /\ req' = [req EXCEPT ![r].at = "write", ![r].local = LocalStatus(req[r])]
    /\ UNCHANGED <<vars, row, drafts, ranking, best>>

\* Mutant: the pool of a row may go down.
Advances_Always(d, pool) == TRUE

\* WHERE entry_pool_raw <= the pool that was read.
Advances(d, pool) == row[d].pool <= pool

Reconciled(old, q) ==
    [old EXCEPT
        !.pool = q.seen.pool, !.seed = q.seen.seed, !.chain = q.seen.status, !.confirmed = TRUE,
        !.status = CASE q.seen.status = "Settled" -> "settled"
                     [] q.seen.status = "Cancelled" -> "cancelled"
                     [] OTHER -> IF @ = "finalized" THEN @ ELSE q.local]

Reconcile(r) ==
    LET q == req[r] IN
    /\ At(r, "write")
    /\ IF Advances(q.day, q.seen.pool)
       THEN /\ row' = [row EXCEPT ![q.day] = Reconciled(@, q)]
            /\ req' = [req EXCEPT ![r] =
                  IF ~q.again THEN Ensured(q)
                  ELSE IF q.kind = "settle" THEN [q EXCEPT !.at = "finalize"] ELSE Idle]
       ELSE UNCHANGED row /\ End(r)
    /\ UNCHANGED <<vars, drafts, ranking, best>>

\* A request that reads Ronin on its own account goes on by what it read.
Admitted(q, s) ==
    CASE q.kind = "prepare" -> s.status = "Unscheduled"
      [] q.kind = "topUp"   -> s.status = "Scheduled" /\ s.seed + q.arg <= MaxDailySeed
      [] q.kind = "settle"  -> s.status = "Scheduled" /\ ~settlementPaused
      [] OTHER -> TRUE

SecondStep(kind) ==
    CASE kind = "prepare" -> "plan" [] kind = "topUp" -> "save"
      [] kind = "settle" -> "drafted" [] OTHER -> "local"

ReadChain(r) ==
    LET q == req[r]
        s == DayStatus(q.day) IN
    /\ At(r, "read")
    /\ IF Admitted(q, s)
       THEN req' = [req EXCEPT ![r].at = SecondStep(q.kind), ![r].again = TRUE,
                       ![r].seen = IF q.kind = "prepare" THEN NoStatus ELSE s]
       ELSE End(r)
    /\ UNCHANGED <<vars, row, drafts, ranking, best>>

-----------------------------------------------------------------------------
(* Players.  Between a wallet's entry and its score lie a request that       *)
(* records the payment and a run (ArenaRuns); a score that was accepted in   *)
(* time may be stored after the day has ended.                              *)

Score(d, w, score) ==
    /\ Today >= d
    /\ walletCount[d][w] > 0
    /\ score > best[d][w]
    /\ best' = [best EXCEPT ![d][w] = score]
    /\ UNCHANGED <<vars, row, drafts, ranking, req>>

-----------------------------------------------------------------------------
(* Operators: files for the Safe.                                           *)

\* Ties are broken by the entry's transaction hash, an order of the wallets here.
Above(d, v, w) == best[d][v] > best[d][w] \/ (best[d][v] = best[d][w] /\ v < w)

\* ROW_NUMBER() over the wallets with a score, without those that are suspended.
Ranked(d, suspended) ==
    LET on == {w \in Wallets \ suspended : best[d][w] > 0}
        rank == [w \in on |-> 1 + Cardinality({v \in on : Above(d, v, w)})] IN
    [i \in {i \in 1..MaxWinners : i <= Cardinality(on)} |-> CHOOSE w \in on : rank[w] = i]

WeightOf(n) == SumFunctionOnSet(Weights, 1..n)

Shares(pool, n) == [i \in 1..n |-> (pool * Weights[i]) \div WeightOf(n)]

\* allocateArenaPool: everyone the floor of a share, the first the remainder too.
ByRank(pool, n) == [Shares(pool, n) EXCEPT ![1] = @ + pool - SumFunction(Shares(pool, n))]

Allocation(wallets, pool) ==
    LET n == Len(wallets) IN
    [w \in Wallets |-> SumFunctionOnSet(ByRank(pool, n), {i \in 1..n : wallets[i] = w})]

\* Whether a draft exists; the answer is the draft that does.
Drafted(r) ==
    LET q == req[r] IN
    /\ At(r, "drafted")
    /\ IF q.kind = "prepare"
       THEN IF planned[q.day] = NoDraft THEN Go(r, "read") ELSE End(r)
       ELSE IF settlement[q.day] = NoDraft THEN Go(r, "local") ELSE End(r)
    /\ UNCHANGED <<vars, row, drafts, ranking, best>>

\* store.scheduleDay: an upsert that leaves the pool and the status of a row.
Plan(r) ==
    LET q == req[r]
        new == [fee |-> q.arg.price, seed |-> q.arg.seed, pool |-> 0, chain |-> "Unscheduled",
                status |-> "scheduled", confirmed |-> FALSE] IN
    /\ At(r, "plan")
    /\ row' = [row EXCEPT ![q.day] = IF @ = NoRow THEN new
                  ELSE [new EXCEPT !.pool = row[q.day].pool, !.status = row[q.day].status]]
    /\ Go(r, "save")
    /\ UNCHANGED <<vars, drafts, ranking, best>>

\* The ranking that was frozen, or the one to freeze now.
Final(d, suspended) ==
    IF ranking[d] # NoRanking THEN ranking[d]
    ELSE [wallets |-> Ranked(d, suspended), pool |-> row[d].pool, seed |-> row[d].seed]

\* store.finalizeDay freezes the ranking, also an empty one, of which no draft
\* is made.  A cancelled day is refused, as any request may be (Fail).
Finalize(r) ==
    LET q == req[r]
        frozen == ranking[q.day] # NoRanking
        board == Final(q.day, q.arg)
        winnable == board.wallets # << >> /\ board.pool + board.seed > 0 IN
    /\ At(r, "finalize")
    /\ frozen \/ row[q.day].chain # "Cancelled"
    /\ IF frozen THEN UNCHANGED <<row, ranking>>
       ELSE /\ ranking' = [ranking EXCEPT ![q.day] = board]
            /\ row' = [row EXCEPT ![q.day].status =
                  IF row[q.day].chain = "Settled" THEN "settled" ELSE "finalized"]
    /\ IF winnable THEN req' = [req EXCEPT ![r].at = "save", ![r].board = board] ELSE End(r)
    /\ UNCHANGED <<vars, drafts, best>>

\* saveAdminDraft and saveSettlementDraft keep the draft that came first.
Save(r) ==
    LET q == req[r]
        d == q.day
        first(draft, new) == IF draft = NoDraft THEN new ELSE draft IN
    /\ At(r, "save")
    /\ planned' = IF q.kind = "prepare"
                  THEN [planned EXCEPT ![d] = first(@, q.arg)] ELSE planned
    /\ topUps' = IF q.kind = "topUp"
                 THEN [topUps EXCEPT ![d] = @ \cup {[at |-> q.seen.seed, amount |-> q.arg]}]
                 ELSE topUps
    /\ settlement' = IF q.kind = "settle"
                 THEN [settlement EXCEPT ![d] = first(@, [wallets |-> q.board.wallets,
                          shares |-> Allocation(q.board.wallets, q.board.pool + q.board.seed)])]
                 ELSE settlement
    /\ End(r)
    /\ UNCHANGED <<vars, row, ranking, best>>

-----------------------------------------------------------------------------
(* The Safe executes the files it was given, also twice or late.            *)

\* One batch: scheduleDay, then seedDay unless the seed is 0.
SafeConfigure(d) ==
    LET price == planned[d].price  seed == planned[d].seed IN
    /\ planned[d] # NoDraft
    /\ Unpriced(d)
    /\ price \in MinEntryFee..MaxEntryFee
    /\ seed <= MaxDailySeed /\ seed <= vault[seedTreasury]
    /\ status' = [status EXCEPT ![d] = "Scheduled"]
    /\ fee' = [fee EXCEPT ![d] = price]
    /\ seededMatt' = [seededMatt EXCEPT ![d] = @ + seed]
    /\ vault' = [vault EXCEPT ![seedTreasury] = @ - seed]
    /\ balance' = balance + seed
    /\ AddReserve(d, seed)
    /\ UNCHANGED <<now, entryCount, entryMatt, walletCount, walletPaid, entries, refunds,
                   payouts, admin, purse, outside>>

SafeSeed(d) == \E file \in topUps[d] : SeedDay(d, file.amount)

\* A winner with nothing is refused.
SafeSettle(d) ==
    /\ settlement[d] # NoDraft
    /\ \A w \in Range(settlement[d].wallets) : settlement[d].shares[w] > 0
    /\ SettleDay(d, settlement[d].shares)

-----------------------------------------------------------------------------

\* Other pauses only forbid what nobody has to do, and are left out; so is the
\* file of a cancellation, which says no more than the day.
OnRonin(d) ==
    \/ SafeConfigure(d) \/ SafeSeed(d) \/ CancelDay(d) \/ SafeSettle(d)
    \/ \E w \in Wallets : Enter(d, w)
    \/ SetEntriesPaused(FALSE)

Chosen(kind, d) ==
    CASE kind = "prepare" -> [price : Prices, seed : Seeds]
      [] kind = "topUp"   -> TopUps
      [] kind = "settle"  -> SUBSET Suspendable
      [] OTHER -> {0}

\* "board" is a leaderboard; what else a player asks for, the configuration, a
\* quote, a start, a refund, begins with the same steps and does no more to a day.
Kinds == {"board", "prepare", "topUp", "settle"}

Serve(r) ==
    \/ \E kind \in Kinds, d \in Days : \E arg \in Chosen(kind, d) : Begin(r, kind, d, arg)
    \/ Fail(r)
    \/ GetRow(r) \/ GetChain(r) \/ Insert(r) \/ GetLocal(r) \/ Reconcile(r) \/ ReadChain(r)
    \/ Drafted(r) \/ Plan(r) \/ Finalize(r) \/ Save(r)

DaysNext ==
    \/ (Tick \/ \E d \in Days : OnRonin(d)) /\ UNCHANGED server
    \/ \E r \in Requests : Serve(r)
    \/ \E d \in Days, w \in Wallets, score \in 1..MaxScore : Score(d, w, score)

DaysSpec == DaysInit /\ [][DaysNext]_dayVars

-----------------------------------------------------------------------------

\* What the frozen ranking of a day promises each wallet.
Promised(d) == Allocation(ranking[d].wallets, ranking[d].pool + ranking[d].seed)

\* Whatever requests, late scores, changed suspensions and pauses fall between
\* midnight and the Safe's signature, the ranking that was frozen counts every
\* entry of the day, and a settled day paid each wallet what it promised.
FrozenIsPaid ==
    \A d \in Days :
        /\ ranking[d] # NoRanking => ranking[d].pool = entryMatt[d]
        /\ status[d] = "Settled" => ranking[d] # NoRanking /\ winners[d] = Promised(d)

\* A day is settled by the one ranking that was frozen, and over all that the
\* contract took, whatever top-ups came before and after it was frozen.
SettledByRanking ==
    /\ FrozenIsPaid
    /\ \A d \in Days :
          status[d] = "Settled" => ranking[d].pool + ranking[d].seed = Pool(d)
=============================================================================

------------------------------ MODULE ArenaRuns ------------------------------
(***************************************************************************)
(* One day of MATT Arena on the server: arena-service.js (the handlers),    *)
(* arena-store.js (PostgresArenaStore, the tables entries, runs, events     *)
(* and best_scores), the production service around them                     *)
(* (complete-production-service.js) that locks the player's Miner on Ronin  *)
(* for the run, nft-gameplay-service.js that sends those transactions, and  *)
(* the administrator's termination of runs (service.js).                    *)
(*                                                                          *)
(* A handler is a sequence of awaits: each PostgreSQL transaction and each  *)
(* answer from Ronin is a step, and other handlers run between two steps.   *)
(* What a handler has read and still holds is in its request.  Starts share *)
(* the lifecycle lock of NftLifecycleLock and the administrator and the     *)
(* recovery of a Miner hold it alone; abandoning and finishing a run take   *)
(* no lock.  beginRun and settleRun wait for each other in the operator's   *)
(* queue (#serialize).                                                      *)
(*                                                                          *)
(* Abstracted: the replay (the score of a transcript is its length), the    *)
(* signatures and tokens, tie-breaking between equal scores, suspended      *)
(* wallets, consumables and paid revives, audit records.  A wallet plays    *)
(* one Miner.  A settlement mined after its handler gave up counts as mined *)
(* then.  Not reachable from the service and left out: recoverRejectedRun,  *)
(* and expireActiveRuns, which skips every run that has a Miner.            *)
(***************************************************************************)
EXTENDS Naturals, FiniteSets, FiniteSetsExt, Sequences, SequencesExt

CONSTANTS
    Wallets,
    Payments,   \* entries bought on Ronin before the cutoff, the arena_entry_ ids
    Payer,      \* the wallet of a payment
    Runs,       \* the arena_run_ ids, numbers so that the next one is the least
    Requests,   \* the handlers that can be in progress at a time (a bound)
    DayEnd,     \* 00:00 UTC, in ticks since the day began
    RunTtl,     \* RUN_TTL_MS, which is also ENTRY_CUTOFF_WINDOW_MS
    MaxSeq      \* events a transcript can hold, ARENA_MAX_EVENTS

ASSUME ArenaRunsConstants ==
    /\ Payer \in [Payments -> Wallets]
    /\ Runs \subseteq Nat \ {0} /\ IsFiniteSet(Runs)
    /\ {DayEnd, RunTtl, MaxSeq} \subseteq Nat
    /\ RunTtl <= DayEnd

VARIABLES
    now,
    confirmed,  \* entries: the payments the server has a row of
    usedBy,     \* entries.run_id
    \* runs, one variable per column; `events' is the table of that name, each
    \* event known by the request that sent it
    status, entry, expiresAt, attached, terminating, events, score,
    ended,      \* runs an administrator ended, the rows of expireAdminTermination
    best,       \* best_scores: a wallet's row, by its run
    chain,      \* the Miner run of an arena run, as Ronin has it
    request

run     == <<status, entry, expiresAt, attached, terminating, events, score>>
results == <<ended, best>>
entries == <<confirmed, usedBy>>
vars    == <<now, entries, run, results, chain, request>>

NoRun   == 0
NoEntry == "none"
Idle    == [op |-> "idle"]

Init ==
    /\ now = 0
    /\ confirmed = {}
    /\ usedBy = [p \in Payments |-> NoRun]
    /\ status = [r \in Runs |-> "none"]
    /\ entry = [r \in Runs |-> NoEntry]
    /\ expiresAt = [r \in Runs |-> 0]
    /\ attached = [r \in Runs |-> FALSE]
    /\ terminating = [r \in Runs |-> FALSE]
    /\ events = [r \in Runs |-> << >>]
    /\ score = [r \in Runs |-> 0]
    /\ ended = {}
    /\ best = [w \in Wallets |-> NoRun]
    /\ chain = [r \in Runs |-> "none"]
    /\ request = [q \in Requests |-> Idle]

Becomes(q, held) == request' = [request EXCEPT ![q] = held]
Answered(q)      == Becomes(q, Idle)

Active(r)        == status[r] = "active"
OwnRuns(w)       == {r \in Runs : status[r] # "none" /\ Payer[entry[r]] = w}
ActiveRuns(w)    == {r \in OwnRuns(w) : Active(r)}
Unused(w)        == {p \in confirmed : Payer[p] = w /\ usedBy[p] = NoRun}

\* The runs of w that Ronin holds its Miner for: the contract keeps at most one.
Locked(w)        == {r \in OwnRuns(w) : chain[r] = "active"}

Starting    == {"start", "begin", "await", "attach", "rollback"}
Terminating == {"terminate", "complete"}
InProgress(ops) == \E q \in Requests : request[q].op \in ops

\* beginRun waits for its receipt with the operator's queue to itself.
QueueFree == ~InProgress({"await"})

-----------------------------------------------------------------------------
(* Entries.                                                                 *)

\* Mutant: confirming a payment again writes its row again.
Recorded_Again(p) == [usedBy EXCEPT ![p] = NoRun]

\* UNIQUE (payment_key): a payment confirmed before keeps its row.
Recorded(p) == IF p \in confirmed THEN usedBy ELSE [usedBy EXCEPT ![p] = NoRun]

\* At any time: what is compared with the cutoff is the time of the payment's block.
ConfirmEntry(p) ==
    /\ usedBy' = Recorded(p)
    /\ confirmed' = confirmed \union {p}
    /\ UNCHANGED <<now, run, results, chain, request>>

-----------------------------------------------------------------------------
(* Starting a run: entry, Miner, attachment.                                *)

\* startRun up to the choice of an entry.  A run past its time is expired here.
StartRun(q, w) ==
    LET stale == {r \in ActiveRuns(w) : expiresAt[r] <= now}
        taken == {request[o].run : o \in {o \in Requests : request[o].op = "start"}}
        fresh == {r \in Runs : status[r] = "none"} \ taken
    IN  /\ request[q] = Idle /\ ~InProgress(Terminating)
        /\ DayEnd - now >= RunTtl
        /\ \A r \in stale : ~terminating[r]
        /\ fresh # {}
        /\ \E p \in Unused(w) :
              Becomes(q, [op |-> "start", run |-> Min(fresh), entry |-> p,
                          expires |-> now + RunTtl])
        /\ status' = [r \in Runs |-> IF r \in stale THEN "expired" ELSE status[r]]
        /\ UNCHANGED <<now, entries, entry, expiresAt, attached, terminating, events,
                       score, results, chain>>

\* One active run per wallet, one run per entry for ever: the unique indexes.
Consumable(p) ==
    /\ ActiveRuns(Payer[p]) = {}
    /\ usedBy[p] = NoRun
    /\ \A r \in Runs : entry[r] # p

ConsumeEntry(q) ==
    LET held == request[q] IN
    /\ held.op = "start" /\ Consumable(held.entry)
    /\ usedBy' = [usedBy EXCEPT ![held.entry] = held.run]
    /\ status' = [status EXCEPT ![held.run] = "active"]
    /\ entry' = [entry EXCEPT ![held.run] = held.entry]
    /\ expiresAt' = [expiresAt EXCEPT ![held.run] = held.expires]
    /\ Becomes(q, [op |-> "begin", run |-> held.run])
    /\ UNCHANGED <<now, confirmed, attached, terminating, events, score,
                   results, chain>>

ConsumeFails(q) ==
    /\ request[q].op = "start" /\ ~Consumable(request[q].entry)
    /\ Answered(q)
    /\ UNCHANGED <<now, entries, run, results, chain>>

Owner(q) == Payer[entry[request[q].run]]

\* A check before the transaction is sent fails.
BeginRefused(q) ==
    /\ request[q].op = "begin"
    /\ Becomes(q, [request[q] EXCEPT !.op = "rollback"])
    /\ UNCHANGED <<now, entries, run, results, chain>>

\* The gas of a transaction that Ronin would revert now cannot be estimated.
SendBegin(q) ==
    /\ request[q].op = "begin" /\ QueueFree
    /\ chain' = [chain EXCEPT ![request[q].run] =
                    IF Locked(Owner(q)) = {} THEN "sent" ELSE "reverted"]
    /\ Becomes(q, [request[q] EXCEPT !.op = "await"])
    /\ UNCHANGED <<now, entries, run, results>>

\* Ronin runs the transaction, long after it was sent perhaps.  The player's
\* nonce moves on, so what else was sent for the player fails.
MineBegin(r) ==
    LET w == Payer[entry[r]] IN
    /\ chain[r] = "sent" /\ Locked(w) = {}
    /\ chain' = [o \in Runs |-> IF o = r THEN "active"
                                ELSE IF o \in OwnRuns(w) /\ chain[o] = "sent" THEN "reverted"
                                ELSE chain[o]]
    /\ UNCHANGED <<now, entries, run, results, request>>

RevertBegin(r) ==
    /\ chain[r] = "sent"
    /\ chain' = [chain EXCEPT ![r] = "reverted"]
    /\ UNCHANGED <<now, entries, run, results, request>>

\* The receipt, or activeRun after the receipt failed, shows this run.
RunBegan(q) ==
    /\ request[q].op = "await" /\ chain[request[q].run] = "active"
    /\ Becomes(q, [request[q] EXCEPT !.op = "attach"])
    /\ UNCHANGED <<now, entries, run, results, chain>>

\* No receipt, and activeRun shows no run: nftRunDefinitelyNotStarted.
RunNotFound(q) ==
    /\ request[q].op = "await" /\ Locked(Owner(q)) = {}
    /\ Becomes(q, [request[q] EXCEPT !.op = "rollback"])
    /\ UNCHANGED <<now, entries, run, results, chain>>

\* No receipt, and activeRun fails or shows another run: the run stays reserved.
RunUncertain(q) ==
    /\ request[q].op = "await"
    /\ Answered(q)
    /\ UNCHANGED <<now, entries, run, results, chain>>

\* rollbackUnstartedNftRun
RollbackRun(q) ==
    LET r == request[q].run IN
    /\ request[q].op = "rollback"
    /\ IF Active(r) /\ ~attached[r] /\ usedBy[entry[r]] = r
       THEN /\ status' = [status EXCEPT ![r] = "expired"]
            /\ usedBy' = [usedBy EXCEPT ![entry[r]] = NoRun]
       ELSE UNCHANGED <<status, usedBy>>
    /\ Answered(q)
    /\ UNCHANGED <<now, confirmed, entry, expiresAt, attached, terminating,
                   events, score, results, chain>>

\* attachNftRun; only now does the browser get the token of the run.
AttachRun(q) ==
    LET r == request[q].run IN
    /\ request[q].op = "attach"
    /\ attached' = [attached EXCEPT ![r] = Active(r) /\ ~terminating[r]]
    /\ Answered(q)
    /\ UNCHANGED <<now, entries, status, entry, expiresAt, terminating, events, score,
                   results, chain>>

-----------------------------------------------------------------------------
(* Playing and finishing.                                                   *)

\* #assertRunOpen, for a browser with the run's token.
Open(r) == Active(r) /\ attached[r] /\ ~terminating[r] /\ now < expiresAt[r]

\* #assertRunOpen of a run past its time.
ExpireOpened(r) ==
    /\ Active(r) /\ attached[r] /\ ~terminating[r] /\ expiresAt[r] <= now
    /\ status' = [status EXCEPT ![r] = "expired"]
    /\ UNCHANGED <<now, entries, entry, expiresAt, attached, terminating, events,
                   score, results, chain, request>>

Fits(r) == Len(events[r]) < MaxSeq

AppendEvents(q, r) ==
    /\ request[q] = Idle /\ Open(r)
    /\ Fits(r)
    /\ Becomes(q, [op |-> "append", run |-> r, seen |-> Len(events[r])])
    /\ UNCHANGED <<now, entries, run, results, chain>>

\* Mutant: the batch is stored without comparing the checkpoint again.
Appendable_Unchecked(r, seen) == Active(r) /\ ~terminating[r]

Appendable(r, seen) == Active(r) /\ ~terminating[r] /\ Len(events[r]) = seen

\* The store's appendEvents; a stale checkpoint changes nothing.
StoreEvents(q) ==
    LET r == request[q].run  seen == request[q].seen IN
    /\ request[q].op = "append"
    /\ events' = IF Appendable(r, seen)
                 THEN [events EXCEPT ![r] = Append(SubSeq(@, 1, seen), q)]
                 ELSE events
    /\ Answered(q)
    /\ UNCHANGED <<now, entries, status, entry, expiresAt, attached, terminating,
                   score, results, chain>>

\* finishRun up to the replay; a finished run is not replayed again.
FinishRun(q, r) ==
    /\ request[q] = Idle
    /\ \/ Open(r) /\ Becomes(q, [op |-> "finish", run |-> r, seen |-> Len(events[r])])
       \/ status[r] = "finished" /\ Becomes(q, [op |-> "settle", run |-> r])
    /\ UNCHANGED <<now, entries, run, results, chain>>

ReplayFails(q) ==
    /\ request[q].op = "finish"
    /\ Answered(q)
    /\ UNCHANGED <<now, entries, run, results, chain>>

\* Mutant: the last score is kept, not the best.
Beats_Always(points, r) == TRUE

Beats(points, r) == r = NoRun \/ points > score[r]

\* The store's finishRun: the score and the wallet's best in one transaction.
StoreScore(q) ==
    LET r == request[q].run
        points == request[q].seen
        w == Owner(q)
        finishes == Active(r) /\ ~terminating[r]
    IN  /\ request[q].op = "finish"
        /\ IF finishes
           THEN /\ status' = [status EXCEPT ![r] = "finished"]
                /\ score' = [score EXCEPT ![r] = points]
                /\ best' = IF Beats(points, best[w]) THEN [best EXCEPT ![w] = r] ELSE best
           ELSE UNCHANGED <<status, score, best>>
        /\ IF finishes \/ status[r] = "finished"
           THEN Becomes(q, [op |-> "settle", run |-> r])
           ELSE Answered(q)
        /\ UNCHANGED <<now, entries, entry, expiresAt, attached, terminating, events,
                       ended, chain>>

\* settleRun: a run that Ronin settled before is not settled again.
SettleRun(q) ==
    LET r == request[q].run IN
    /\ request[q].op = "settle" /\ QueueFree
    /\ chain' = [chain EXCEPT ![r] = IF @ = "active" THEN "settled" ELSE @]
    /\ Answered(q)
    /\ UNCHANGED <<now, entries, run, results>>

SettleFails(q) ==
    /\ request[q].op = "settle"
    /\ Answered(q)
    /\ UNCHANGED <<now, entries, run, results, chain>>

-----------------------------------------------------------------------------
(* Abandoning a run.                                                        *)

\* abandonArenaRun of a browser with the token, abandonActiveArenaRun of one
\* that lost it.  The Miner run's id is known once the run is attached.
AbandonRun(q, w, token) ==
    /\ request[q] = Idle
    /\ \E r \in ActiveRuns(w) :
          /\ token => attached[r]
          /\ Becomes(q, [op |-> "abandon", run |-> r, known |-> attached[r],
                         token |-> token])
    /\ UNCHANGED <<now, entries, run, results, chain>>

\* cancelRun: no Miner run is fine, any other is settled as a death.
Cancel(q) ==
    LET held == Locked(Owner(q)) IN
    IF held = {} THEN UNCHANGED chain
    ELSE /\ QueueFree
         /\ request[q].known => request[q].run \in held
         /\ chain' = [r \in Runs |-> IF r \in held THEN "died" ELSE chain[r]]

CancelRun(q) ==
    /\ request[q].op = "abandon"
    /\ Cancel(q)
    /\ Becomes(q, [request[q] EXCEPT !.op = "expire"])
    /\ UNCHANGED <<now, entries, run, results>>

CancelFails(q) ==
    /\ request[q].op = "abandon"
    /\ Answered(q)
    /\ UNCHANGED <<now, entries, run, results, chain>>

\* Mutant: an administrator's reservation does not stop the player.
Expirable_Reserved(r) == Active(r)

Expirable(r) == Active(r) /\ ~terminating[r]

\* abandonRun, or abandonActiveRun, which looks up the active run again.
ExpireRun(q) ==
    LET found == IF request[q].token THEN {request[q].run} ELSE ActiveRuns(Owner(q)) IN
    /\ request[q].op = "expire"
    /\ status' = [r \in Runs |-> IF r \in found /\ Expirable(r) THEN "expired" ELSE status[r]]
    /\ Answered(q)
    /\ UNCHANGED <<now, entries, entry, expiresAt, attached, terminating, events,
                   score, results, chain>>

-----------------------------------------------------------------------------
(* The administrator, and the recovery of a Miner.                          *)

\* adminReserveRuns, under the lifecycle lock to the end of the termination.
ReserveRun(q, r) ==
    /\ request[q] = Idle /\ Active(r)
    /\ ~InProgress(Starting \union Terminating)
    /\ terminating' = [terminating EXCEPT ![r] = TRUE]
    /\ Becomes(q, [op |-> "terminate", run |-> r, known |-> attached[r]])
    /\ UNCHANGED <<now, entries, status, entry, expiresAt, attached, events, score,
                   results, chain>>

\* Mutant: a run that may have begun is ended without its Miner run.
Cancelled_Assumed(q) == TRUE

\* Without a known Miner run there has to be one to cancel.
Cancelled(q) == request[q].known \/ Locked(Owner(q)) # {}

TerminationCancels(q) ==
    /\ request[q].op = "terminate"
    /\ Cancelled(q) /\ Cancel(q)
    /\ Becomes(q, [request[q] EXCEPT !.op = "complete"])
    /\ UNCHANGED <<now, entries, run, results>>

\* clearAdminTermination
Cleared(r) == [terminating EXCEPT ![r] = @ /\ ~Active(r)]

\* admin_nft_run_start_in_progress
TerminationRefused(q) ==
    /\ request[q].op = "terminate" /\ ~Cancelled(q)
    /\ terminating' = Cleared(request[q].run)
    /\ Answered(q)
    /\ UNCHANGED <<now, entries, status, entry, expiresAt, attached, events, score,
                   results, chain>>

\* The cancellation fails: the reservation stays for the next try.
TerminationFails(q) ==
    /\ request[q].op = "terminate"
    /\ Answered(q)
    /\ UNCHANGED <<now, entries, run, results, chain>>

\* expireAdminTermination
CompleteTermination(q) ==
    LET r == request[q].run IN
    /\ request[q].op = "complete"
    /\ IF Active(r) /\ terminating[r]
       THEN /\ status' = [status EXCEPT ![r] = "expired"]
            /\ terminating' = [terminating EXCEPT ![r] = FALSE]
            /\ ended' = ended \union {r}
       ELSE UNCHANGED <<status, terminating, ended>>
    /\ Answered(q)
    /\ UNCHANGED <<now, entries, entry, expiresAt, attached, events, score, best,
                   chain>>

\* recoverLockedMinerRun: the Miner is released, the arena's tables are not read.
RecoverMiner(w) ==
    /\ ~InProgress(Starting \union Terminating) /\ QueueFree
    /\ Locked(w) # {}
    /\ chain' = [r \in Runs |-> IF r \in Locked(w) THEN "died" ELSE chain[r]]
    /\ UNCHANGED <<now, entries, run, results, request>>

\* The server restarts: the tables and Ronin are all that is left.
Restart ==
    /\ request # [q \in Requests |-> Idle]
    /\ request' = [q \in Requests |-> Idle]
    /\ UNCHANGED <<now, entries, run, results, chain>>

Tick ==
    /\ now < DayEnd
    /\ now' = now + 1
    /\ UNCHANGED <<entries, run, results, chain, request>>

\* One step of a handler that has arrived.
Continue(q) ==
    \/ ConsumeEntry(q) \/ ConsumeFails(q)
    \/ BeginRefused(q) \/ SendBegin(q)
    \/ RunBegan(q) \/ RunNotFound(q) \/ RunUncertain(q)
    \/ RollbackRun(q) \/ AttachRun(q)
    \/ StoreEvents(q)
    \/ ReplayFails(q) \/ StoreScore(q) \/ SettleRun(q) \/ SettleFails(q)
    \/ CancelRun(q) \/ CancelFails(q) \/ ExpireRun(q)
    \/ TerminationCancels(q) \/ TerminationRefused(q) \/ TerminationFails(q)
    \/ CompleteTermination(q)

Next ==
    \/ \E p \in Payments : ConfirmEntry(p)
    \/ \E q \in Requests, w \in Wallets : StartRun(q, w)
    \/ \E q \in Requests, w \in Wallets, token \in BOOLEAN : AbandonRun(q, w, token)
    \/ \E q \in Requests, r \in Runs :
          AppendEvents(q, r) \/ FinishRun(q, r) \/ ReserveRun(q, r)
    \/ \E q \in Requests : Continue(q)
    \/ \E r \in Runs : MineBegin(r) \/ RevertBegin(r) \/ ExpireOpened(r)
    \/ \E w \in Wallets : RecoverMiner(w)
    \/ Restart
    \/ Tick

Spec == Init /\ [][Next]_vars

-----------------------------------------------------------------------------
TypeOK ==
    /\ now \in 0..DayEnd
    /\ confirmed \subseteq Payments
    /\ usedBy \in [Payments -> Runs \union {NoRun}]
    /\ status \in [Runs -> {"none", "active", "finished", "expired"}]
    /\ entry \in [Runs -> Payments \union {NoEntry}]
    /\ expiresAt \in [Runs -> 0..DayEnd]
    /\ attached \in [Runs -> BOOLEAN] /\ terminating \in [Runs -> BOOLEAN]
    /\ events \in [Runs -> Seq(Requests)]
    /\ \A r \in Runs : Len(events[r]) <= MaxSeq
    /\ score \in [Runs -> 0..MaxSeq]
    /\ ended \subseteq Runs
    /\ best \in [Wallets -> Runs \union {NoRun}]
    /\ chain \in [Runs -> {"none", "sent", "active", "settled", "died", "reverted"}]

\* An entry buys one attempt: what is played or scored is played on an entry that
\* still counts it, so no wallet plays two runs and no entry is restored,
\* confirmed again or given to another run under a live or scored one.
AttemptsMatchEntries ==
    /\ \A r \in Runs : status[r] \in {"active", "finished"} =>
          entry[r] \in confirmed /\ usedBy[entry[r]] = r
    /\ \A w \in Wallets : Cardinality(ActiveRuns(w)) <= 1

\* A score is the replay of stored events, and a wallet's best is the most any of
\* its finished runs scored, in whatever order the handlers committed.
BestScoreStands ==
    /\ \A r \in Runs : score[r] <= Len(events[r])
    /\ \A w \in Wallets :
          LET scored == {r \in OwnRuns(w) : status[r] = "finished"}
          IN  IF scored = {} THEN best[w] = NoRun
              ELSE best[w] \in scored /\ \A r \in scored : score[r] <= score[best[w]]

\* A run an administrator ended holds its Miner no more, now or later.
TerminatedIsReleased == \A r \in ended : chain[r] \notin {"sent", "active"}

\* While an administrator is ending a run nothing a player or a start does gets
\* through: the run stays as it is until the administrator is done with it.
ReservationHolds ==
    [][\A r \in Runs : Active(r) /\ terminating[r] =>
          /\ events'[r] = events[r] /\ score'[r] = score[r] /\ attached'[r] = attached[r]
          /\ status'[r] # "active" => status'[r] = "expired" /\ r \in ended']_vars

\* What a run has stored stays stored, in its order: two tabs that send on the same
\* checkpoint never both get in, and no event follows the end of the run.
TranscriptGrows ==
    [][\A r \in Runs : events'[r] # events[r] =>
          /\ Active(r) /\ status'[r] = "active"
          /\ \E q \in Requests : events'[r] = Append(events[r], q)]_vars

\* tests/arena.test.mjs:491: an entry that was restored starts a run again.
RestoredEntryPlayable == \A p \in Payments : usedBy[p] = NoRun => \A r \in Runs : entry[r] # p
=============================================================================

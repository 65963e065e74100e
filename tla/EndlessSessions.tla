--------------------------- MODULE EndlessSessions ---------------------------
(***************************************************************************)
(* Endless runs of one Miner: the handlers of endless-service.js, the       *)
(* operator's side of the settlement contract                               *)
(* (endless-settlement-service.js), the recovery of a locked Miner          *)
(* (complete-production-service.js) and the database they share.            *)
(*                                                                          *)
(* database.transact locks the one state row until its function is done,    *)
(* so a handler that talks to Ronin inside it (start, checkpoint, abandon)  *)
(* keeps every other transaction waiting; reads do not wait.  Whatever a    *)
(* handler does on Ronin outside a transaction, or read before it,          *)
(* interleaves with the others.  A failed transaction changes nothing, what *)
(* it sent to Ronin may be mined all the same, then or later.  Operator     *)
(* calls wait for each other (#serialize).                                  *)
(*                                                                          *)
(* A digest is the sequence of plays it seals.  A row and the Ronin run it  *)
(* began have the same number, the player's nonce.                          *)
(*                                                                          *)
(* Abstracted: replays (any result may verify), scores and counts, the      *)
(* leaderboard (written with a row that is banked or knocked out unless its *)
(* submissions are paused, and read by none of these handlers),             *)
(* consumables, other pauses and ceilings (any request may be refused),     *)
(* lost Miners, the administrator's bulk termination, which ArenaRuns has.  *)
(***************************************************************************)
EXTENDS Naturals, FiniteSets, FiniteSetsExt, Sequences, SequencesExt

CONSTANTS
    Runs,       \* 1..n, player nonces
    Payments,   \* verified MATT entry payments
    Requests,   \* the handlers that can be in progress at a time (a bound)
    Plays,      \* the results that playing a phase can have
    Outcomes,   \* bound: those that are tried, as <<run, phases before, result>>
    MaxPhases,  \* maximumPhases of the configuration
    MaxTokens,  \* how many tokens replace lost ones (a bound)
    Rewards     \* config.rewards.enabled: runs are locked and paid on Ronin

ASSUME EndlessConstants ==
    /\ Runs = 1..Cardinality(Runs) /\ IsFiniteSet(Runs)
    /\ MaxPhases \in Nat \ {0} /\ MaxTokens \in Nat
    /\ Rewards \in BOOLEAN

VARIABLES
    \* a run's row: the saved columns of store.runs
    status, digest, token, terminating, reward, payment,
    signed,     \* the status that checkpointSignature was made with
    banked,     \* the runs whose phaseHistory has a phase with the action bank
    chain,      \* the state of each run on Ronin, or how it ended there
    anchored,   \* the digest of its last checkpoint there
    pool,       \* transactions that are sent and not mined
    request

row    == <<status, digest, token, terminating, reward, payment, signed, banked>>
ledger == <<chain, anchored, pool>>
vars   == <<row, ledger, request>>

NoPayment == "none"
Idle      == [op |-> "idle"]
Closed    == {"knocked_out", "abandoned", "rejected", "expired"}

Init ==
    /\ status = [r \in Runs |-> "none"]
    /\ digest = [r \in Runs |-> << >>]
    /\ token = [r \in Runs |-> 0]
    /\ terminating = [r \in Runs |-> FALSE]
    /\ reward = [r \in Runs |-> "none"]
    /\ payment = [r \in Runs |-> NoPayment]
    /\ signed = [r \in Runs |-> "none"]
    /\ banked = {}
    /\ chain = [r \in Runs |-> "none"]
    /\ anchored = [r \in Runs |-> << >>]
    /\ pool = {}
    /\ request = [q \in Requests |-> Idle]

Becomes(q, held) == request' = [request EXCEPT ![q] = held]
Goes(q, op)      == Becomes(q, [request[q] EXCEPT !.op = op])
Answered(q)      == Becomes(q, Idle)

Active(r)  == status[r] = "active"
ActiveRuns == {r \in Runs : Active(r)}

\* activeRun: the contract keeps one run of a Miner.
Locked     == {r \in Runs : chain[r] = "active"}
Ended(r)   == chain[r] \in {"extraction", "death", "forced"}

\* forceAbandon leaves no EndlessRunSettled event.
HasEvent(r) == chain[r] \in {"extraction", "death"}

OnRonin == {"begin", "anchor", "closing"}
Closing == {"close", "closing", "closed", "failed"}

InTransaction(held) ==
    \/ held.op \in {"begin", "anchor"}
    \/ held.op \in Closing /\ held.why = "abandon"

\* SELECT ... FOR UPDATE, and the operator's queue.
DatabaseFree == \A q \in Requests : ~InTransaction(request[q])
QueueFree    == \A q \in Requests : request[q].op \notin OnRonin

\* startEndlessRun is under the shared lifecycle lock, recoverLockedMinerRun
\* holds it alone, and a start that comes while one waits comes after it.
IsStart(held)    == \/ held.op \in {"enter", "begin"}
                    \/ held.op \in Closing /\ held.why = "start"
IsRecovery(held) == \/ held.op = "waiting"
                    \/ held.op \in Closing /\ held.why = "recover"

-----------------------------------------------------------------------------
(* Ronin.                                                                   *)

BeginTx(r)          == [kind |-> "begin", run |-> r]
AnchorTx(r, at, to) == [kind |-> "checkpoint", run |-> r, at |-> at, to |-> to]
SettleTx(r, at, as) == [kind |-> "settle", run |-> r, at |-> at, as |-> as]

\* Mutant: the contract takes a settlement with any digest of the run.
Accepted_Unmatched(t, state, at) ==
    IF t.kind = "begin" THEN state[t.run] = "none" ELSE state[t.run] = "active"

\* What the contract requires; it can only stop holding, never come back.
Accepted(t, state, at) ==
    IF t.kind = "begin" THEN state[t.run] = "none"
    ELSE state[t.run] = "active" /\ t.at = at[t.run]

\* The transactions that may still be mined once Ronin is like this.
Still(state, at) == {t \in pool : Accepted(t, state, at)}

MineBegin(t) ==
    /\ t \in pool /\ t.kind = "begin" /\ Locked = {}
    /\ chain' = [chain EXCEPT ![t.run] = "active"]
    /\ pool' = Still(chain', anchored)
    /\ UNCHANGED <<row, anchored, request>>

MineCheckpoint(t) ==
    /\ t \in pool /\ t.kind = "checkpoint"
    /\ anchored' = [anchored EXCEPT ![t.run] = t.to]
    /\ pool' = Still(chain, anchored')
    /\ UNCHANGED <<row, chain, request>>

MineSettle(t) ==
    /\ t \in pool /\ t.kind = "settle"
    /\ chain' = [chain EXCEPT ![t.run] = t.as]
    /\ pool' = Still(chain', anchored)
    /\ UNCHANGED <<row, anchored, request>>

\* It reverts, or is never mined.
DropTransaction(t) ==
    /\ t \in pool
    /\ pool' = pool \ {t}
    /\ UNCHANGED <<row, chain, anchored, request>>

\* The owner takes the Miner back after checkpointTimeout.
ForceAbandon(r) ==
    /\ chain[r] = "active"
    /\ chain' = [chain EXCEPT ![r] = "forced"]
    /\ pool' = Still(chain', anchored)
    /\ UNCHANGED <<row, anchored, request>>

-----------------------------------------------------------------------------
(* Starting.                                                                *)

\* reconcileUnlockedEndlessRuns, before every start: rows whose Miner Ronin
\* shows without a run are ghosts.  They are looked for, then expired.
FindGhosts(q) ==
    /\ request[q] = Idle /\ Rewards /\ Locked = {} /\ ActiveRuns # {}
    /\ Becomes(q, [op |-> "ghosts", runs |-> ActiveRuns])
    /\ UNCHANGED <<row, ledger>>

Expire(runs) ==
    /\ status' = [r \in Runs |-> IF r \in runs THEN "expired" ELSE status[r]]
    /\ terminating' = [r \in Runs |-> terminating[r] /\ r \notin runs]

ExpireGhosts(q) ==
    /\ request[q].op = "ghosts" /\ DatabaseFree
    /\ LET ghosts == {r \in request[q].runs : Active(r)}
       IN  /\ Expire(ghosts)
           /\ signed' = [r \in Runs |-> IF r \in ghosts THEN "expired" ELSE signed[r]]
    /\ Answered(q)
    /\ UNCHANGED <<digest, token, reward, payment, banked, ledger>>

Consumed(p) == \E r \in Runs : payment[r] = p

\* The checks before the payment is verified.
StartRun(q, p) ==
    /\ request[q] = Idle
    /\ \A o \in Requests : ~IsRecovery(request[o])
    /\ ActiveRuns = {} /\ ~Consumed(p)
    /\ Becomes(q, [op |-> "enter", payment |-> p])
    /\ UNCHANGED <<row, ledger>>

\* Mutant: the checks before the payment are not repeated.
Eligible_Once(p) == TRUE

\* The checks again, in the transaction.
Eligible(p) == ActiveRuns = {} /\ ~Consumed(p)

NewRuns == {r \in Runs : chain[r] = "none" /\ status[r] = "none"}

\* The lock of the Miner is sent, for the player's next nonce.
EnterRun(q) ==
    LET p == request[q].payment IN
    /\ request[q].op = "enter" /\ DatabaseFree /\ QueueFree
    /\ Eligible(p) /\ NewRuns # {} /\ Locked = {}
    /\ Becomes(q, [op |-> "begin", payment |-> p, run |-> Min(NewRuns)])
    /\ pool' = IF Rewards THEN pool \union {BeginTx(Min(NewRuns))} ELSE pool
    /\ UNCHANGED <<row, chain, anchored>>

\* A check fails, now or on Ronin.
EntryRefused(q) ==
    /\ request[q].op = "enter" /\ DatabaseFree
    /\ Answered(q)
    /\ UNCHANGED <<row, ledger>>

\* Ronin shows the run; row, payment and token are saved together.
RunBegan(q) ==
    LET r == request[q].run IN
    /\ request[q].op = "begin" /\ (Rewards => chain[r] = "active")
    /\ status' = [status EXCEPT ![r] = "active"]
    /\ signed' = [signed EXCEPT ![r] = "active"]
    /\ payment' = [payment EXCEPT ![r] = request[q].payment]
    /\ Answered(q)
    /\ UNCHANGED <<digest, token, terminating, reward, banked, ledger>>

\* beginRun fails: the lock may come all the same, and there is no row.
BeginFails(q) ==
    /\ request[q].op = "begin"
    /\ Answered(q)
    /\ UNCHANGED <<row, ledger>>

\* The Miner is locked and the row is not saved: cancelUnstarted.
StartNotSaved(q) ==
    /\ request[q].op = "begin" /\ chain[request[q].run] = "active"
    /\ Becomes(q, [op |-> "close", why |-> "start", run |-> request[q].run,
                   at |-> << >>, as |-> "death"])
    /\ UNCHANGED <<row, ledger>>

-----------------------------------------------------------------------------
(* Phases.                                                                  *)

Depth(r) == Len(digest[r])

\* The digest, phase, sequence and status that the signature covers.
Checkpoint(r) == [digest |-> digest[r], signed |-> signed[r]]

\* validEndlessCheckpoint: signed for the row as it is now.
Valid(r, checkpoint) ==
    /\ checkpoint = Checkpoint(r)
    /\ signed[r] = status[r]

\* checkpointEndlessPhase up to the replay, from a browser with the run's token.
\* A bank that was accepted before is answered from the row and changes nothing.
CheckpointPhase(q, r, play, bank) ==
    /\ request[q] = Idle
    /\ Active(r) /\ Valid(r, Checkpoint(r))
    /\ bank \/ Depth(r) + 1 < MaxPhases
    /\ Depth(r) < MaxPhases
    /\ <<r, Depth(r), play>> \in Outcomes
    /\ Becomes(q, [op |-> "checkpoint", run |-> r, token |-> token[r],
                   checkpoint |-> Checkpoint(r), play |-> play, bank |-> bank])
    /\ UNCHANGED <<row, ledger>>

\* The same checks in the transaction, and the administrator's reservation.
Acceptable(q) ==
    LET held == request[q]  r == held.run IN
    /\ Active(r) /\ ~terminating[r]
    /\ held.token = token[r]
    /\ Valid(r, held.checkpoint)

Sealed(q) == Append(digest[request[q].run], request[q].play)

\* Mutant: the row keeps the digest of its own replay.
Resynced_Own(q) == Sealed(q)

\* What the row takes over: a checkpoint that Ronin has already, perhaps of
\* another replay of the phase, is the one that counts.
Resynced(q) ==
    LET r == request[q].run IN
    IF Rewards /\ Len(anchored[r]) = Depth(r) + 1 THEN anchored[r] ELSE Sealed(q)

\* The transaction of a checkpoint that Ronin has to be given first.
SendCheckpoint(q) ==
    LET r == request[q].run IN
    /\ request[q].op = "checkpoint" /\ DatabaseFree /\ QueueFree /\ Acceptable(q)
    /\ Rewards /\ r \in Locked /\ Len(anchored[r]) = Depth(r)
    /\ pool' = pool \union {AnchorTx(r, anchored[r], Sealed(q))}
    /\ Goes(q, "anchor")
    /\ UNCHANGED <<row, chain, anchored>>

\* The row as applyEndlessPhaseCheckpoint and the transaction leave it.
Save(q) ==
    LET r == request[q].run  bank == request[q].bank IN
    /\ digest' = [digest EXCEPT ![r] = Resynced(q)]
    /\ IF bank
       THEN /\ status' = [status EXCEPT ![r] = "banked"]
            /\ signed' = [signed EXCEPT ![r] = "banked"]
            /\ banked' = banked \union {r}
       ELSE UNCHANGED <<status, signed, banked>>
    /\ IF bank /\ Rewards
       THEN \E op \in {"close", "failed"} :  \* failed: rewards are paused
               Becomes(q, [op |-> op, why |-> "bank", run |-> r,
                           at |-> Resynced(q), as |-> "extraction"])
       ELSE Answered(q)
    /\ UNCHANGED <<token, terminating, reward, payment, ledger>>

\* Nothing to send: no rewards, or Ronin is at this phase already.
SaveCheckpoint(q) ==
    LET r == request[q].run IN
    /\ request[q].op = "checkpoint" /\ DatabaseFree /\ QueueFree /\ Acceptable(q)
    /\ Rewards => r \in Locked /\ Len(anchored[r]) = Depth(r) + 1
    /\ Save(q)

CheckpointAnchored(q) ==
    /\ request[q].op = "anchor" /\ anchored[request[q].run] = Sealed(q)
    /\ Save(q)

\* A check, the transaction on Ronin or its receipt, or the commit fails.
CheckpointFails(q) ==
    /\ \/ request[q].op = "checkpoint" /\ DatabaseFree
       \/ request[q].op = "anchor"
    /\ Answered(q)
    /\ UNCHANGED <<row, ledger>>

-----------------------------------------------------------------------------
(* Resuming with a new token: the rows and Ronin are read, then the row is  *)
(* made active.  (Had a row moved on between the two reads, its digest      *)
(* would not match.)                                                        *)

Resumable == {r \in Runs : status[r] \in {"active", "expired"}}

\* Tokens are random, so a new one is none of the earlier ones.
NewToken == 1 + Max({token[r] : r \in Runs})

\* The row of the Miner's run on Ronin; if Ronin cannot be read, an active one.
Selected(seen) ==
    IF Rewards /\ seen THEN {r \in Resumable \intersect Locked : anchored[r] = digest[r]}
    ELSE IF ActiveRuns # {} THEN ActiveRuns
    ELSE Resumable

ResumeRun(q, r, seen) ==
    /\ request[q] = Idle
    /\ NewToken <= MaxTokens /\ r \in Selected(seen)
    /\ Becomes(q, [op |-> "resume", run |-> r])
    /\ UNCHANGED <<row, ledger>>

\* The row is looked up again, its status is not.
ReviveRun(q) ==
    LET r == request[q].run IN
    /\ request[q].op = "resume" /\ DatabaseFree /\ NewToken <= MaxTokens
    /\ status' = [status EXCEPT ![r] = "active"]
    /\ token' = [token EXCEPT ![r] = NewToken]
    /\ terminating' = [terminating EXCEPT ![r] = FALSE]
    /\ Answered(q)
    /\ UNCHANGED <<digest, reward, payment, signed, banked, ledger>>

-----------------------------------------------------------------------------
(* Ending a run on Ronin: settle, cancelRun and cancelUnstarted.            *)

\* The run to end: recoverLockedMinerRun takes whatever holds the Miner.
Target(q) ==
    IF request[q].why = "recover" /\ Locked # {} THEN Min(Locked) ELSE request[q].run

\* Mutant: the event of a settlement whose answer was lost is not looked for.
Recovered_Never(q) == request[q].why = "recover" \/ request[q].at = << >>

\* A run that is over needs its event, unless it never had a phase or the
\* Miner is all that matters.
Recovered(q) ==
    LET held == request[q] IN
    \/ held.why = "recover" \/ held.at = << >>
    \/ HasEvent(held.run)

\* Mutant: a recovery too needs the last digest of the server.
Sendable_Matched(q) == Target(q) \in Locked /\ anchored[Target(q)] = request[q].at

\* The run is there, at the server's digest; a recovery takes it as it is.
Sendable(q) ==
    /\ Target(q) \in Locked
    /\ request[q].why = "recover" \/ anchored[Target(q)] = request[q].at

SendSettle(q) ==
    LET r == Target(q) IN
    /\ request[q].op = "close" /\ Rewards /\ QueueFree
    /\ Sendable(q)
    /\ pool' = pool \union {SettleTx(r, anchored[r], request[q].as)}
    /\ Becomes(q, [request[q] EXCEPT !.op = "closing", !.run = r])
    /\ UNCHANGED <<row, chain, anchored>>

\* Nothing to end any more, or nothing on Ronin at all.
AlreadyClosed(q) ==
    /\ request[q].op = "close" /\ (Rewards => QueueFree /\ Locked = {} /\ Recovered(q))
    /\ Goes(q, "closed")
    /\ UNCHANGED <<row, ledger>>

\* Mutant: what was sent counts as mined.
Confirmed_Sent(q) == TRUE

\* The receipt, the event, or processedRuns shows that the run is over.
Confirmed(q) ==
    \/ HasEvent(request[q].run)
    \/ request[q].why \in {"recover", "start"} /\ Ended(request[q].run)

SettleConfirmed(q) ==
    /\ request[q].op = "closing" /\ Confirmed(q)
    /\ Goes(q, "closed")
    /\ UNCHANGED <<row, ledger>>

Fails(q) ==
    /\ IF request[q].why \in {"bank", "terminate"} THEN Goes(q, "failed") ELSE Answered(q)
    /\ UNCHANGED <<row, ledger>>

\* Another run holds the Miner, the digest is not the last one, the event is
\* missing, or the transaction was reverted.
SettleRefused(q) ==
    LET held == request[q] IN
    /\ Rewards
    /\ \/ held.op = "close" /\ QueueFree /\ ~Sendable(q)
          /\ ~(Locked = {} /\ Recovered(q))
       \/ held.op = "closing" /\ ~Confirmed(q)
          /\ \A t \in pool : t.kind # "settle" \/ t.run # held.run
    /\ Fails(q)

\* Ronin or its answer is lost; what was sent may be mined all the same.
SettleLost(q) ==
    LET held == request[q] IN
    /\ Rewards
    /\ \/ held.op = "close" /\ Sendable(q)
       \/ held.op = "closing" /\ \E t \in pool : t.kind = "settle" /\ t.run = held.run
    /\ Fails(q)

Why(q, why, op) == request[q].op = op /\ request[q].why = why

\* markEndlessSettlementPending
Queued(old) == IF old = "settled" THEN old ELSE "pending"

\* settleEndlessRewards after a bank or a retry: the receipt is stored once.
StoreReceipt(q) ==
    /\ Why(q, "bank", "closed") \/ Why(q, "retry", "closed")
    /\ DatabaseFree
    /\ reward' = [reward EXCEPT ![request[q].run] = "settled"]
    /\ Answered(q)
    /\ UNCHANGED <<status, digest, token, terminating, payment, signed, banked,
                   ledger>>

MarkPending(q) ==
    /\ Why(q, "bank", "failed") /\ DatabaseFree
    /\ reward' = [reward EXCEPT ![request[q].run] = Queued(@)]
    /\ Answered(q)
    /\ UNCHANGED <<status, digest, token, terminating, payment, signed, banked,
                   ledger>>

RetrySettlement(q, r) ==
    /\ request[q] = Idle /\ Rewards
    /\ status[r] = "banked" /\ reward[r] # "settled"
    /\ Becomes(q, [op |-> "close", why |-> "retry", run |-> r, at |-> digest[r],
                   as |-> "extraction"])
    /\ UNCHANGED <<row, ledger>>

\* abandonEndlessRun: one transaction around the call to Ronin.  A run past its
\* time, or that an administrator is ending, may still be abandoned.
AbandonRun(q, r) ==
    /\ request[q] = Idle /\ DatabaseFree /\ Active(r)
    /\ Becomes(q, [op |-> "close", why |-> "abandon", run |-> r, at |-> digest[r],
                   as |-> "death"])
    /\ UNCHANGED <<row, ledger>>

StoreAbandoned(q, knockout) ==
    LET r == request[q].run
        to == IF knockout THEN "knocked_out" ELSE "abandoned"
    IN  /\ Why(q, "abandon", "closed")
        /\ status' = [status EXCEPT ![r] = to]
        /\ signed' = [signed EXCEPT ![r] = to]
        /\ reward' = [reward EXCEPT ![r] =
                         IF ~Rewards THEN @ ELSE IF Depth(r) > 0 THEN "settled" ELSE "none"]
        /\ Answered(q)
        /\ UNCHANGED <<digest, token, terminating, payment, banked, ledger>>

\* cancelUnstarted has taken the lock back.
StartUndone(q) ==
    /\ Why(q, "start", "closed")
    /\ Answered(q)
    /\ UNCHANGED <<row, ledger>>

-----------------------------------------------------------------------------
(* The administrator, and the recovery of a Miner.                          *)

TerminateRun(q, r) ==
    /\ request[q] = Idle /\ DatabaseFree
    /\ Active(r) /\ ~terminating[r]
    /\ terminating' = [terminating EXCEPT ![r] = TRUE]
    /\ Becomes(q, [op |-> "close", why |-> "terminate", run |-> r, at |-> digest[r],
                   as |-> "death"])
    /\ UNCHANGED <<status, digest, token, reward, payment, signed, banked,
                   ledger>>

\* The row is rejected if it is still the one that was reserved.
RejectRun(q) ==
    LET r == request[q].run IN
    /\ Why(q, "terminate", "closed") /\ DatabaseFree
    /\ Active(r) /\ terminating[r]
    /\ status' = [status EXCEPT ![r] = "rejected"]
    /\ terminating' = [terminating EXCEPT ![r] = FALSE]
    /\ reward' = [reward EXCEPT ![r] = IF Rewards THEN "settled" ELSE @]
    /\ Answered(q)
    /\ UNCHANGED <<digest, token, payment, signed, banked, ledger>>

\* Otherwise, or when Ronin fails, the reservation is taken back.
ClearReservation(q) ==
    LET r == request[q].run IN
    /\ \/ Why(q, "terminate", "failed")
       \/ Why(q, "terminate", "closed") /\ ~(Active(r) /\ terminating[r])
    /\ DatabaseFree
    /\ terminating' = [terminating EXCEPT ![r] = @ /\ ~Active(r)]
    /\ Answered(q)
    /\ UNCHANGED <<status, digest, token, reward, payment, signed, banked,
                   ledger>>

Recoverable == {r \in Runs : status[r] \in {"active", "expired"}}

RecoverMiner(q) ==
    /\ request[q] = Idle
    /\ \A o \in Requests : ~IsRecovery(request[o])
    /\ Locked # {} \/ Recoverable # {}
    /\ Becomes(q, [op |-> "waiting"])
    /\ UNCHANGED <<row, ledger>>

\* The starts that were before it are through.
BeginRecovery(q) ==
    /\ request[q].op = "waiting"
    /\ \A o \in Requests : ~IsStart(request[o])
    /\ Becomes(q, [op |-> "close", why |-> "recover", run |-> 1, at |-> << >>,
                   as |-> "death", rows |-> Recoverable])
    /\ UNCHANGED <<row, ledger>>

ExpireRecovered(q) ==
    /\ Why(q, "recover", "closed") /\ DatabaseFree
    /\ Expire(request[q].rows \intersect Recoverable)
    /\ Answered(q)
    /\ UNCHANGED <<digest, token, reward, payment, signed, banked, ledger>>

\* The server restarts: transactions that were open are rolled back.
Restart ==
    /\ request # [q \in Requests |-> Idle]
    /\ request' = [q \in Requests |-> Idle]
    /\ UNCHANGED <<row, ledger>>

-----------------------------------------------------------------------------
\* One step of a handler that has arrived.
Continue(q) ==
    \/ ExpireGhosts(q)
    \/ EnterRun(q) \/ EntryRefused(q) \/ RunBegan(q) \/ BeginFails(q) \/ StartNotSaved(q)
    \/ SendCheckpoint(q) \/ SaveCheckpoint(q) \/ CheckpointAnchored(q) \/ CheckpointFails(q)
    \/ ReviveRun(q)
    \/ SendSettle(q) \/ AlreadyClosed(q) \/ SettleConfirmed(q) \/ SettleRefused(q) \/ SettleLost(q)
    \/ StoreReceipt(q) \/ MarkPending(q) \/ StartUndone(q)
    \/ \E knockout \in BOOLEAN : StoreAbandoned(q, knockout)
    \/ RejectRun(q) \/ ClearReservation(q)
    \/ BeginRecovery(q) \/ ExpireRecovered(q)

Mine == \E t \in pool : MineBegin(t) \/ MineCheckpoint(t) \/ MineSettle(t)

Next ==
    \/ Mine
    \/ \E t \in pool : DropTransaction(t)
    \/ \E r \in Runs : ForceAbandon(r)
    \/ \E q \in Requests, p \in Payments : StartRun(q, p)
    \/ \E q \in Requests, r \in Runs, play \in Plays, bank \in BOOLEAN :
          CheckpointPhase(q, r, play, bank)
    \/ \E q \in Requests, r \in Runs, seen \in BOOLEAN : ResumeRun(q, r, seen)
    \/ \E q \in Requests, r \in Runs :
          RetrySettlement(q, r) \/ AbandonRun(q, r) \/ TerminateRun(q, r)
    \/ \E q \in Requests : FindGhosts(q) \/ RecoverMiner(q) \/ Continue(q)
    \/ Restart

Spec == Init /\ [][Next]_vars

\* Handlers that have arrived go on, the row lock and the queues being granted in
\* turn, and Ronin mines what is valid.  A player who needs the Miner recovers
\* it, and one who is owed a reward asks again.
Fairness ==
    /\ \A q \in Requests : SF_vars(Continue(q))
    /\ WF_vars(Mine)
    /\ SF_vars(\E q \in Requests : RecoverMiner(q))
    /\ \A r \in Runs : SF_vars(\E q \in Requests : RetrySettlement(q, r))

\* Restarts, lost answers and dropped transactions: any number, not for ever.
Trouble ==
    \/ Restart
    \/ \E t \in pool : DropTransaction(t)
    \/ \E q \in Requests : SettleLost(q)

FairSpec == Spec /\ Fairness /\ <>[][~Trouble]_vars

-----------------------------------------------------------------------------
\* The states a row can have and what Ronin can make of a run.
TypeOK ==
    /\ status \in [Runs -> Closed \union {"none", "active", "banked"}]
    /\ signed \in [Runs -> Closed \union {"none", "active", "banked"}]
    /\ digest \in [Runs -> Seq(Plays)] /\ anchored \in [Runs -> Seq(Plays)]
    /\ token \in [Runs -> 0..MaxTokens]
    /\ terminating \in [Runs -> BOOLEAN]
    /\ reward \in [Runs -> {"none", "pending", "settled"}]
    /\ payment \in [Runs -> Payments \union {NoPayment}]
    /\ banked \subseteq Runs
    /\ chain \in [Runs -> {"none", "active", "extraction", "death", "forced"}]

\* A row is never ahead of Ronin and never off its chain of checkpoints: Ronin
\* has what the row has, and at most the one checkpoint whose save was lost.
RowFollowsChain ==
    Rewards => \A r \in Runs :
        /\ IsPrefix(digest[r], anchored[r])
        /\ Len(anchored[r]) <= Depth(r) + 1

\* Ronin pays out only runs that the server has banked, to the last phase of the
\* saved row, whichever late, repeated or crossing settlement is mined.  (It pays
\* them too while leaderboard submissions are paused and they are not ranked.)
OnlyBankedIsPaid ==
    \A r \in Runs : chain[r] = "extraction" => r \in banked /\ anchored[r] = digest[r]

\* One MATT payment starts one run, however starts race each other and restarts.
PaymentStartsOneRun ==
    \A r, s \in Runs : payment[r] = payment[s] /\ r # s => payment[r] = NoPayment

\* A run that is over on the server holds its Miner no more.
ClosedIsReleased == Rewards => \A r \in Runs : status[r] \in Closed => Ended(r)

\* Whatever was lost on the way, no Miner stays locked in Endless for ever.
MinerGetsFree == Locked # {} ~> Locked = {}

\* A banked reward does not stay in the queue for ever, unless the owner took the
\* Miner out of the run before it was paid.
QueueDrains ==
    \A r \in Runs : Rewards /\ status[r] = "banked" /\ reward[r] # "settled" ~>
        reward[r] = "settled" \/ status[r] # "banked" \/ chain[r] = "forced"

=============================================================================

------------------------------- MODULE PaidRuns -------------------------------
(***************************************************************************)
(* The Pass Mine runs of one wallet: the handlers that start, revive,       *)
(* finish, abandon, recover and terminate them                              *)
(* (complete-production-service.js, service.js, bonus-engine.js), and the   *)
(* operator's calls to the settlement contract (nft-gameplay-service.js).   *)
(*                                                                          *)
(* A transaction on the state row is one step.  Starts and revives hold the *)
(* lifecycle lock together, a recovery or a termination holds it alone;     *)
(* finishing and abandoning are not under it.  A row and the Ronin run it   *)
(* began have the same name here.                                           *)
(*                                                                          *)
(* Abstracted: time (an active row may be past its expiresAt whenever a     *)
(* start looks, and any request may be refused for it), maps, replays,      *)
(* amounts (an outcome is an extraction, a death, or a cancellation: a      *)
(* death with nothing carried), the verification of payments.               *)
(***************************************************************************)
EXTENDS Naturals, FiniteSets

CONSTANTS
    Runs, Miners,
    Credits,        \* paid entitlements
    Requests,       \* the handlers that can be in progress at a time (a bound)
    ReviveLimit     \* reviveLimitPerRun, 1..3

ASSUME ReviveLimitAssumption == ReviveLimit \in 1..3

\* What stands for "no run", "any run" and an unused credit is not a run.
ASSUME NamesAssumption == {"none", "any", "unbought", "free"} \intersect Runs = {}

VARIABLES
    credit,     \* "unbought", "free", or the run that used it
    \* a run's row
    status, miner, result, reserved,
    link,       \* "pending": pendingNftRun; "attached": nftRun or nftSettlement
    revive,     \* the status of pendingRevive
    revived,    \* the number of revives
    banked,     \* the outcome in the wallet's Crystal ledger
    open,       \* the run's token has reached the browser
    chain,      \* the run on Ronin
    pool,       \* transactions that are sent and not mined
    request

row  == <<status, miner, result, reserved, link, revive, revived, banked, open>>
vars == <<credit, row, chain, pool, request>>

None     == "none"
Idle     == [why |-> "idle", op |-> "idle"]
Outcomes == {"extracted", "died", "cancelled"}

Init ==
    /\ credit = [c \in Credits |-> "unbought"]
    /\ status = [r \in Runs |-> "unused"]
    /\ miner = [r \in Runs |-> None]
    /\ result = [r \in Runs |-> None]
    /\ reserved = [r \in Runs |-> FALSE]
    /\ link = [r \in Runs |-> None]
    /\ revive = [r \in Runs |-> None]
    /\ revived = [r \in Runs |-> 0]
    /\ banked = [r \in Runs |-> None]
    /\ open = [r \in Runs |-> FALSE]
    /\ chain = [r \in Runs |-> None]
    /\ pool = {}
    /\ request = [q \in Requests |-> Idle]

Becomes(q, held) == request' = [request EXCEPT ![q] = held]
Goes(q, op)      == Becomes(q, [request[q] EXCEPT !.op = op])
Answered(q)      == Becomes(q, Idle)
At(q, why, op)   == request[q].why = why /\ request[q].op = op

Live(r) == status[r] \in {"active", "awaiting"}
Over(r) == status[r] \in {"finished", "expired"}

\* The lifecycle lock.
Shares(held) == held.why \in {"start", "stale", "undo", "drop"}
Alone(held)  == held.why \in {"recover", "terminate"}
CanShare     == \A q \in Requests : ~Alone(request[q])
CanBeAlone   == \A q \in Requests : ~Alone(request[q]) /\ ~Shares(request[q])

-----------------------------------------------------------------------------
(* Ronin, and the operator's calls, which wait for each other (#serialize). *)

On(m) == {r \in Runs : chain[r] = "active" /\ miner[r] = m}

Tx(r, to) == [run |-> r, to |-> to]

\* A start needs the next nonce of the player and a free Miner, an end its run.
Mine(t) ==
    /\ t \in pool
    /\ IF t.to = "active" THEN chain[t.run] = None /\ On(miner[t.run]) = {}
                          ELSE chain[t.run] = "active"
    /\ chain' = [chain EXCEPT ![t.run] = t.to]
    /\ pool' = {u \in pool : IF t.to = "active" THEN u.to # "active" ELSE u.run # t.run}
    /\ UNCHANGED <<credit, row, request>>

DropTransaction(t) ==
    /\ t \in pool
    /\ pool' = pool \ {t}
    /\ UNCHANGED <<credit, row, chain, request>>

QueueFree == \A q \in Requests : request[q].op \notin {"beginning", "ending"}

\* A call to cancelRun, or to settleRun when a result is given: of the run only,
\* or ("any") of whatever run holds the Miner.
Call(why, r, m, only, to, rows) ==
    [why |-> why, op |-> "end", run |-> r, miner |-> m, only |-> only, to |-> to,
     rows |-> rows]

Matches(q, r) == request[q].only \in {"any", r}

SendEnd(q) ==
    /\ request[q].op = "end" /\ QueueFree
    /\ \E r \in On(request[q].miner) :
          /\ Matches(q, r)
          /\ pool' = pool \union {Tx(r, request[q].to)}
          /\ Becomes(q, [request[q] EXCEPT !.op = "ending", !.only = r])
    /\ UNCHANGED <<credit, row, chain>>

\* No run on Ronin: nothing to cancel, or #alreadySettled.
NothingToEnd(q) ==
    /\ request[q].op = "end" /\ On(request[q].miner) = {}
    /\ Goes(q, "gone")
    /\ UNCHANGED <<credit, row, chain, pool>>

\* The receipt; cancelRun also looks whether the Miner is free after an error.
EndConfirmed(q) ==
    LET held == request[q] IN
    /\ held.op = "ending"
    /\ \/ chain[held.only] = held.to
       \/ held.why # "finish" /\ chain[held.only] \in Outcomes
    /\ Goes(q, "ended")
    /\ UNCHANGED <<credit, row, chain, pool>>

\* Another run holds the Miner, a read or the transaction or its answer is lost:
\* what was sent may be mined all the same.
EndFails(q) ==
    /\ request[q].op \in {"end", "ending"}
    /\ Goes(q, "failed")
    /\ UNCHANGED <<credit, row, chain, pool>>

-----------------------------------------------------------------------------
(* Starting a run.                                                          *)

BuyCredit(c) ==
    /\ credit[c] = "unbought"
    /\ credit' = [credit EXCEPT ![c] = "free"]
    /\ UNCHANGED <<row, chain, pool, request>>

\* Rows that are over lose their reservation (normalizeRuns).
Closing(rows, to) ==
    /\ status' = [r \in Runs |-> IF r \in rows THEN to ELSE status[r]]
    /\ reserved' = [r \in Runs |-> reserved[r] /\ r \notin rows]

\* The transaction of service.startRun: expireOldRuns, no other active run, a
\* credit, a row.  A run that awaits a revive does not count as active.
StartRun(q, r, m, c) ==
    /\ request[q] = Idle /\ CanShare
    /\ status[r] = "unused" /\ credit[c] = "free"
    /\ credit' = [credit EXCEPT ![c] = r]
    /\ status' = [x \in Runs |-> IF x = r THEN "active"
                                 ELSE IF status[x] = "active" THEN "expired"
                                 ELSE status[x]]
    /\ reserved' = [x \in Runs |-> reserved[x] /\ status[x] # "active"]
    /\ miner' = [miner EXCEPT ![r] = m]
    /\ link' = [link EXCEPT ![r] = "pending"]
    /\ Becomes(q, [why |-> "start", op |-> "release", run |-> r])
    /\ UNCHANGED <<result, revive, revived, banked, open, chain, pool>>

\* releaseExpiredNftRuns: nftRun is left only on rows that are live.
Stale(r) == {x \in Runs \ {r} : status[x] = "awaiting" /\ link[x] = "attached"}

ReadStale(q) ==
    LET r == request[q].run IN
    /\ At(q, "start", "release")
    /\ IF Stale(r) = {} THEN Goes(q, "begin")
       ELSE \E x \in Stale(r) :
               Becomes(q, Call("stale", r, miner[x], "any", "cancelled", Stale(r) \ {x}))
    /\ UNCHANGED <<credit, row, chain, pool>>

StaleReleased(q) ==
    LET held == request[q] IN
    /\ At(q, "stale", "ended") \/ At(q, "stale", "gone")
    /\ IF held.rows = {} THEN Becomes(q, [why |-> "start", op |-> "begin", run |-> held.run])
       ELSE \E x \in held.rows :
               Becomes(q, Call("stale", held.run, miner[x], "any", "cancelled",
                               held.rows \ {x}))
    /\ UNCHANGED <<credit, row, chain, pool>>

\* The map, the release or a check of the approval fails: nothing was sent.
NothingSent(q) ==
    /\ \/ At(q, "start", "release") \/ At(q, "stale", "failed")
       \/ At(q, "start", "begin")
    /\ Becomes(q, [why |-> "start", op |-> "rollback", run |-> request[q].run])
    /\ UNCHANGED <<credit, row, chain, pool>>

\* A run's name on Ronin is made of player, Miner, map and nonce: what an earlier
\* start of the Miner sent and was never mined begins the same run.
SendBegin(q) ==
    LET r == request[q].run IN
    /\ At(q, "start", "begin") /\ QueueFree
    /\ pool' = {t \in pool : t.to # "active" \/ miner[t.run] # miner[r]}
                 \union {Tx(r, "active")}
    /\ Goes(q, "beginning")
    /\ UNCHANGED <<credit, row, chain>>

\* The receipt, or the run is found on Ronin although its answer was lost.
Begun(q) ==
    /\ At(q, "start", "beginning") /\ chain[request[q].run] = "active"
    /\ Goes(q, "attach")
    /\ UNCHANGED <<credit, row, chain, pool>>

\* An error, and Ronin shows a free Miner: nftRunDefinitelyNotStarted, although
\* the transaction may be mined later.
NotStarted(q) ==
    /\ At(q, "start", "beginning") /\ On(miner[request[q].run]) = {}
    /\ Goes(q, "rollback")
    /\ UNCHANGED <<credit, row, chain, pool>>

\* An error, and Ronin shows another run or nothing: the row stays reserved.
BeginUncertain(q) ==
    /\ At(q, "start", "beginning")
    /\ Answered(q)
    /\ UNCHANGED <<credit, row, chain, pool>>

GivenBack(rows) == [c \in Credits |-> IF credit[c] \in rows THEN "free" ELSE credit[c]]

\* rollbackUnstartedPaidNftRun and reconcilePendingPaidNftRun.
Undone(q, possible) ==
    LET r == request[q].run IN
    /\ IF possible
       THEN /\ credit' = GivenBack({r})
            /\ Closing({r}, "expired")
            /\ link' = [link EXCEPT ![r] = None]
       ELSE UNCHANGED <<credit, status, reserved, link>>
    /\ Answered(q)
    /\ UNCHANGED <<miner, result, revive, revived, banked, open, chain, pool>>

Rollback(q) ==
    LET r == request[q].run IN
    /\ At(q, "start", "rollback")
    /\ Undone(q, status[r] = "active" /\ link[r] # "attached")

Reconcile(q) ==
    /\ At(q, "undo", "ended") \/ At(q, "undo", "gone")
    /\ Undone(q, link[request[q].run] = "pending")

Attach(q) ==
    LET r == request[q].run IN
    /\ At(q, "start", "attach")
    /\ status[r] = "active" /\ ~reserved[r] /\ link[r] = "pending"
    /\ link' = [link EXCEPT ![r] = "attached"]
    /\ Goes(q, "register")
    /\ UNCHANGED <<credit, status, miner, result, reserved, revive, revived, banked,
                   open, chain, pool>>

\* A check or the commit fails, after it took effect or before.
AttachFails(q) ==
    LET r == request[q].run IN
    /\ At(q, "start", "attach") \/ At(q, "start", "register")
    /\ Becomes(q, Call("undo", r, miner[r], r, "cancelled", {}))
    /\ UNCHANGED <<credit, row, chain, pool>>

\* competitiveReplayValidator.register, and the answer to the browser.
Register(q) ==
    /\ At(q, "start", "register")
    /\ open' = [open EXCEPT ![request[q].run] = TRUE]
    /\ Answered(q)
    /\ UNCHANGED <<credit, status, miner, result, reserved, link, revive, revived,
                   banked, chain, pool>>

RegisterFails(q) ==
    LET r == request[q].run IN
    /\ At(q, "start", "register")
    /\ Becomes(q, Call("drop", r, miner[r], "any", "cancelled", {}))
    /\ UNCHANGED <<credit, row, chain, pool>>

\* The transaction of service.abandonRun.
ExpireRun(q) ==
    LET r == request[q].run IN
    /\ \/ request[q].why = "drop" /\ request[q].op \in {"ended", "gone", "failed"}
       \/ request[q].why = "abandon" /\ request[q].op \in {"ended", "gone"}
    /\ IF status[r] = "active" /\ ~reserved[r]
       THEN Closing({r}, "expired") ELSE UNCHANGED <<status, reserved>>
    /\ Answered(q)
    /\ UNCHANGED <<credit, miner, result, link, revive, revived, banked, open, chain,
                   pool>>

-----------------------------------------------------------------------------
(* Playing: revives, the end.                                               *)

\* createPendingRevive keeps an earlier quote whatever its status is.
RequestRevive(r) ==
    /\ CanShare /\ open[r]
    /\ status[r] = "active" /\ ~reserved[r] /\ revived[r] < ReviveLimit
    /\ status' = [status EXCEPT ![r] = "awaiting"]
    /\ revive' = [revive EXCEPT ![r] = IF @ = None THEN "pending" ELSE @]
    /\ UNCHANGED <<credit, miner, result, reserved, link, revived, banked, open, chain,
                   pool, request>>

\* Mutant: a verified payment is enough.
Revivable_Paid(r) == TRUE

\* confirmRevive
Revivable(r) == revive[r] = "pending" /\ ~Over(r)

ConfirmRevive(r) ==
    /\ CanShare /\ open[r] /\ ~reserved[r] /\ Revivable(r)
    /\ revived[r] < ReviveLimit
    /\ status' = [status EXCEPT ![r] = "active"]
    /\ revive' = [revive EXCEPT ![r] = "confirmed"]
    /\ revived' = [revived EXCEPT ![r] = @ + 1]
    /\ UNCHANGED <<credit, miner, result, reserved, link, banked, open, chain, pool,
                   request>>

CancelRevive(r) ==
    /\ CanShare /\ ~reserved[r] /\ status[r] = "awaiting" /\ revive[r] = "pending"
    /\ status' = [status EXCEPT ![r] = "active"]
    /\ revive' = [revive EXCEPT ![r] = "cancelled"]
    /\ UNCHANGED <<credit, miner, result, reserved, link, revived, banked, open, chain,
                   pool, request>>

\* finishRun reads the row, then the transcript is replayed.
FinishRun(q, r, to) ==
    /\ request[q] = Idle /\ open[r]
    /\ Becomes(q, [why |-> "finish", op |-> "score", run |-> r, to |-> to,
                   linked |-> link[r] = "attached"])
    /\ UNCHANGED <<credit, row, chain, pool>>

\* The transaction of service.finishRun; a run that was finished before is
\* answered with its stored result, and settled again.
ScoreRun(q) ==
    LET r == request[q].run
        first == status[r] = "active" /\ ~reserved[r]
        to == IF first THEN request[q].to ELSE result[r]
    IN  /\ At(q, "finish", "score")
        /\ first \/ status[r] = "finished"
        /\ result' = [result EXCEPT ![r] = to]
        /\ IF first THEN Closing({r}, "finished") ELSE UNCHANGED <<status, reserved>>
        /\ IF request[q].linked
           THEN Becomes(q, Call("finish", r, miner[r], r, to, {}))
           ELSE Answered(q)
        /\ UNCHANGED <<credit, miner, link, revive, revived, banked, open, chain, pool>>

ScoreRefused(q) ==
    /\ At(q, "finish", "score")
    /\ Answered(q)
    /\ UNCHANGED <<credit, row, chain, pool>>

\* Mutant: a run that was settled before is reported with its amount too.
Reported_Again(q) == request[q].op \in {"ended", "gone"}

\* settleRun reports the crystals it banked; #alreadySettled does not.
Reported(q) == request[q].op = "ended"

\* recordNftCrystalBank: once for a run.
RecordBank(q) ==
    LET r == request[q].run IN
    /\ request[q].why = "finish" /\ Reported(q)
    /\ banked' = [banked EXCEPT ![r] = IF @ = None THEN request[q].to ELSE @]
    /\ link' = [link EXCEPT ![r] = None]
    /\ Answered(q)
    /\ UNCHANGED <<credit, status, miner, result, reserved, revive, revived, open,
                   chain, pool>>

\* abandonRun: the Miner run first, if the row still has its nftRun.
AbandonRun(q, r) ==
    /\ request[q] = Idle /\ open[r]
    /\ LET call == Call("abandon", r, miner[r], r, "cancelled", {})
       IN  Becomes(q, IF Live(r) /\ link[r] = "attached" THEN call
                      ELSE [call EXCEPT !.op = "gone"])
    /\ UNCHANGED <<credit, row, chain, pool>>

\* Nothing is left to do, or the error is thrown to the player.
GiveUp(q) ==
    /\ \/ At(q, "finish", "gone")
       \/ request[q].op = "failed" /\ request[q].why \in {"finish", "abandon", "undo",
                                                          "terminate"}
    /\ Answered(q)
    /\ UNCHANGED <<credit, row, chain, pool>>

-----------------------------------------------------------------------------
(* Recovering a locked Miner, and the administrator.                        *)

Recoverable(r) == status[r] \in {"active", "awaiting", "expired"}

Reservations(m) == {r \in Runs : miner[r] = m /\ Recoverable(r) /\ link[r] # None}

RecoverMiner(q, m) ==
    /\ request[q] = Idle /\ CanBeAlone
    /\ On(m) # {} \/ Reservations(m) # {}
    /\ LET call == Call("recover", None, m, "any", "cancelled",
                        [r \in Reservations(m) |-> link[r]])
       IN  Becomes(q, IF On(m) # {} THEN call ELSE [call EXCEPT !.op = "unlocked"])
    /\ UNCHANGED <<credit, row, chain, pool>>

\* releaseNftMinerRun: errors count only if the Miner is still locked.
Released(q) ==
    /\ request[q].why = "recover" /\ request[q].op \in {"ended", "gone", "failed"}
    /\ IF On(request[q].miner) = {} THEN Goes(q, "unlocked") ELSE Answered(q)
    /\ UNCHANGED <<credit, row, chain, pool>>

\* The reservations that are still as they were read.
Reconciled(q) ==
    LET rows == request[q].rows IN {r \in DOMAIN rows : Recoverable(r) /\ link[r] = rows[r]}

\* Mutant: an expired row keeps the credit.
Refunded_Live(q) ==
    {r \in Reconciled(q) : request[q].rows[r] = "pending" /\ Live(r)}

\* Mutant: the credit of every recovered run is given back.
Refunded_All(q) == Reconciled(q)

Refunded(q) == {r \in Reconciled(q) : request[q].rows[r] = "pending"}

CancelQuotes(rows) ==
    revive' = [r \in Runs |-> IF r \in rows /\ revive[r] = "pending" THEN "cancelled"
                              ELSE revive[r]]

RecoverRows(q) ==
    /\ At(q, "recover", "unlocked")
    /\ credit' = GivenBack(Refunded(q))
    /\ link' = [r \in Runs |-> IF r \in Reconciled(q) /\ link[r] = "pending" THEN None
                               ELSE link[r]]
    /\ CancelQuotes(Reconciled(q))
    /\ Closing(Reconciled(q), "expired")
    /\ Answered(q)
    /\ UNCHANGED <<miner, result, revived, banked, open, chain, pool>>

\* #reserveAdministrativeServerRuns
TerminateRun(q, r) ==
    /\ request[q] = Idle /\ CanBeAlone /\ Live(r)
    /\ reserved' = [reserved EXCEPT ![r] = TRUE]
    /\ LET call == Call("terminate", r, miner[r],
                        IF link[r] = "attached" THEN r ELSE "any", "cancelled", link[r])
       IN  Becomes(q, IF link[r] = None THEN [call EXCEPT !.op = "gone"] ELSE call)
    /\ UNCHANGED <<credit, status, miner, result, link, revive, revived, banked, open,
                   chain, pool>>

\* A pending start that was not found on Ronin may still be in progress.
Unstarted(q) == At(q, "terminate", "gone") /\ request[q].rows = "pending"

\* #completeAdministrativeRun
CompleteTermination(q) ==
    LET r == request[q].run IN
    /\ At(q, "terminate", "ended") \/ At(q, "terminate", "gone")
    /\ ~Unstarted(q)
    /\ IF Live(r) /\ reserved[r]
       THEN Closing({r}, "expired") /\ CancelQuotes({r})
       ELSE UNCHANGED <<status, reserved, revive>>
    /\ Answered(q)
    /\ UNCHANGED <<credit, miner, result, link, revived, banked, open, chain, pool>>

ClearReservation(q) ==
    /\ Unstarted(q)
    /\ reserved' = [reserved EXCEPT ![request[q].run] = FALSE]
    /\ Answered(q)
    /\ UNCHANGED <<credit, status, miner, result, link, revive, revived, banked, open,
                   chain, pool>>

Restart ==
    /\ request # [q \in Requests |-> Idle]
    /\ request' = [q \in Requests |-> Idle]
    /\ UNCHANGED <<credit, row, chain, pool>>

-----------------------------------------------------------------------------
Continue(q) ==
    \/ SendEnd(q) \/ NothingToEnd(q) \/ EndConfirmed(q) \/ EndFails(q)
    \/ ReadStale(q) \/ StaleReleased(q) \/ NothingSent(q)
    \/ SendBegin(q) \/ Begun(q) \/ NotStarted(q) \/ BeginUncertain(q)
    \/ Rollback(q) \/ Reconcile(q) \/ Attach(q) \/ AttachFails(q)
    \/ Register(q) \/ RegisterFails(q) \/ ExpireRun(q)
    \/ ScoreRun(q) \/ ScoreRefused(q) \/ RecordBank(q) \/ GiveUp(q)
    \/ Released(q) \/ RecoverRows(q) \/ CompleteTermination(q) \/ ClearReservation(q)

Next ==
    \/ \E t \in pool : Mine(t) \/ DropTransaction(t)
    \/ \E c \in Credits : BuyCredit(c)
    \/ \E q \in Requests, r \in Runs, m \in Miners, c \in Credits : StartRun(q, r, m, c)
    \/ \E r \in Runs : RequestRevive(r) \/ ConfirmRevive(r) \/ CancelRevive(r)
    \/ \E q \in Requests, r \in Runs, to \in {"extracted", "died"} : FinishRun(q, r, to)
    \/ \E q \in Requests, r \in Runs : AbandonRun(q, r) \/ TerminateRun(q, r)
    \/ \E q \in Requests, m \in Miners : RecoverMiner(q, m)
    \/ \E q \in Requests : Continue(q)
    \/ Restart

Spec == Init /\ [][Next]_vars

-----------------------------------------------------------------------------
(* Properties.                                                              *)

TypeOK ==
    /\ credit \in [Credits -> {"unbought", "free"} \union Runs]
    /\ status \in [Runs -> {"unused", "active", "awaiting", "finished", "expired"}]
    /\ miner \in [Runs -> Miners \union {None}]
    /\ result \in [Runs -> {None, "extracted", "died"}]
    /\ reserved \in [Runs -> BOOLEAN]
    /\ link \in [Runs -> {None, "pending", "attached"}]
    /\ revive \in [Runs -> {None, "pending", "confirmed", "cancelled"}]
    /\ revived \in [Runs -> 0..ReviveLimit]
    /\ banked \in [Runs -> Outcomes \union {None}]
    /\ open \in [Runs -> BOOLEAN]
    /\ chain \in [Runs -> Outcomes \union {None, "active"}]
    /\ pool \subseteq [run : Runs, to : Outcomes \union {"active"}]

\* Until its row is attached to a run that Ronin has, a start costs nothing that a
\* recovery of its Miner would not give back, whatever failed, was lost or was
\* mined late.  An attached row keeps its credit, also where the browser never
\* gets the run (AttachFails after the commit, RegisterFails): that is not
\* refunded.
UnattachedIsRefundable ==
    \A c \in Credits : credit[c] \in Runs =>
        LET r == credit[c] IN
        \/ open[r]
        \/ link[r] = "attached" /\ chain[r] # None
        \/ link[r] = "pending" /\ Recoverable(r)

\* A run that the browser was given is paid for as long as it exists: no
\* recovery, rollback or termination hands its credit to another run.
PlayedRunIsPaid ==
    \A r \in Runs : open[r] => \E c \in Credits : credit[c] = r

\* The wallet's Crystal ledger shows only what Ronin has paid out, whichever of
\* finishing, abandoning, recovery and termination came first.
LedgerMatchesRonin ==
    \A r \in Runs : banked[r] # None => banked[r] = chain[r]

\* A run that is over stays as it ended, whatever payment, answer or retry comes
\* after it.
OverIsFinal ==
    [][\A r \in Runs : Over(r) => status'[r] = status[r] /\ result'[r] = result[r]]_vars

\* A knocked-out run that is offered a revive can be revived: the quote that a
\* request answers with is one that a payment can still confirm.  ("No RON was
\* accepted. You can try again or safely end the run.")
QuoteCanBePaid == \A r \in Runs : status[r] = "awaiting" => revive[r] = "pending"
=============================================================================

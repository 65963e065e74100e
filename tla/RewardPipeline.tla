--------------------------- MODULE RewardPipeline ---------------------------
(***************************************************************************)
(* The path from a finished week to a claimable reward: reward-manager.js   *)
(* and reward-store.js (the drafts and their two approvals), reward-chain.js*)
(* (what the server reads on Ronin before it writes the Safe's transaction  *)
(* file), the Treasury Safe that executes the file some time later, and the *)
(* reward vault of MineRewards.                                             *)
(*                                                                          *)
(* The server keeps no key: the chain moves without it.  Its reads are      *)
(* separate RPC calls, so what an approval request has read is kept in      *)
(* `reading' and may be stale when the file is written, and staler when the *)
(* file is executed.  A file stays with the signers: any file of a draft    *)
(* may be executed, not only the newest.                                    *)
(*                                                                          *)
(* A draft belongs to a board and a week, that is to one epoch key, so both *)
(* are the same number here.  Abstracted: the two secret keys (a call with  *)
(* a wrong one changes nothing), the token allowance the file sets right    *)
(* before it uses it, dry-run mode (its previews are not executed), and the *)
(* read-only views.  At most one approval request of a draft is in progress *)
(* at a time (a bound).                                                     *)
(***************************************************************************)
EXTENDS MineRewards, RewardPlan

CONSTANTS
    Rankings,       \* the finalized boards there can be: sequences of wallets
    Pools,          \* the poolMatt an admin may ask for
    MaxClaimDays    \* claimDays is 1..MaxClaimDays, in ticks

ASSUME PipelineConstants ==
    /\ Rankings \subseteq UNION {[1..n -> Wallets] : n \in DOMAIN Weights}
    /\ \A r \in Rankings : IsInjective(r)
    /\ Pools \subseteq Nat \ {0}
    /\ MaxClaimDays \in Nat

VARIABLES
    snapshot,   \* matt_mine_weekly_snapshots: the ranking, << >> before
    \* matt_mine_reward_drafts, one variable per column
    status, pool, plan, claimDeadline,
    approvals,  \* matt_mine_reward_approvals
    reading,    \* what the approval request of a draft has read of the vault
    files       \* the funding amounts of a draft's Safe files

drafts   == <<status, pool, plan, claimDeadline, approvals>>
server   == <<snapshot, drafts, reading, files>>
pipeVars == <<now, contract, server>>

NotRead == -1
Idle    == [active |-> FALSE, balance |-> NotRead, reserved |-> NotRead]

Init ==
    /\ ContractInit
    /\ snapshot = [e \in Epochs |-> << >>]
    /\ status = [e \in Epochs |-> "none"]
    /\ pool = NoMatt /\ claimDeadline = NoMatt
    /\ plan = [e \in Epochs |-> NoRoot]
    /\ approvals = [e \in Epochs |-> {}]
    /\ reading = [e \in Epochs |-> Idle]
    /\ files = [e \in Epochs |-> {}]

-----------------------------------------------------------------------------
(* The server.                                                              *)

\* database.js freezes a closed week once; a week nobody scored in has no board.
FinalizeSnapshot(e, ranking) ==
    /\ snapshot[e] = << >>
    /\ snapshot' = [snapshot EXCEPT ![e] = ranking]
    /\ UNCHANGED <<now, contract, drafts, reading, files>>

\* The entries of createRewardPlan, by wallet.
Entries(ranking, matt) ==
    [w \in Wallets |-> SumFunctionOnSet(Amounts(matt, Len(ranking)),
                                        {i \in DOMAIN ranking : ranking[i] = w})]

\* Mutant: a draft may be drafted again until it is published.
Draftable_Again(e) == status[e] # "published"

\* UNIQUE (week_key, mode): one draft per board and week, for ever.
Draftable(e) == status[e] = "none"

CreateDraft(e, matt, days) ==
    /\ snapshot[e] # << >>
    /\ Draftable(e)
    /\ status' = [status EXCEPT ![e] = "draft"]
    /\ pool' = [pool EXCEPT ![e] = matt]
    /\ plan' = [plan EXCEPT ![e] = Entries(snapshot[e], matt)]
    /\ claimDeadline' = [claimDeadline EXCEPT ![e] = now + days]
    /\ approvals' = [approvals EXCEPT ![e] = {"primary"}]
    /\ UNCHANGED <<now, contract, snapshot, reading, files>>

\* Mutant: only a draft that is not approved yet gets a file.
Approvable_Once(e) == status[e] = "draft"

\* An approved draft passes again: a new request reads the vault anew.
Approvable(e) == status[e] \in {"draft", "approved"}

\* Mutant: the file is prepared before the approval is stored.
ApproveDraft_FileFirst(e) ==
    /\ Approvable(e)
    /\ ~reading[e].active
    /\ reading' = [reading EXCEPT ![e].active = TRUE]
    /\ UNCHANGED <<now, contract, snapshot, drafts, files>>

\* The store's transaction of approveDraft; the chain is read after it commits.
ApproveDraft(e) ==
    /\ Approvable(e)
    /\ ~reading[e].active
    /\ status' = [status EXCEPT ![e] = "approved"]
    /\ approvals' = [approvals EXCEPT ![e] = @ \union {"independent"}]
    /\ reading' = [reading EXCEPT ![e].active = TRUE]
    /\ UNCHANGED <<now, contract, snapshot, pool, plan, claimDeadline, files>>

\* Two of publicationTransactions' parallel calls, answered in either order.
ReadBalance(e) ==
    /\ reading[e].active /\ reading[e].balance = NotRead
    /\ reading' = [reading EXCEPT ![e].balance = balance]
    /\ UNCHANGED <<now, contract, snapshot, drafts, files>>

ReadReserved(e) ==
    /\ reading[e].active /\ reading[e].reserved = NotRead
    /\ reading' = [reading EXCEPT ![e].reserved = totalReserved]
    /\ UNCHANGED <<now, contract, snapshot, drafts, files>>

Shortfall(e) ==
    LET available == IF reading[e].balance > reading[e].reserved
                     THEN reading[e].balance - reading[e].reserved ELSE 0
    IN  IF pool[e] > available THEN pool[e] - available ELSE 0

\* The other reads and the checks on them, then the file for the signers.
PrepareFile(e) ==
    /\ reading[e].active
    /\ NotRead \notin {reading[e].balance, reading[e].reserved}
    /\ ~paused /\ ~published[e]
    /\ treasury[Safe] >= Shortfall(e)
    /\ files' = [files EXCEPT ![e] = @ \union {Shortfall(e)}]
    /\ reading' = [reading EXCEPT ![e] = Idle]
    /\ UNCHANGED <<now, contract, snapshot, drafts>>

\* The request fails one of its checks, a read fails, or the server restarts:
\* the approval stays, there is no file.
ApprovalFails(e) ==
    /\ reading[e].active
    /\ reading' = [reading EXCEPT ![e] = Idle]
    /\ UNCHANGED <<now, contract, snapshot, drafts, files>>

\* epochStatus(...).published
OnChain(e) ==
    /\ published[e]
    /\ root[e] = plan[e] /\ total[e] = pool[e] /\ deadline[e] = claimDeadline[e]

Syncable(e) == status[e] = "approved" /\ OnChain(e)

\* syncDraft by the admin, or playerRewards when one of its winners looks.
SyncDraft(e) ==
    /\ Syncable(e)
    /\ status' = [status EXCEPT ![e] = "published"]
    /\ UNCHANGED <<now, contract, snapshot, pool, plan, claimDeadline, approvals,
                   reading, files>>

-----------------------------------------------------------------------------
(* The Treasury Safe: one transaction, all of the file or nothing of it.    *)

ExecuteFile(e, funding) ==
    /\ funding \in files[e]
    /\ Publish(e, plan[e], pool[e], claimDeadline[e], funding)
    /\ UNCHANGED server

Next ==
    \/ Bystander /\ UNCHANGED server
    \/ \E e \in Epochs :
        \/ \E ranking \in Rankings : FinalizeSnapshot(e, ranking)
        \/ \E matt \in Pools, days \in 1..MaxClaimDays : CreateDraft(e, matt, days)
        \/ ApproveDraft(e)
        \/ ReadBalance(e)
        \/ ReadReserved(e)
        \/ PrepareFile(e)
        \/ ApprovalFails(e)
        \/ SyncDraft(e)
        \/ \E funding \in files[e] : ExecuteFile(e, funding)

Spec == Init /\ [][Next]_pipeVars

\* The approver asks again while a draft is unpublished, an RPC call that is
\* made is answered, the signers execute a file that would go through, the
\* admin or a winner looks at the board, and a winner claims.  Time need not
\* pass, so that no deadline is waited for.
Fairness ==
    \A e \in Epochs :
        /\ WF_pipeVars(ApproveDraft(e))
        /\ WF_pipeVars(ReadBalance(e)) /\ WF_pipeVars(ReadReserved(e))
        /\ WF_pipeVars(PrepareFile(e))
        /\ SF_pipeVars(\E funding \in files[e] : ExecuteFile(e, funding))
        /\ WF_pipeVars(SyncDraft(e))
        /\ \A w \in Wallets : WF_pipeVars(Claim(e, w) /\ UNCHANGED server)

\* Requests may fail, and the vault may be paused, any number of times, but not
\* for ever.  A request that finds the Safe short of MATT has to fail.
Calm ==
    /\ \A e \in Epochs : <>[][~ApprovalFails(e) \/ treasury[Safe] < pool[e]]_pipeVars
    /\ <>[]~paused

FairSpec == Spec /\ Fairness /\ Calm

-----------------------------------------------------------------------------
\* Nothing is on Ronin that the two approvers did not approve: a published epoch
\* has a draft with both approvals and exactly its root, total and deadline.
OnlyApprovedPublished ==
    \A e \in Epochs :
        published[e] =>
            /\ status[e] \in {"approved", "published"}
            /\ approvals[e] = {"primary", "independent"}
            /\ OnChain(e)

\* The server never tells its players that a reward is live when it is not.
PublishedIsOnChain == \A e \in Epochs : status[e] = "published" => OnChain(e)

\* Every winner is covered: what an open epoch has left is the sum of the leaves
\* not claimed yet, so no claim is refused for an exhausted allocation and
\* nothing but winners' MATT is reserved.
WinnersCovered ==
    \A e \in Epochs :
        Open(e) => Remaining(e) = SumFunctionOnSet(root[e],
                                                   {w \in Wallets : ~hasClaimed[e][w]})

\* Where a board's payout stands, the chain first and then the server.
Phase(e) ==
    IF closed[e] THEN "closed" ELSE IF published[e] THEN "live" ELSE status[e]

Phases == [e \in Epochs |-> Phase(e)]

Paid == [e \in Epochs |-> [w \in Wallets |-> IF hasClaimed[e][w] THEN root[e][w] ELSE 0]]

Payout == INSTANCE WeeklyPayout WITH
    Boards <- Epochs, Winners <- Wallets, phase <- Phases, owed <- plan, paid <- Paid

\* Server, Safe and vault together keep the promise of WeeklyPayout.
ImplementsPayout == Payout!Spec

\* An approved draft is published, however often requests fail and whatever else
\* happens to the vault's balance, unless its deadline passes first.
ApprovedIsPublished ==
    \A e \in Epochs :
        status[e] = "approved" ~> (published[e] \/ now >= claimDeadline[e])

\* A winner of a published epoch is paid while the epoch's window is open.
WinnersPaid ==
    \A e \in Epochs, w \in Wallets :
        (published[e] /\ root[e][w] > 0) ~> (hasClaimed[e][w] \/ now > deadline[e])
=============================================================================

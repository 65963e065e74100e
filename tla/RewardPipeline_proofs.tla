----------------------- MODULE RewardPipeline_proofs -----------------------
(***************************************************************************)
(* No reward reaches Ronin, and none is shown as live, without both         *)
(* approvals and on other terms than they approved, for any number of       *)
(* boards and winners and any split of the pools.  The proof never looks    *)
(* into an allocation: it follows the terms of a draft from its creation    *)
(* through the files to the vault.  It needs to know that a Safe file, or a *)
(* request that may still write one, exists only for an approved draft.     *)
(*                                                                          *)
(* The second part is about the vault alone, MineRewards, whoever publishes.*)
(***************************************************************************)
EXTENDS RewardPipeline, SumsTheorems, SequenceTheorems

Approved(e) == status[e] \in {"approved", "published"}
BothApproved == {"primary", "independent"}

DraftOK(e) ==
    /\ status[e] = "draft" => approvals[e] = {"primary"}
    /\ Approved(e) => approvals[e] = BothApproved
    /\ files[e] # {} \/ reading[e].active => Approved(e)
    /\ published[e] => Approved(e) /\ OnChain(e)
    /\ status[e] = "published" => published[e]
    /\ DOMAIN reading[e] = {"active", "balance", "reserved"}

IsTable(t) == t = [e \in Epochs |-> t[e]]

Tables ==
    /\ IsTable(root) /\ IsTable(total) /\ IsTable(deadline) /\ IsTable(published)
    /\ IsTable(status) /\ IsTable(pool) /\ IsTable(plan) /\ IsTable(claimDeadline)
    /\ IsTable(approvals) /\ IsTable(reading) /\ IsTable(files)

PipeInv == Tables /\ \A e \in Epochs : DraftOK(e)

\* A table written at one row differs from the old one there only.
LEMMA TableWrite ==
    ASSUME NEW t, IsTable(t), NEW e \in Epochs, NEW x, NEW t2, t2 = [t EXCEPT ![e] = x]
    PROVE  IsTable(t2) /\ t2[e] = x /\ \A d \in Epochs \ {e} : t2[d] = t[d]
BY DEF IsTable

\* The row written is the row read.
LEMMA TableRow ==
    ASSUME NEW t, IsTable(t), NEW e \in Epochs, NEW x
    PROVE  [t EXCEPT ![e] = x][e] = x
BY DEF IsTable

LEMMA PipeInitInv == Init => PipeInv
<1> SUFFICES ASSUME Init PROVE PipeInv
  OBVIOUS
<1>1. Tables
  BY DEF Init, ContractInit, Tables, IsTable, NoMatt, Nowhere
<1>2. ASSUME NEW e \in Epochs PROVE DraftOK(e)
  <2>1. status[e] = "none" /\ ~published[e] /\ files[e] = {} /\ reading[e] = Idle
    BY DEF Init, ContractInit, Nowhere
  <2> QED
    BY <2>1 DEF DraftOK, Approved, Idle
<1> QED
  BY <1>1, <1>2 DEF PipeInv

\* What a draft's row depends on.
LEMMA DraftKept ==
    ASSUME NEW e \in Epochs, DraftOK(e),
           root'[e] = root[e], total'[e] = total[e], deadline'[e] = deadline[e],
           published'[e] = published[e], status'[e] = status[e], pool'[e] = pool[e],
           plan'[e] = plan[e], claimDeadline'[e] = claimDeadline[e],
           approvals'[e] = approvals[e], reading'[e] = reading[e], files'[e] = files[e]
    PROVE  DraftOK(e)'
BY DEF DraftOK, Approved, OnChain

\* The vault's other transactions and a new snapshot touch no row.
LEMMA UntouchedInv ==
    ASSUME PipeInv, UNCHANGED <<root, total, deadline, published, drafts, reading, files>>
    PROVE  PipeInv'
<1>1. UNCHANGED <<root, total, deadline, published, status, pool, plan, claimDeadline,
                  approvals, reading, files>>
  BY DEF drafts
<1>2. Tables'
  BY <1>1 DEF PipeInv, Tables
<1>3. ASSUME NEW e \in Epochs PROVE DraftOK(e)'
  BY <1>1, DraftKept DEF PipeInv
<1> QED
  BY <1>2, <1>3 DEF PipeInv

\* A draft is created on a board nothing was published for.
LEMMA CreateInv ==
    ASSUME PipeInv, NEW e \in Epochs, NEW matt, NEW days, CreateDraft(e, matt, days)
    PROVE  PipeInv'
<1>1. PICK row, by : /\ status[e] = "none"
      /\ status' = [status EXCEPT ![e] = "draft"]
      /\ pool' = [pool EXCEPT ![e] = matt]
      /\ plan' = [plan EXCEPT ![e] = row]
      /\ claimDeadline' = [claimDeadline EXCEPT ![e] = by]
      /\ approvals' = [approvals EXCEPT ![e] = {"primary"}]
      /\ UNCHANGED <<root, total, deadline, published, reading, files>>
  BY DEF CreateDraft, Draftable, contract, terms
<1>2. Tables'
  BY <1>1, TableWrite DEF PipeInv, Tables
<1>3. ASSUME NEW d \in Epochs, d # e PROVE DraftOK(d)'
  <2>1. /\ status'[d] = status[d] /\ pool'[d] = pool[d] /\ plan'[d] = plan[d]
        /\ claimDeadline'[d] = claimDeadline[d] /\ approvals'[d] = approvals[d]
    BY <1>1, <1>3, TableWrite DEF PipeInv, Tables
  <2> QED
    BY <1>1, <2>1, DraftKept DEF PipeInv
<1>4. DraftOK(e)'
  <2>1. status'[e] = "draft"
    BY <1>1, TableRow DEF PipeInv, Tables
  <2>2. DraftOK(e)
    BY DEF PipeInv
  <2>3. ~published[e] /\ files[e] = {} /\ ~reading[e].active
    BY <1>1, <2>2 DEF DraftOK, Approved
  <2>4. approvals'[e] = {"primary"}
    BY <1>1, TableRow DEF PipeInv, Tables
  <2> QED
    BY <1>1, <2>1, <2>2, <2>3, <2>4 DEF DraftOK, Approved
<1> QED
  BY <1>2, <1>3, <1>4 DEF PipeInv

\* The second approval is stored before anything is read.
LEMMA ApproveInv ==
    ASSUME PipeInv, NEW e \in Epochs, ApproveDraft(e)
    PROVE  PipeInv'
<1>1. /\ status[e] \in {"draft", "approved"}
      /\ status' = [status EXCEPT ![e] = "approved"]
      /\ approvals' = [approvals EXCEPT ![e] = @ \union {"independent"}]
      /\ reading' = [reading EXCEPT ![e].active = TRUE]
      /\ UNCHANGED <<root, total, deadline, published, pool, plan, claimDeadline, files>>
  BY DEF ApproveDraft, Approvable, contract, terms
<1>2. Tables'
  BY <1>1, TableWrite DEF PipeInv, Tables
<1>3. ASSUME NEW d \in Epochs, d # e PROVE DraftOK(d)'
  <2>1. status'[d] = status[d] /\ approvals'[d] = approvals[d] /\ reading'[d] = reading[d]
    BY <1>1, <1>3, TableWrite DEF PipeInv, Tables
  <2> QED
    BY <1>1, <2>1, DraftKept DEF PipeInv
<1>4. DraftOK(e)'
  <2>1. DraftOK(e)
    BY DEF PipeInv
  <2>2. /\ status'[e] = "approved"
        /\ approvals'[e] = approvals[e] \union {"independent"}
        /\ reading'[e] = [reading[e] EXCEPT !.active = TRUE]
    BY <1>1, TableRow DEF PipeInv, Tables
  <2>3. approvals'[e] = BothApproved
    BY <1>1, <2>1, <2>2 DEF DraftOK, Approved, BothApproved
  <2>4. DOMAIN reading'[e] = {"active", "balance", "reserved"}
    BY <2>1, <2>2 DEF DraftOK
  <2>5. published[e] => OnChain(e)
    BY <2>1 DEF DraftOK
  <2>6. OnChain(e)' = OnChain(e)
    BY <1>1 DEF OnChain
  <2> QED
    BY <1>1, <2>2, <2>3, <2>4, <2>5, <2>6 DEF DraftOK, Approved
<1> QED
  BY <1>2, <1>3, <1>4 DEF PipeInv

\* A read changes neither who is asking nor the draft.
LEMMA ReadInv ==
    ASSUME PipeInv, NEW e \in Epochs,
           ReadBalance(e) \/ ReadReserved(e) \/ ApprovalFails(e)
    PROVE  PipeInv'
<1>1. PICK row :
        /\ reading' = [reading EXCEPT ![e] = row]
        /\ DOMAIN row = {"active", "balance", "reserved"}
        /\ row.active => reading[e].active
  <2>1. DraftOK(e)
    BY DEF PipeInv
  <2>2. CASE ReadBalance(e)
    <3> DEFINE r == [reading[e] EXCEPT !.balance = balance]
    <3>1. r.active = reading[e].active /\ DOMAIN r = {"active", "balance", "reserved"}
      BY <2>1 DEF DraftOK
    <3> QED
      BY <2>2, <3>1 DEF ReadBalance
  <2>3. CASE ReadReserved(e)
    <3> DEFINE r == [reading[e] EXCEPT !.reserved = totalReserved]
    <3>1. r.active = reading[e].active /\ DOMAIN r = {"active", "balance", "reserved"}
      BY <2>1 DEF DraftOK
    <3> QED
      BY <2>3, <3>1 DEF ReadReserved
  <2>4. CASE ApprovalFails(e)
    BY <2>4 DEF ApprovalFails, Idle
  <2> QED
    BY <2>2, <2>3, <2>4
<1>2. UNCHANGED <<root, total, deadline, published, status, pool, plan, claimDeadline,
                  approvals, files>>
  BY DEF ReadBalance, ReadReserved, ApprovalFails, contract, terms, drafts
<1>3. Tables'
  BY <1>1, <1>2, TableWrite DEF PipeInv, Tables
<1>4. ASSUME NEW d \in Epochs, d # e PROVE DraftOK(d)'
  <2>1. reading'[d] = reading[d]
    BY <1>1, <1>4, TableWrite DEF PipeInv, Tables
  <2> QED
    BY <1>2, <2>1, DraftKept DEF PipeInv
<1>5. DraftOK(e)'
  <2>1. DraftOK(e)
    BY DEF PipeInv
  <2>2. reading'[e] = row
    BY <1>1, TableRow DEF PipeInv, Tables
  <2>3. OnChain(e)' = OnChain(e)
    BY <1>2 DEF OnChain
  <2> QED
    BY <1>1, <1>2, <2>1, <2>2, <2>3 DEF DraftOK, Approved
<1> QED
  BY <1>3, <1>4, <1>5 DEF PipeInv

\* A file is written for an approved draft.
LEMMA PrepareInv ==
    ASSUME PipeInv, NEW e \in Epochs, PrepareFile(e)
    PROVE  PipeInv'
<1>1. PICK more :
        /\ reading[e].active
        /\ files' = [files EXCEPT ![e] = more]
        /\ reading' = [reading EXCEPT ![e] = Idle]
        /\ UNCHANGED <<root, total, deadline, published, status, pool, plan,
                       claimDeadline, approvals>>
  BY DEF PrepareFile, contract, terms, drafts
<1>2. Tables'
  BY <1>1, TableWrite DEF PipeInv, Tables
<1>3. ASSUME NEW d \in Epochs, d # e PROVE DraftOK(d)'
  <2>1. reading'[d] = reading[d] /\ files'[d] = files[d]
    BY <1>1, <1>3, TableWrite DEF PipeInv, Tables
  <2> QED
    BY <1>1, <2>1, DraftKept DEF PipeInv
<1>4. DraftOK(e)'
  <2>1. DraftOK(e)
    BY DEF PipeInv
  <2>2. reading'[e] = Idle
    BY <1>1, TableRow DEF PipeInv, Tables
  <2>3. OnChain(e)' = OnChain(e) /\ Approved(e)' = Approved(e)
    BY <1>1 DEF OnChain, Approved
  <2>4. Approved(e)
    BY <1>1, <2>1 DEF DraftOK
  <2> QED
    BY <1>1, <2>1, <2>2, <2>3, <2>4 DEF DraftOK, Idle
<1> QED
  BY <1>2, <1>3, <1>4 DEF PipeInv

\* The server marks what it saw on the chain.
LEMMA SyncInv ==
    ASSUME PipeInv, NEW e \in Epochs, SyncDraft(e)
    PROVE  PipeInv'
<1>1. /\ status[e] = "approved" /\ OnChain(e)
      /\ status' = [status EXCEPT ![e] = "published"]
      /\ UNCHANGED <<root, total, deadline, published, pool, plan, claimDeadline,
                     approvals, reading, files>>
  BY DEF SyncDraft, Syncable, contract, terms
<1>2. Tables'
  BY <1>1, TableWrite DEF PipeInv, Tables
<1>3. ASSUME NEW d \in Epochs, d # e PROVE DraftOK(d)'
  <2>1. status'[d] = status[d]
    BY <1>1, <1>3, TableWrite DEF PipeInv, Tables
  <2> QED
    BY <1>1, <2>1, DraftKept DEF PipeInv
<1>4. DraftOK(e)'
  <2>1. DraftOK(e)
    BY DEF PipeInv
  <2>2. status'[e] = "published"
    BY <1>1, TableRow DEF PipeInv, Tables
  <2>3. OnChain(e)' = OnChain(e)
    BY <1>1 DEF OnChain
  <2> QED
    BY <1>1, <2>1, <2>2, <2>3 DEF DraftOK, Approved, OnChain
<1> QED
  BY <1>2, <1>3, <1>4 DEF PipeInv

\* The Safe puts on the chain what the draft says.
LEMMA ExecuteInv ==
    ASSUME PipeInv, NEW e \in Epochs, NEW funding, ExecuteFile(e, funding)
    PROVE  PipeInv'
<1>1. /\ funding \in files[e]
      /\ root' = [root EXCEPT ![e] = plan[e]] /\ total' = [total EXCEPT ![e] = pool[e]]
      /\ deadline' = [deadline EXCEPT ![e] = claimDeadline[e]]
      /\ published' = [published EXCEPT ![e] = TRUE]
      /\ UNCHANGED <<status, pool, plan, claimDeadline, approvals, reading, files>>
  BY DEF ExecuteFile, Publish, server, drafts
<1>2. Tables'
  BY <1>1, TableWrite DEF PipeInv, Tables
<1>3. ASSUME NEW d \in Epochs, d # e PROVE DraftOK(d)'
  <2>1. /\ root'[d] = root[d] /\ total'[d] = total[d] /\ deadline'[d] = deadline[d]
        /\ published'[d] = published[d]
    BY <1>1, <1>3, TableWrite DEF PipeInv, Tables
  <2> QED
    BY <1>1, <2>1, DraftKept DEF PipeInv
<1>4. DraftOK(e)'
  <2>1. DraftOK(e)
    BY DEF PipeInv
  <2>2. /\ root'[e] = plan[e] /\ total'[e] = pool[e] /\ published'[e]
        /\ deadline'[e] = claimDeadline[e]
    BY <1>1, TableRow DEF PipeInv, Tables
  <2>3. Approved(e)
    BY <1>1, <2>1 DEF DraftOK
  <2> QED
    BY <1>1, <2>1, <2>2, <2>3 DEF DraftOK, Approved, OnChain
<1> QED
  BY <1>2, <1>3, <1>4 DEF PipeInv

LEMMA PipeNextInv == PipeInv /\ [Next]_pipeVars => PipeInv'
<1> SUFFICES ASSUME PipeInv, [Next]_pipeVars PROVE PipeInv'
  OBVIOUS
<1>1. CASE Bystander /\ UNCHANGED server
  <2>1. UNCHANGED <<root, total, deadline, published>>
    BY <1>1 DEF Bystander, Tick, Deposit, Claim, RecoverExpiredRewards,
                RecoverUnallocatedRewards, SetReserveTreasury, SetPaused, contract, terms
  <2> QED
    BY <1>1, <2>1, UntouchedInv DEF server
<1>2. ASSUME NEW e \in Epochs, NEW ranking \in Rankings, FinalizeSnapshot(e, ranking)
      PROVE  PipeInv'
  BY <1>2, UntouchedInv DEF FinalizeSnapshot, contract, terms
<1>3. CASE UNCHANGED pipeVars
  BY <1>3, UntouchedInv DEF pipeVars, contract, terms, server
<1> QED
  BY <1>1, <1>2, <1>3, CreateInv, ApproveInv, ReadInv, PrepareInv, SyncInv, ExecuteInv
  DEF Next

LEMMA PipeInvariance == Spec => []PipeInv
BY PipeInitInv, PipeNextInv, PTL DEF Spec

\* Nothing is on Ronin but what both approvers approved, on exactly those terms.
THEOREM OnlyApprovedReachesRonin == Spec => []OnlyApprovedPublished
<1>1. PipeInv => OnlyApprovedPublished
  BY DEF PipeInv, DraftOK, Approved, BothApproved, OnlyApprovedPublished
<1> QED
  BY <1>1, PipeInvariance, PTL

\* The server shows no reward as live that is not on Ronin as it shows it.
THEOREM LiveIsOnRonin == Spec => []PublishedIsOnChain
<1>1. PipeInv => PublishedIsOnChain
  BY DEF PipeInv, DraftOK, PublishedIsOnChain
<1> QED
  BY <1>1, PipeInvariance, PTL

-----------------------------------------------------------------------------
(***************************************************************************)
(* What holds of the reward vault for every number of epochs and wallets    *)
(* and whatever its publisher publishes.  That a reserve never underflows   *)
(* needs the sum over the epochs, that an epoch is never overdrawn needs    *)
(* its claims, so the invariant is the conjunction of all of them and of    *)
(* what an epoch nobody published looks like.                               *)
(***************************************************************************)
USE RewardsConstants DEF Epochs, Wallets

EpochOK(e) ==
    /\ IsSum(ClaimedLeaves(e), MaxWallet, claimedMatt[e])
    /\ claimedMatt[e] <= total[e]
    /\ ~published[e] => /\ ~closed[e] /\ claimedMatt[e] = 0
                        /\ \A w \in Wallets : ~hasClaimed[e][w]

Inv ==
    /\ TypeOK
    /\ Solvency
    /\ ReservesBalance
    /\ \A e \in Epochs : EpochOK(e)

\* A new vault owes nothing.
LEMMA InitInv == ContractInit => Inv
<1> SUFFICES ASSUME ContractInit PROVE Inv
  OBVIOUS
<1>1. TypeOK
  BY DEF ContractInit, TypeOK, NoMatt, Nowhere, NoRoot
<1>2. Solvency
  BY DEF ContractInit, Solvency
<1>3. ReservesBalance
  <2>1. totalReserved = 0 /\ \A e \in 1..MaxEpoch : Reserved[e] = 0
    BY DEF ContractInit, Nowhere, Reserved, Open
  <2> QED
    BY <2>1, SumZero DEF ReservesBalance
<1>4. ASSUME NEW e \in Epochs PROVE EpochOK(e)
  <2>1. /\ ~published[e] /\ ~closed[e] /\ claimedMatt[e] = 0 /\ total[e] = 0
        /\ \A w \in Wallets : ~hasClaimed[e][w]
    BY DEF ContractInit, NoMatt, Nowhere
  <2>2. \A w \in 1..MaxWallet : ClaimedLeaves(e)[w] = 0
    BY <2>1 DEF ClaimedLeaves
  <2>3. IsSum(ClaimedLeaves(e), MaxWallet, 0)
    BY <2>2, SumZero
  <2> QED
    BY <2>1, <2>3 DEF EpochOK
<1> QED
  BY <1>1, <1>2, <1>3, <1>4 DEF Inv

\* The fields of an epoch, read from the invariant.
LEMMA EpochTypes ==
    ASSUME Inv, NEW e \in Epochs
    PROVE  /\ root[e] \in [Wallets -> Nat] /\ hasClaimed[e] \in [Wallets -> BOOLEAN]
           /\ total[e] \in Nat /\ claimedMatt[e] \in Nat /\ Remaining(e) \in Nat
           /\ published[e] \in BOOLEAN /\ closed[e] \in BOOLEAN
           /\ Reserved \in [1..MaxEpoch -> Nat] /\ totalReserved \in Nat
           /\ Reserved[e] = (IF Open(e) THEN Remaining(e) ELSE 0)
           /\ Reserved[e] <= totalReserved /\ totalReserved <= balance
           /\ IsSum(Reserved, MaxEpoch, totalReserved)
           /\ ClaimedLeaves(e) \in [1..MaxWallet -> Nat]
           /\ balance \in Nat
<1>1. /\ root[e] \in [Wallets -> Nat] /\ hasClaimed[e] \in [Wallets -> BOOLEAN]
      /\ total[e] \in Nat /\ claimedMatt[e] \in Nat /\ totalReserved \in Nat
      /\ published[e] \in BOOLEAN /\ closed[e] \in BOOLEAN
      /\ balance \in Nat
  BY DEF Inv, TypeOK
<1>2. ASSUME NEW d \in Epochs PROVE Remaining(d) \in Nat
  <2>1. total[d] \in Nat /\ claimedMatt[d] \in Nat /\ claimedMatt[d] <= total[d]
    BY DEF Inv, TypeOK, EpochOK
  <2> QED
    BY <2>1 DEF Remaining
<1>3. Reserved \in [1..MaxEpoch -> Nat]
  BY <1>2 DEF Reserved
<1>4. IsSum(Reserved, MaxEpoch, totalReserved)
  BY DEF Inv, ReservesBalance
<1>5. Reserved[e] <= totalReserved
  BY <1>1, <1>3, <1>4, SumBounds
<1>6. ClaimedLeaves(e) \in [1..MaxWallet -> Nat]
  BY <1>1 DEF ClaimedLeaves
<1>7. totalReserved <= balance
  BY <1>1 DEF Inv, Solvency
<1>8. Reserved[e] = (IF Open(e) THEN Remaining(e) ELSE 0)
  BY DEF Reserved
<1> QED
  BY <1>1, <1>2, <1>3, <1>4, <1>5, <1>6, <1>7, <1>8

\* A transaction that changes what one epoch reserves and the vault's total by
\* the same amount keeps the total equal to the sum of the epochs.
LEMMA BookEpoch ==
    ASSUME Inv, NEW e \in Epochs, NEW amount \in Nat,
           Reserved' \in [Epochs -> Nat], Reserved'[e] = amount,
           \A d \in Epochs \ {e} : Reserved'[d] = Reserved[d],
           totalReserved' = totalReserved - Reserved[e] + amount
    PROVE  totalReserved' \in Nat /\ ReservesBalance'
<1>1. /\ Reserved \in [1..MaxEpoch -> Nat] /\ totalReserved \in Nat
      /\ IsSum(Reserved, MaxEpoch, totalReserved)
  BY EpochTypes
<1>2. /\ totalReserved - Reserved[e] + Reserved'[e] \in Nat
      /\ IsSum(Reserved', MaxEpoch, totalReserved - Reserved[e] + Reserved'[e])
  BY <1>1, SumUpdate
<1> QED
  BY <1>2 DEF ReservesBalance

\* An epoch that a transaction leaves alone keeps its books.
LEMMA EpochKept ==
    ASSUME NEW e \in Epochs, EpochOK(e),
           root'[e] = root[e], total'[e] = total[e], claimedMatt'[e] = claimedMatt[e],
           published'[e] = published[e], closed'[e] = closed[e],
           hasClaimed'[e] = hasClaimed[e]
    PROVE  EpochOK(e)' /\ Reserved'[e] = Reserved[e]
<1>1. ClaimedLeaves(e)' = ClaimedLeaves(e)
  BY DEF ClaimedLeaves
<1>2. Reserved'[e] = Reserved[e]
  BY DEF Reserved, Open, Remaining
<1> QED
  BY <1>1, <1>2 DEF EpochOK

\* Whatever moves tokens or time and leaves the books alone keeps the invariant
\* if the vault stays solvent.
LEMMA BooksKept ==
    ASSUME Inv, UNCHANGED <<terms, claims, closed, totalReserved>>,
           TypeOK', balance' >= totalReserved
    PROVE  Inv'
<1>1. UNCHANGED <<root, total, deadline, published, claimedMatt, hasClaimed, closed,
                  totalReserved>>
  BY DEF terms, claims
<1>2. ASSUME NEW e \in Epochs PROVE EpochOK(e)'
  BY <1>1, EpochKept DEF Inv
<1>3. Reserved' = Reserved
  BY <1>1 DEF Reserved, Open, Remaining
<1>4. ReservesBalance'
  BY <1>1, <1>3 DEF Inv, ReservesBalance
<1>5. Solvency'
  BY <1>1 DEF Solvency
<1> QED
  BY <1>2, <1>4, <1>5 DEF Inv

\* Transfers in, recoveries of the excess, pauses, the treasury's address, time.
LEMMA OthersInv ==
    ASSUME Inv,
           \/ Tick
           \/ \E amount \in 1..outside : Deposit(amount)
           \/ \E amount \in 1..Available : RecoverUnallocatedRewards(amount)
           \/ \E t \in Treasuries : SetReserveTreasury(t)
           \/ \E p \in BOOLEAN : SetPaused(p)
    PROVE  Inv'
<1> USE DEF contract, terms, claims, control, tokens
<1>0. balance \in Nat /\ outside \in Nat /\ totalReserved \in Nat /\ balance >= totalReserved
  BY DEF Inv, TypeOK, Solvency
<1>1. CASE Tick
  <2>0. TypeOK /\ now \in Nat
    BY DEF Inv, TypeOK
  <2>1. TypeOK /\ now' \in Nat
    BY <1>1, <2>0 DEF Tick
  <2>2. TypeOK'
    BY <1>1, <2>1 DEF TypeOK, Tick
  <2> QED
    BY <1>0, <1>1, <2>2, BooksKept DEF Tick
<1>2. ASSUME NEW amount \in 1..outside, Deposit(amount) PROVE Inv'
  <2>0. TypeOK /\ amount \in Nat /\ outside' \in Nat /\ balance' \in Nat
    BY <1>0, <1>2 DEF Inv, Deposit
  <2>1. TypeOK'
    BY <1>2, <2>0 DEF TypeOK, Deposit
  <2>2. balance' >= totalReserved /\ UNCHANGED <<terms, claims, closed, totalReserved>>
    BY <1>0, <1>2 DEF Deposit
  <2> QED
    BY <2>1, <2>2, BooksKept
<1>3. ASSUME NEW amount \in 1..Available, RecoverUnallocatedRewards(amount) PROVE Inv'
  <2>1. amount \in Nat /\ amount <= balance - totalReserved
    BY <1>0, <1>3 DEF Available
  <2>2. treasury' \in [Treasuries -> Nat]
    BY <1>3, <2>1 DEF Inv, TypeOK, RecoverUnallocatedRewards
  <2>3. /\ balance' \in Nat /\ balance' >= totalReserved
        /\ UNCHANGED <<terms, claims, closed, totalReserved>>
    BY <1>0, <1>3, <2>1 DEF RecoverUnallocatedRewards
  <2>4. TypeOK'
    BY <1>3, <2>2, <2>3 DEF Inv, TypeOK, RecoverUnallocatedRewards
  <2> QED
    BY <2>3, <2>4, BooksKept
<1>4. ASSUME NEW t \in Treasuries, SetReserveTreasury(t) PROVE Inv'
  <2>1. TypeOK'
    BY <1>4 DEF Inv, TypeOK, SetReserveTreasury
  <2> QED
    BY <1>0, <1>4, <2>1, BooksKept DEF SetReserveTreasury
<1>5. ASSUME NEW p \in BOOLEAN, SetPaused(p) PROVE Inv'
  <2>1. TypeOK'
    BY <1>5 DEF Inv, TypeOK, SetPaused
  <2> QED
    BY <1>0, <1>5, <2>1, BooksKept DEF SetPaused
<1> QED
  BY <1>1, <1>2, <1>3, <1>4, <1>5

\* A publication reserves its total on an epoch that had nothing, out of MATT no
\* other epoch reserves.
LEMMA PublishInv ==
    ASSUME Inv, NEW e \in Epochs, NEW leaves \in [Wallets -> Nat], NEW amount \in Nat,
           NEW end \in Nat, NEW funding \in Nat, Publish(e, leaves, amount, end, funding)
    PROVE  Inv'
<1>1. /\ ~published[e]
      /\ balance + funding >= totalReserved + amount
      /\ funding <= treasury[Safe]
      /\ root' = [root EXCEPT ![e] = leaves]
      /\ total' = [total EXCEPT ![e] = amount]
      /\ deadline' = [deadline EXCEPT ![e] = end]
      /\ published' = [published EXCEPT ![e] = TRUE]
      /\ totalReserved' = totalReserved + amount
      /\ treasury' = [treasury EXCEPT ![Safe] = @ - funding]
      /\ balance' = balance + funding
      /\ UNCHANGED <<now, claimedMatt, hasClaimed, closed, paused, reserveTreasury, purse,
                     outside>>
  <2>1. treasury[Safe] \in Nat
    BY DEF Inv, TypeOK
  <2> QED
    BY <2>1 DEF Publish, Publishable, Funded, claims, control
<1>2. /\ ~closed[e] /\ claimedMatt[e] = 0 /\ \A w \in Wallets : ~hasClaimed[e][w]
      /\ IsSum(ClaimedLeaves(e), MaxWallet, claimedMatt[e])
  BY <1>1 DEF Inv, EpochOK
<1>3. published[e] \in BOOLEAN /\ Reserved[e] = 0
  BY <1>1, EpochTypes DEF Open
<1>4. /\ root'[e] = leaves /\ total'[e] = amount /\ published'[e]
      /\ claimedMatt'[e] = 0 /\ ~closed'[e] /\ hasClaimed'[e] = hasClaimed[e]
  BY <1>1, <1>2 DEF Inv, TypeOK
<1>5. ASSUME NEW d \in Epochs \ {e} PROVE EpochOK(d)' /\ Reserved'[d] = Reserved[d]
  <2>1. /\ root'[d] = root[d] /\ total'[d] = total[d] /\ published'[d] = published[d]
        /\ claimedMatt'[d] = claimedMatt[d] /\ closed'[d] = closed[d]
        /\ hasClaimed'[d] = hasClaimed[d]
    BY <1>1 DEF Inv, TypeOK
  <2> QED
    BY <2>1, EpochKept DEF Inv
<1>6. EpochOK(e)'
  <2>1. \A w \in 1..MaxWallet : ClaimedLeaves(e)'[w] = ClaimedLeaves(e)[w]
    BY <1>2, <1>4 DEF ClaimedLeaves
  <2>2. IsSum(ClaimedLeaves(e)', MaxWallet, claimedMatt[e])
    BY <1>2, <2>1, SumEqual
  <2> QED
    BY <1>2, <1>4, <2>2 DEF EpochOK
<1>7. Reserved'[e] = amount
  BY <1>4 DEF Reserved, Open, Remaining
<1>8. totalReserved \in Nat /\ totalReserved' = totalReserved - Reserved[e] + amount
  BY <1>1, <1>3, EpochTypes
<1>9. Reserved' \in [Epochs -> Nat]
  <2>1. ASSUME NEW d \in Epochs PROVE Reserved'[d] \in Nat
    BY <1>5, <1>7, EpochTypes
  <2> QED
    BY <2>1 DEF Reserved
<1>10. totalReserved' \in Nat /\ ReservesBalance'
  BY <1>5, <1>7, <1>8, <1>9, BookEpoch
<1>11. TypeOK'
  <2>1. treasury' \in [Treasuries -> Nat] /\ balance' \in Nat
    BY <1>1 DEF Inv, TypeOK
  <2>2. /\ root' \in [Epochs -> [Wallets -> Nat]] /\ total' \in [Epochs -> Nat]
        /\ deadline' \in [Epochs -> Nat] /\ published' \in [Epochs -> BOOLEAN]
    BY <1>1 DEF Inv, TypeOK
  <2> QED
    BY <1>1, <1>10, <2>1, <2>2 DEF Inv, TypeOK
<1>12. Solvency'
  BY <1>1 DEF Solvency
<1> QED
  BY <1>5, <1>6, <1>10, <1>11, <1>12 DEF Inv

\* A claim moves one leaf from the reserve of its epoch to the claimant.
LEMMA ClaimInv ==
    ASSUME Inv, NEW e \in Epochs, NEW w \in Wallets, Claim(e, w)
    PROVE  Inv'
<1>0. PICK leaf \in Nat : leaf = root[e][w]
  BY EpochTypes
<1>1. /\ published[e] /\ ~closed[e] /\ ~hasClaimed[e][w]
      /\ leaf <= Remaining(e)
      /\ hasClaimed' = [hasClaimed EXCEPT ![e][w] = TRUE]
      /\ claimedMatt' = [claimedMatt EXCEPT ![e] = @ + leaf]
      /\ totalReserved' = totalReserved - leaf
      /\ purse' = [purse EXCEPT ![w] = @ + leaf]
      /\ balance' = balance - leaf
      /\ UNCHANGED <<now, root, total, deadline, published, closed, paused,
                     reserveTreasury, treasury, outside>>
  BY <1>0 DEF Claim, Claimable, Open, WithinTotal, BookClaim, terms, control
<1>2. leaf \in Nat /\ root[e] \in [Wallets -> Nat] /\ hasClaimed[e] \in [Wallets -> BOOLEAN]
  BY <1>0, EpochTypes
<1>3. /\ claimedMatt'[e] = claimedMatt[e] + leaf /\ total'[e] = total[e]
      /\ published'[e] /\ ~closed'[e] /\ root'[e] = root[e]
      /\ hasClaimed'[e] = [hasClaimed[e] EXCEPT ![w] = TRUE]
  BY <1>1 DEF Inv, TypeOK
<1>4. /\ Reserved[e] = Remaining(e) /\ Remaining(e) = total[e] - claimedMatt[e]
      /\ total[e] \in Nat /\ claimedMatt[e] \in Nat /\ Remaining(e) \in Nat
  BY <1>1, EpochTypes DEF Open, Remaining
<1>5. Reserved'[e] = Reserved[e] - leaf /\ Reserved[e] - leaf \in Nat
  <2>1. Reserved'[e] = total'[e] - claimedMatt'[e]
    BY <1>3 DEF Reserved, Open, Remaining
  <2>2. Reserved'[e] = total[e] - (claimedMatt[e] + leaf)
    BY <1>3, <2>1
  <2>3. Reserved[e] = total[e] - claimedMatt[e] /\ leaf <= total[e] - claimedMatt[e]
    BY <1>1, <1>4
  <2> QED
    BY <1>4, <2>2, <2>3
<1>6. ASSUME NEW d \in Epochs \ {e} PROVE EpochOK(d)' /\ Reserved'[d] = Reserved[d]
  <2>1. claimedMatt'[d] = claimedMatt[d] /\ hasClaimed'[d] = hasClaimed[d]
    BY <1>1 DEF Inv, TypeOK
  <2> QED
    BY <1>1, <2>1, EpochKept DEF Inv
<1>7. EpochOK(e)'
  <2>1. /\ ClaimedLeaves(e) \in [1..MaxWallet -> Nat]
        /\ IsSum(ClaimedLeaves(e), MaxWallet, claimedMatt[e])
    BY EpochTypes DEF Inv, EpochOK
  <2>2. /\ ClaimedLeaves(e)' \in [1..MaxWallet -> Nat]
        /\ ClaimedLeaves(e)[w] = 0 /\ ClaimedLeaves(e)'[w] = leaf
        /\ \A v \in 1..MaxWallet \ {w} : ClaimedLeaves(e)'[v] = ClaimedLeaves(e)[v]
    BY <1>0, <1>1, <1>2, <1>3 DEF ClaimedLeaves
  <2>3. IsSum(ClaimedLeaves(e)', MaxWallet,
              claimedMatt[e] - ClaimedLeaves(e)[w] + ClaimedLeaves(e)'[w])
    BY <1>4, <2>1, <2>2, SumUpdate
  <2>4. claimedMatt[e] - ClaimedLeaves(e)[w] + ClaimedLeaves(e)'[w] = claimedMatt'[e]
    BY <1>2, <1>3, <1>4, <2>2
  <2>5. claimedMatt'[e] <= total'[e]
    BY <1>1, <1>2, <1>3, <1>4
  <2> QED
    BY <1>3, <2>3, <2>4, <2>5 DEF EpochOK
<1>8. Reserved' \in [Epochs -> Nat]
  <2>1. ASSUME NEW d \in Epochs PROVE Reserved'[d] \in Nat
    BY <1>5, <1>6, EpochTypes
  <2> QED
    BY <2>1 DEF Reserved
<1>9. totalReserved' \in Nat /\ ReservesBalance'
  <2>1. totalReserved' = totalReserved - Reserved[e] + (Reserved[e] - leaf)
    BY <1>1, <1>2, <1>4, EpochTypes
  <2> QED
    BY <1>5, <1>6, <1>8, <2>1, BookEpoch
<1>10. balance' \in Nat /\ balance' >= totalReserved'
  <2>1. /\ Reserved[e] <= totalReserved /\ totalReserved <= balance
        /\ balance \in Nat /\ totalReserved \in Nat
    BY EpochTypes
  <2>2. leaf <= Reserved[e] /\ Reserved[e] \in Nat
    BY <1>1, <1>4
  <2>3. leaf <= balance /\ balance - leaf >= totalReserved - leaf
    BY <2>1, <2>2
  <2> QED
    BY <1>1, <2>1, <2>3
<1>11. TypeOK'
  <2>1. claimedMatt \in [Epochs -> Nat] /\ purse \in [Wallets -> Nat]
    BY DEF Inv, TypeOK
  <2>2. claimedMatt[e] + leaf \in Nat /\ purse[w] + leaf \in Nat
    BY <2>1
  <2>3. /\ claimedMatt' = [claimedMatt EXCEPT ![e] = @ + leaf]
        /\ purse' = [purse EXCEPT ![w] = @ + leaf]
    BY <1>1
  <2>4. claimedMatt' \in [Epochs -> Nat] /\ purse' \in [Wallets -> Nat]
    BY <2>1, <2>2, <2>3
  <2>5. hasClaimed' \in [Epochs -> [Wallets -> BOOLEAN]]
    BY <1>1 DEF Inv, TypeOK
  <2> QED
    BY <1>1, <1>9, <1>10, <2>4, <2>5 DEF Inv, TypeOK
<1>12. Solvency'
  BY <1>10 DEF Solvency
<1> QED
  BY <1>6, <1>7, <1>9, <1>11, <1>12 DEF Inv

\* Closing an epoch releases exactly what it still reserved.
LEMMA RecoverInv ==
    ASSUME Inv, NEW e \in Epochs, RecoverExpiredRewards(e)
    PROVE  Inv'
<1>1. /\ published[e] /\ ~closed[e]
      /\ closed' = [closed EXCEPT ![e] = TRUE]
      /\ totalReserved' = totalReserved - Remaining(e)
      /\ treasury' = [treasury EXCEPT ![reserveTreasury] = @ + Remaining(e)]
      /\ balance' = balance - Remaining(e)
      /\ UNCHANGED <<now, root, total, deadline, published, claimedMatt, hasClaimed,
                     paused, reserveTreasury, purse, outside>>
  BY DEF RecoverExpiredRewards, Open, Released, terms, claims, control
<1>2. Reserved[e] = Remaining(e) /\ Remaining(e) \in Nat
  BY <1>1, EpochTypes DEF Open
<1>3. closed'[e] /\ Reserved'[e] = 0
  BY <1>1 DEF Inv, TypeOK, Reserved, Open
<1>4. ASSUME NEW d \in Epochs \ {e} PROVE EpochOK(d)' /\ Reserved'[d] = Reserved[d]
  <2>1. closed'[d] = closed[d]
    BY <1>1 DEF Inv, TypeOK
  <2> QED
    BY <1>1, <2>1, EpochKept DEF Inv
<1>5. EpochOK(e)'
  <2>1. EpochOK(e) /\ ClaimedLeaves(e)' = ClaimedLeaves(e)
    BY <1>1 DEF Inv, ClaimedLeaves
  <2> QED
    BY <1>1, <2>1 DEF EpochOK
<1>6. Reserved' \in [Epochs -> Nat]
  <2>1. ASSUME NEW d \in Epochs PROVE Reserved'[d] \in Nat
    <3>1. Reserved \in [1..MaxEpoch -> Nat]
      BY EpochTypes
    <3> QED
      BY <1>3, <1>4, <3>1
  <2> QED
    BY <2>1 DEF Reserved
<1>7. totalReserved' \in Nat /\ ReservesBalance'
  <2>1. totalReserved' = totalReserved - Reserved[e] + 0
    BY <1>1, <1>2, EpochTypes
  <2> QED
    BY <1>3, <1>4, <1>6, <2>1, BookEpoch
<1>8. balance' \in Nat /\ balance' >= totalReserved'
  <2>1. /\ Reserved[e] <= totalReserved /\ totalReserved <= balance
        /\ balance \in Nat /\ totalReserved \in Nat
    BY EpochTypes
  <2>2. PICK left \in Nat : left = Remaining(e)
    BY <1>2
  <2>3. /\ left <= totalReserved
        /\ balance' = balance - left /\ totalReserved' = totalReserved - left
    BY <1>1, <1>2, <2>1, <2>2
  <2> QED
    BY <2>1, <2>3
<1>9. TypeOK'
  <2>0. /\ treasury \in [Treasuries -> Nat] /\ closed \in [Epochs -> BOOLEAN]
        /\ reserveTreasury \in Treasuries
    BY DEF Inv, TypeOK
  <2>1. treasury' \in [Treasuries -> Nat] /\ closed' \in [Epochs -> BOOLEAN]
    BY <1>1, <1>2, <2>0
  <2> QED
    BY <1>1, <1>7, <1>8, <2>1 DEF Inv, TypeOK
<1>10. Solvency'
  BY <1>8 DEF Solvency
<1> QED
  BY <1>4, <1>5, <1>7, <1>9, <1>10 DEF Inv

LEMMA NextInv == Inv /\ [ContractNext]_contractVars => Inv'
<1> SUFFICES ASSUME Inv, [ContractNext]_contractVars PROVE Inv'
  OBVIOUS
<1>1. CASE Bystander
  BY <1>1, OthersInv, ClaimInv, RecoverInv DEF Bystander
<1>2. ASSUME NEW e \in Epochs, NEW leaves \in [Wallets -> 0..SafeMatt + OutsideMatt],
             NEW amount \in 1..SafeMatt + OutsideMatt,
             NEW end \in now + 1..now + MaxClaimWindow, NEW funding \in 0..treasury[Safe],
             Publish(e, leaves, amount, end, funding)
      PROVE  Inv'
  <2>1. now \in Nat /\ treasury[Safe] \in Nat
    BY DEF Inv, TypeOK
  <2>2. /\ leaves \in [Wallets -> Nat] /\ amount \in Nat
        /\ end \in Nat /\ funding \in Nat
    BY <2>1
  <2> QED
    BY <1>2, <2>2, PublishInv
<1>3. CASE UNCHANGED contractVars
  <2>1. UNCHANGED <<now, root, total, claimedMatt, deadline, published, closed,
                    hasClaimed, totalReserved, paused, reserveTreasury, balance, purse,
                    treasury, outside>>
    BY <1>3 DEF contractVars, contract, terms, claims, control, tokens
  <2>2. TypeOK'
    BY <2>1 DEF Inv, TypeOK
  <2>3. balance' >= totalReserved
    BY <2>1 DEF Inv, Solvency
  <2> QED
    BY <2>1, <2>2, <2>3, BooksKept DEF terms, claims
<1> QED
  BY <1>1, <1>2, <1>3 DEF ContractNext

LEMMA Invariance == ContractSpec => []Inv
BY InitInv, NextInv, PTL DEF ContractSpec

\* No reserve, claim or balance is ever driven below zero.
THEOREM TypeCorrect == ContractSpec => []TypeOK
<1>1. Inv => TypeOK
  BY DEF Inv
<1> QED
  BY <1>1, Invariance, PTL

\* The vault covers its open epochs, whatever is published, claimed, recovered.
THEOREM Solvent == ContractSpec => []Solvency
<1>1. Inv => Solvency
  BY DEF Inv
<1> QED
  BY <1>1, Invariance, PTL

\* totalReservedMatt is the sum of what the open epochs owe.
THEOREM ReservesAgree == ContractSpec => []ReservesBalance
<1>1. Inv => ReservesBalance
  BY DEF Inv
<1> QED
  BY <1>1, Invariance, PTL

\* claimedMatt is the sum of the leaves claimed, and never more than the total.
THEOREM ClaimsAgree == ContractSpec => []ClaimsBalance
<1>1. Inv => ClaimsBalance
  BY DEF Inv, EpochOK, ClaimsBalance
<1> QED
  BY <1>1, Invariance, PTL

-----------------------------------------------------------------------------
(* What a step may not do.                                                  *)

\* A step that changes nothing of an epoch respects its window and its terms.
LEMMA UntouchedKept ==
    ASSUME UNCHANGED <<terms, claims, closed>>
    PROVE  WindowKept /\ FinalKept
BY DEF terms, claims, WindowKept, FinalKept

LEMMA PublishKept ==
    ASSUME Inv, NEW e \in Epochs, NEW leaves, NEW amount, NEW end, NEW funding,
           Publish(e, leaves, amount, end, funding)
    PROVE  WindowKept /\ FinalKept
<1>1. /\ ~published[e]
      /\ root' = [root EXCEPT ![e] = leaves] /\ total' = [total EXCEPT ![e] = amount]
      /\ deadline' = [deadline EXCEPT ![e] = end]
      /\ published' = [published EXCEPT ![e] = TRUE]
      /\ UNCHANGED <<claimedMatt, hasClaimed, closed>>
  BY DEF Publish, Publishable, claims
<1>2. WindowKept
  BY <1>1 DEF WindowKept
<1>3. FinalKept
  <2> SUFFICES ASSUME NEW d \in Epochs, published[d]
               PROVE  /\ published'[d] /\ root'[d] = root[d]
                      /\ total'[d] = total[d] /\ deadline'[d] = deadline[d]
    BY <1>1 DEF FinalKept
  <2>1. d # e
    BY <1>1
  <2> QED
    BY <1>1, <2>1 DEF Inv, TypeOK
<1> QED
  BY <1>2, <1>3

LEMMA ClaimKept ==
    ASSUME Inv, NEW e \in Epochs, NEW w \in Wallets, Claim(e, w)
    PROVE  WindowKept /\ FinalKept
<1>1. /\ Open(e) /\ now <= deadline[e]
      /\ hasClaimed' = [hasClaimed EXCEPT ![e][w] = TRUE]
      /\ claimedMatt' = [claimedMatt EXCEPT ![e] = @ + root[e][w]]
      /\ UNCHANGED <<root, total, deadline, published, closed>>
  BY DEF Claim, Claimable, BookClaim, terms
<1>2. WindowKept
  <2>1. ASSUME NEW d \in Epochs, d # e PROVE claimedMatt'[d] = claimedMatt[d]
    BY <1>1, <2>1 DEF Inv, TypeOK
  <2> QED
    BY <1>1, <2>1 DEF WindowKept
<1>3. ASSUME NEW d \in Epochs, NEW v \in Wallets, hasClaimed[d][v] PROVE hasClaimed'[d][v]
  BY <1>1, <1>3 DEF Inv, TypeOK
<1>4. FinalKept
  BY <1>1, <1>3 DEF FinalKept
<1> QED
  BY <1>2, <1>4

LEMMA RecoverKept ==
    ASSUME Inv, NEW e \in Epochs, RecoverExpiredRewards(e)
    PROVE  WindowKept /\ FinalKept
<1>1. /\ published[e] /\ now > deadline[e]
      /\ closed' = [closed EXCEPT ![e] = TRUE]
      /\ UNCHANGED <<root, total, deadline, published, claimedMatt, hasClaimed>>
  BY DEF RecoverExpiredRewards, Open, Expired, terms, claims
<1>2. \A d \in Epochs : d # e => closed'[d] = closed[d]
  BY <1>1 DEF Inv, TypeOK
<1>3. closed'[e]
  BY <1>1 DEF Inv, TypeOK
<1> QED
  BY <1>1, <1>2, <1>3 DEF WindowKept, FinalKept

LEMMA NextKept == Inv /\ [ContractNext]_contractVars => WindowKept /\ FinalKept
<1> SUFFICES ASSUME Inv, [ContractNext]_contractVars PROVE WindowKept /\ FinalKept
  OBVIOUS
<1>1. CASE \E e \in Epochs, w \in Wallets : Claim(e, w)
  BY <1>1, ClaimKept
<1>2. CASE \E e \in Epochs : RecoverExpiredRewards(e)
  BY <1>2, RecoverKept
<1>3. CASE \E e \in Epochs, leaves \in [Wallets -> 0..SafeMatt + OutsideMatt],
              amount \in 1..SafeMatt + OutsideMatt,
              end \in now + 1..now + MaxClaimWindow, funding \in 0..treasury[Safe] :
                Publish(e, leaves, amount, end, funding)
  BY <1>3, PublishKept
<1>4. CASE \/ Tick
           \/ \E amount \in 1..outside : Deposit(amount)
           \/ \E amount \in 1..Available : RecoverUnallocatedRewards(amount)
           \/ \E t \in Treasuries : SetReserveTreasury(t)
           \/ \E p \in BOOLEAN : SetPaused(p)
           \/ UNCHANGED contractVars
  <2>1. UNCHANGED <<terms, claims, closed>>
    BY <1>4 DEF Tick, Deposit, RecoverUnallocatedRewards, SetReserveTreasury, SetPaused,
                contractVars, contract
  <2> QED
    BY <2>1, UntouchedKept
<1> QED
  BY <1>1, <1>2, <1>3, <1>4 DEF ContractNext, Bystander

\* Nobody's reward is taken inside its window, nothing is paid outside it.
THEOREM WindowsRespected == ContractSpec => WindowRespected
BY Invariance, NextKept, PTL DEF ContractSpec, WindowRespected

\* What is published, closed or claimed stays so, on the terms it was published.
THEOREM PublishedStaysFinal == ContractSpec => PublishedFinal
BY Invariance, NextKept, PTL DEF ContractSpec, PublishedFinal

-----------------------------------------------------------------------------
(***************************************************************************)
(* Server and vault together.  The amounts of a plan add up to its pool,    *)
(* whatever the weights and however many qualified; the vault then keeps,   *)
(* of every epoch published from a plan, exactly the leaves not claimed.    *)
(***************************************************************************)
HIDE DEF Epochs, Wallets

\* The rounded shares never exceed the pool and the first place takes the rest.
LEMMA AmountsFillPool ==
    ASSUME NEW matt \in Nat, NEW n \in DOMAIN Weights
    PROVE  /\ Amounts(matt, n) \in [1..n -> Nat]
           /\ SumFunctionOnSet(Amounts(matt, n), 1..n) = matt
<1> DEFINE share == Shares(matt, n)
           allocated == SumFunctionOnSet(share, 1..n)
<1>1. n \in Nat /\ n >= 1 /\ \A i \in 1..n : Weights[i] \in Nat \ {0}
  <2>1. DOMAIN Weights = 1..Len(Weights) /\ Len(Weights) \in Nat
        /\ \A i \in 1..Len(Weights) : Weights[i] \in Nat \ {0}
    BY WeightsFall, LenProperties
  <2> QED
    BY <2>1
<1>2. DOMAIN share = 1..n
  BY DEF Shares
<1>3. Amounts(matt, n) = [share EXCEPT ![1] = @ + (matt - allocated)]
  BY <1>2 DEF Amounts, RoundingRemainder, SumFunction
<1>4. /\ Amounts(matt, n) = [i \in 1..n |-> Amounts(matt, n)[i]]
      /\ Amounts(matt, n)[1] = share[1] + (matt - allocated)
      /\ \A i \in 1..n : i > 1 => Amounts(matt, n)[i] = share[i]
  <2>1. 1 \in 1..n /\ \A i \in 1..n : i > 1 => i # 1
    BY <1>1
  <2> HIDE DEF allocated
  <2> QED
    BY <1>3, <2>1 DEF Shares
<1>5. IsSplit(Amounts(matt, n), share, Weights, n, matt)
  <2>1. \A i \in 1..n : share[i] = (matt * Weights[i]) \div SumFunctionOnSet(Weights, 1..n)
    BY DEF Shares, EligibleWeight
  <2> QED
    BY <1>4, <2>1 DEF IsSplit
<1> HIDE DEF share
<1>6. /\ \A i \in 1..n : Amounts(matt, n)[i] \in Nat
      /\ SumFunctionOnSet(Amounts(matt, n), 1..n) = matt
  BY <1>1, <1>5, SplitFillsPool
<1> QED
  BY <1>4, <1>6

LEMMA WalletsAreFinite == IsFiniteSet(Wallets)
BY RewardsConstants, FS_Interval DEF Wallets

\* Every unit of the pool goes to a wallet of the board.
LEMMA EntriesFillPool ==
    ASSUME NEW ranking \in Rankings, NEW matt \in Pools
    PROVE  /\ Entries(ranking, matt) \in [Wallets -> Nat]
           /\ SumFunctionOnSet(Entries(ranking, matt), Wallets) = matt
<1>1. PICK n \in DOMAIN Weights : ranking \in [1..n -> Wallets]
  BY PipelineConstants
<1>2. n \in Nat /\ matt \in Nat /\ DOMAIN ranking = 1..n /\ IsFiniteSet(1..n)
  <2>1. DOMAIN Weights = 1..Len(Weights) /\ Len(Weights) \in Nat
    BY WeightsFall, LenProperties
  <2> QED
    BY <1>1, <2>1, PipelineConstants, FS_Interval
<1>3. Len(ranking) = n
  BY <1>1, <1>2
<1> DEFINE amounts == Amounts(matt, n)
<1>4. amounts \in [1..n -> Nat] /\ SumFunctionOnSet(amounts, 1..n) = matt
  BY <1>2, AmountsFillPool
<1> DEFINE entry == [w \in Wallets |-> SumFunctionOnSet(amounts, {i \in 1..n : ranking[i] = w})]
<1>5. Entries(ranking, matt) = entry
  BY <1>2, <1>3 DEF Entries
<1> HIDE DEF amounts
<1>6. ASSUME NEW w \in Wallets PROVE entry[w] \in Nat
  <2>1. IsFiniteSet({i \in 1..n : ranking[i] = w})
    BY <1>2, FS_Subset
  <2> QED
    BY <1>4, <2>1, SumOfNats
<1>7. SumFunctionOnSet(entry, Wallets) = SumFunctionOnSet(amounts, 1..n)
  <2>1. \A i \in 1..n : amounts[i] \in Int /\ ranking[i] \in Wallets
    BY <1>1, <1>4
  <2>2. IsTally(entry, Wallets, amounts, 1..n, ranking)
    BY DEF IsTally
  <2> DEFINE places == 1..n
  <2>3. IsFiniteSet(places) /\ IsFiniteSet(Wallets)
    BY <1>2, WalletsAreFinite
  <2>4. (\A i \in places : amounts[i] \in Int) /\ (\A i \in places : ranking[i] \in Wallets)
    BY <2>1
  <2>5. IsTally(entry, Wallets, amounts, places, ranking)
    BY <2>2
  <2> HIDE DEF entry, places
  <2>6. SumFunctionOnSet(entry, Wallets) = SumFunctionOnSet(amounts, places)
    BY <2>3, <2>4, <2>5, SumByClass
  <2> QED
    BY <2>6 DEF places
<1> HIDE DEF entry
<1>8. entry \in [Wallets -> Nat]
  BY <1>6 DEF entry
<1> QED
  BY <1>4, <1>5, <1>7, <1>8

Unclaimed(e) == {w \in Wallets : ~hasClaimed[e][w]}

\* A drafted plan splits its pool.
PlanOK(e) ==
    /\ snapshot[e] # << >> => snapshot[e] \in Rankings
    /\ plan[e] \in [Wallets -> Nat]
    /\ status[e] # "none" => SumFunctionOnSet(plan[e], Wallets) = pool[e]

\* What an epoch has left is what its unclaimed leaves add up to.
CoverOK(e) ==
    /\ claimedMatt[e] \in Nat /\ hasClaimed[e] \in [Wallets -> BOOLEAN]
    /\ ~published[e] => /\ ~closed[e] /\ claimedMatt[e] = 0
                        /\ \A w \in Wallets : ~hasClaimed[e][w]
    /\ published[e] => Remaining(e) = SumFunctionOnSet(root[e], Unclaimed(e))

MoreTables ==
    IsTable(snapshot) /\ IsTable(claimedMatt) /\ IsTable(hasClaimed) /\ IsTable(closed)

CoverInv == PipeInv /\ MoreTables /\ \A e \in Epochs : PlanOK(e) /\ CoverOK(e)

\* The terms of a published epoch are a plan's.
LEMMA PublishedPlan ==
    ASSUME CoverInv, NEW e \in Epochs, published[e]
    PROVE  /\ Approved(e) /\ root[e] = plan[e] /\ total[e] = pool[e]
           /\ root[e] \in [Wallets -> Nat] /\ total[e] \in Nat
<1>1. Approved(e) /\ OnChain(e) /\ PlanOK(e)
  BY DEF CoverInv, PipeInv, DraftOK
<1>2. SumFunctionOnSet(plan[e], Wallets) = pool[e] /\ plan[e] \in [Wallets -> Nat]
  BY <1>1 DEF Approved, PlanOK
<1>3. pool[e] \in Nat
  BY <1>2, WalletsAreFinite, SumOfNats
<1> QED
  BY <1>1, <1>2, <1>3 DEF OnChain

LEMMA PlanKept ==
    ASSUME NEW e \in Epochs, PlanOK(e),
           snapshot'[e] = snapshot[e], plan'[e] = plan[e], pool'[e] = pool[e],
           status'[e] = "none" <=> status[e] = "none"
    PROVE  PlanOK(e)'
BY DEF PlanOK

LEMMA CoverKept ==
    ASSUME NEW e \in Epochs, CoverOK(e),
           root'[e] = root[e], total'[e] = total[e], published'[e] = published[e],
           claimedMatt'[e] = claimedMatt[e], hasClaimed'[e] = hasClaimed[e],
           closed'[e] = closed[e] \/ published[e]
    PROVE  CoverOK(e)'
BY DEF CoverOK, Remaining, Unclaimed

LEMMA CoverInit == Init => CoverInv
<1> SUFFICES ASSUME Init PROVE CoverInv
  OBVIOUS
<1>1. PipeInv
  BY PipeInitInv
<1>2. MoreTables
  BY DEF Init, ContractInit, MoreTables, IsTable, NoMatt, Nowhere
<1>3. ASSUME NEW e \in Epochs PROVE PlanOK(e) /\ CoverOK(e)
  <2>1. /\ snapshot[e] = << >> /\ plan[e] = NoRoot /\ status[e] = "none" /\ ~published[e]
        /\ ~closed[e] /\ claimedMatt[e] = 0 /\ hasClaimed[e] = [w \in Wallets |-> FALSE]
    BY <1>3 DEF Init, ContractInit, Nowhere, NoMatt
  <2> QED
    BY <2>1 DEF PlanOK, CoverOK, NoRoot
<1> QED
  BY <1>1, <1>2, <1>3 DEF CoverInv

\* A step of the server writes no row of the vault.
LEMMA ServerCover ==
    ASSUME CoverInv, PipeInv', UNCHANGED contract, IsTable(snapshot)',
           \A e \in Epochs : PlanOK(e)'
    PROVE  CoverInv'
<1>1. UNCHANGED <<root, total, published, claimedMatt, hasClaimed, closed>>
  BY DEF contract, terms, claims
<1>2. MoreTables'
  BY <1>1 DEF CoverInv, MoreTables
<1>3. ASSUME NEW e \in Epochs PROVE CoverOK(e)'
  BY <1>1, CoverKept DEF CoverInv
<1> QED
  BY <1>2, <1>3 DEF CoverInv

LEMMA FinalizeCover ==
    ASSUME CoverInv, PipeInv', NEW e \in Epochs, NEW ranking \in Rankings,
           FinalizeSnapshot(e, ranking)
    PROVE  CoverInv'
<1>1. /\ snapshot' = [snapshot EXCEPT ![e] = ranking]
      /\ UNCHANGED <<contract, status, pool, plan>>
  BY DEF FinalizeSnapshot, drafts
<1>0. IsTable(snapshot)
  BY DEF CoverInv, MoreTables
<1>2. /\ IsTable(snapshot)' /\ snapshot'[e] = ranking
      /\ \A d \in Epochs \ {e} : snapshot'[d] = snapshot[d]
  BY <1>0, <1>1 DEF IsTable
<1>3. ASSUME NEW d \in Epochs PROVE PlanOK(d)'
  BY <1>1, <1>2 DEF CoverInv, PlanOK
<1> QED
  BY <1>1, <1>2, <1>3, ServerCover

LEMMA CreateCover ==
    ASSUME CoverInv, PipeInv', NEW e \in Epochs, NEW matt \in Pools, NEW days,
           CreateDraft(e, matt, days)
    PROVE  CoverInv'
<1>1. /\ snapshot[e] # << >>
      /\ status' = [status EXCEPT ![e] = "draft"]
      /\ pool' = [pool EXCEPT ![e] = matt]
      /\ plan' = [plan EXCEPT ![e] = Entries(snapshot[e], matt)]
      /\ UNCHANGED <<contract, snapshot>>
  BY DEF CreateDraft
<1>2. ASSUME NEW d \in Epochs, d # e PROVE PlanOK(d)'
  <2>1. status'[d] = status[d] /\ pool'[d] = pool[d] /\ plan'[d] = plan[d]
    BY <1>1, <1>2, TableWrite DEF CoverInv, PipeInv, Tables
  <2> QED
    BY <1>1, <2>1, PlanKept DEF CoverInv
<1>3. PlanOK(e)'
  <2>1. plan'[e] = Entries(snapshot[e], matt) /\ pool'[e] = matt
    BY <1>1, TableRow DEF CoverInv, PipeInv, Tables
  <2>2. snapshot[e] \in Rankings
    BY <1>1 DEF CoverInv, PlanOK
  <2> QED
    BY <1>1, <2>1, <2>2, EntriesFillPool DEF PlanOK
<1>4. IsTable(snapshot)'
  BY <1>1 DEF CoverInv, MoreTables
<1> QED
  BY <1>1, <1>2, <1>3, <1>4, ServerCover

\* An approval, a reading and a sync leave every plan as it was drafted.
LEMMA RequestCover ==
    ASSUME CoverInv, PipeInv', NEW e \in Epochs,
           \/ ApproveDraft(e) \/ ReadBalance(e) \/ ReadReserved(e)
           \/ PrepareFile(e) \/ ApprovalFails(e) \/ SyncDraft(e)
    PROVE  CoverInv'
<1>1. UNCHANGED <<contract, snapshot, pool, plan>>
  BY DEF ApproveDraft, ReadBalance, ReadReserved, PrepareFile, ApprovalFails, SyncDraft, drafts
<1>2. ASSUME NEW d \in Epochs PROVE status'[d] = "none" <=> status[d] = "none"
  <2>1. CASE ApproveDraft(e) \/ SyncDraft(e)
    <3>1. PICK s \in {"approved", "published"} :
             status[e] # "none" /\ status' = [status EXCEPT ![e] = s]
      BY <2>1 DEF ApproveDraft, Approvable, SyncDraft, Syncable
    <3> QED
      BY <3>1, TableWrite DEF CoverInv, PipeInv, Tables
  <2> QED
    BY <2>1 DEF ReadBalance, ReadReserved, PrepareFile, ApprovalFails, drafts
<1>3. \A d \in Epochs : PlanOK(d)'
  BY <1>1, <1>2, PlanKept DEF CoverInv
<1>4. IsTable(snapshot)'
  BY <1>1 DEF CoverInv, MoreTables
<1> QED
  BY <1>1, <1>3, <1>4, ServerCover

\* A step of the vault writes no plan.
LEMMA VaultCover ==
    ASSUME CoverInv, PipeInv', UNCHANGED server,
           IsTable(claimedMatt)', IsTable(hasClaimed)', IsTable(closed)',
           \A e \in Epochs : CoverOK(e)'
    PROVE  CoverInv'
<1>1. UNCHANGED <<snapshot, status, pool, plan>>
  BY DEF server, drafts
<1>2. MoreTables'
  BY <1>1 DEF CoverInv, MoreTables
<1>3. \A e \in Epochs : PlanOK(e)'
  BY <1>1, PlanKept DEF CoverInv
<1> QED
  BY <1>2, <1>3 DEF CoverInv

\* What is published reserves the whole plan.
LEMMA ExecuteCover ==
    ASSUME CoverInv, PipeInv', NEW e \in Epochs, NEW funding, ExecuteFile(e, funding)
    PROVE  CoverInv'
<1>1. /\ funding \in files[e] /\ ~published[e]
      /\ root' = [root EXCEPT ![e] = plan[e]] /\ total' = [total EXCEPT ![e] = pool[e]]
      /\ published' = [published EXCEPT ![e] = TRUE]
      /\ UNCHANGED <<claimedMatt, hasClaimed, closed, server>>
  BY DEF ExecuteFile, Publish, Publishable, claims
<1>2. ASSUME NEW d \in Epochs, d # e PROVE CoverOK(d)'
  <2>1. root'[d] = root[d] /\ total'[d] = total[d] /\ published'[d] = published[d]
    BY <1>1, <1>2, TableWrite DEF CoverInv, PipeInv, Tables
  <2> QED
    BY <1>1, <2>1 DEF CoverInv, CoverOK, Remaining, Unclaimed
<1>3. CoverOK(e)'
  <2>1. root'[e] = plan[e] /\ total'[e] = pool[e] /\ published'[e]
    BY <1>1, TableRow DEF CoverInv, PipeInv, Tables
  <2>2. status[e] # "none"
    BY <1>1 DEF CoverInv, PipeInv, DraftOK, Approved
  <2>3. /\ plan[e] \in [Wallets -> Nat] /\ SumFunctionOnSet(plan[e], Wallets) = pool[e]
        /\ hasClaimed[e] \in [Wallets -> BOOLEAN] /\ claimedMatt[e] = 0
        /\ \A w \in Wallets : ~hasClaimed[e][w]
    BY <1>1, <2>2 DEF CoverInv, PlanOK, CoverOK
  <2>4. pool[e] \in Nat
    BY <2>3, WalletsAreFinite, SumOfNats
  <2>5. Unclaimed(e)' = Wallets
    BY <1>1, <2>3 DEF Unclaimed
  <2>6. Remaining(e)' = pool[e]
    BY <1>1, <2>1, <2>3, <2>4 DEF Remaining
  <2> QED
    BY <1>1, <2>1, <2>3, <2>5, <2>6 DEF CoverOK
<1>4. IsTable(claimedMatt)' /\ IsTable(hasClaimed)' /\ IsTable(closed)'
  BY <1>1 DEF CoverInv, MoreTables
<1> QED
  BY <1>1, <1>2, <1>3, <1>4, VaultCover

\* A claim takes one leaf from what is left and from what is unclaimed.
LEMMA ClaimCover ==
    ASSUME CoverInv, PipeInv', NEW e \in Epochs, NEW w \in Wallets, Claim(e, w),
           UNCHANGED server
    PROVE  CoverInv'
<1>1. /\ published[e] /\ ~hasClaimed[e][w]
      /\ hasClaimed' = [hasClaimed EXCEPT ![e] = [hasClaimed[e] EXCEPT ![w] = TRUE]]
      /\ claimedMatt' = [claimedMatt EXCEPT ![e] = claimedMatt[e] + root[e][w]]
      /\ UNCHANGED <<root, total, published, closed>>
  BY DEF Claim, Claimable, Open, BookClaim, terms
<1>2. ASSUME NEW d \in Epochs, d # e PROVE CoverOK(d)'
  <2>1. claimedMatt'[d] = claimedMatt[d] /\ hasClaimed'[d] = hasClaimed[d]
    BY <1>1, <1>2, TableWrite DEF CoverInv, MoreTables
  <2> QED
    BY <1>1, <2>1 DEF CoverInv, CoverOK, Remaining, Unclaimed
<1>3. CoverOK(e)'
  <2>1. /\ hasClaimed'[e] = [hasClaimed[e] EXCEPT ![w] = TRUE]
        /\ claimedMatt'[e] = claimedMatt[e] + root[e][w]
    BY <1>1, TableRow DEF CoverInv, MoreTables
  <2>2. root[e] \in [Wallets -> Nat] /\ total[e] \in Nat
    BY <1>1, PublishedPlan
  <2>3. /\ claimedMatt[e] \in Nat /\ hasClaimed[e] \in [Wallets -> BOOLEAN]
        /\ Remaining(e) = SumFunctionOnSet(root[e], Unclaimed(e))
    BY <1>1 DEF CoverInv, CoverOK
  <2>4. w \in Unclaimed(e) /\ Unclaimed(e)' = Unclaimed(e) \ {w}
    BY <1>1, <2>1, <2>3 DEF Unclaimed
  <2>5. IsFiniteSet(Unclaimed(e)) /\ \A v \in Unclaimed(e) : root[e][v] \in Int
    BY <2>2, WalletsAreFinite, FS_Subset DEF Unclaimed
  <2>6. /\ SumFunctionOnSet(root[e], Unclaimed(e)) \in Int
        /\ SumFunctionOnSet(root[e], Unclaimed(e))
             = root[e][w] + SumFunctionOnSet(root[e], Unclaimed(e) \ {w})
    BY <2>4, <2>5, SumOfAny
  <2>7. SumFunctionOnSet(root[e], Unclaimed(e) \ {w}) \in Int
    <3>1. IsFiniteSet(Unclaimed(e) \ {w})
      BY <2>5, FS_RemoveElement
    <3> QED
      BY <2>5, <3>1, SumOfAny
  <2>8. Remaining(e)' = Remaining(e) - root[e][w]
    BY <1>1, <2>1, <2>2, <2>3 DEF Remaining
  <2>9. Remaining(e)' = SumFunctionOnSet(root[e], Unclaimed(e) \ {w})
    BY <2>2, <2>3, <2>6, <2>7, <2>8
  <2>10. hasClaimed'[e] \in [Wallets -> BOOLEAN] /\ claimedMatt'[e] \in Nat
    BY <2>1, <2>2, <2>3
  <2> QED
    BY <1>1, <2>4, <2>9, <2>10 DEF CoverOK
<1>4. IsTable(claimedMatt)' /\ IsTable(hasClaimed)' /\ IsTable(closed)'
  BY <1>1, TableWrite DEF CoverInv, MoreTables
<1> QED
  BY <1>2, <1>3, <1>4, VaultCover

LEMMA RecoverCover ==
    ASSUME CoverInv, PipeInv', NEW e \in Epochs, RecoverExpiredRewards(e), UNCHANGED server
    PROVE  CoverInv'
<1>1. /\ published[e] /\ closed' = [closed EXCEPT ![e] = TRUE]
      /\ UNCHANGED <<root, total, published, claimedMatt, hasClaimed>>
  BY DEF RecoverExpiredRewards, Open, terms, claims
<1>2. ASSUME NEW d \in Epochs PROVE CoverOK(d)'
  <2>1. d # e => closed'[d] = closed[d]
    BY <1>1, TableWrite DEF CoverInv, MoreTables
  <2> QED
    BY <1>1, <2>1 DEF CoverInv, CoverOK, Remaining, Unclaimed
<1>3. IsTable(claimedMatt)' /\ IsTable(hasClaimed)' /\ IsTable(closed)'
  BY <1>1, TableWrite DEF CoverInv, MoreTables
<1> QED
  BY <1>2, <1>3, VaultCover

LEMMA OthersCover ==
    ASSUME CoverInv, PipeInv', UNCHANGED <<terms, claims, closed, server>>
    PROVE  CoverInv'
<1>1. UNCHANGED <<root, total, published, claimedMatt, hasClaimed, closed>>
  BY DEF terms, claims
<1>2. \A e \in Epochs : CoverOK(e)'
  BY <1>1 DEF CoverInv, CoverOK, Remaining, Unclaimed
<1>3. IsTable(claimedMatt)' /\ IsTable(hasClaimed)' /\ IsTable(closed)'
  BY <1>1 DEF CoverInv, MoreTables
<1> QED
  BY <1>2, <1>3, VaultCover

LEMMA CoverNext == CoverInv /\ [Next]_pipeVars => CoverInv'
<1> SUFFICES ASSUME CoverInv, [Next]_pipeVars PROVE CoverInv'
  OBVIOUS
<1>0. PipeInv'
  BY PipeNextInv DEF CoverInv
<1>1. CASE Bystander /\ UNCHANGED server
  <2>1. CASE \E e \in Epochs, w \in Wallets : Claim(e, w)
    BY <1>0, <1>1, <2>1, ClaimCover
  <2>2. CASE \E e \in Epochs : RecoverExpiredRewards(e)
    BY <1>0, <1>1, <2>2, RecoverCover
  <2>3. CASE \/ Tick \/ \E amount \in 1..outside : Deposit(amount)
             \/ \E amount \in 1..Available : RecoverUnallocatedRewards(amount)
             \/ \E t \in Treasuries : SetReserveTreasury(t)
             \/ \E p \in BOOLEAN : SetPaused(p)
    <3>1. UNCHANGED <<terms, claims, closed>>
      BY <2>3 DEF Tick, Deposit, RecoverUnallocatedRewards, SetReserveTreasury, SetPaused, contract
    <3> QED
      BY <1>0, <1>1, <3>1, OthersCover
  <2> QED
    BY <1>1, <2>1, <2>2, <2>3 DEF Bystander
<1>2. CASE UNCHANGED pipeVars
  BY <1>0, <1>2, OthersCover DEF pipeVars, contract
<1> QED
  BY <1>0, <1>1, <1>2, FinalizeCover, CreateCover, RequestCover, ExecuteCover DEF Next

LEMMA CoverInvariance == Spec => []CoverInv
BY CoverInit, CoverNext, PTL DEF Spec

\* What an open epoch reserves is exactly what its winners can still claim, so
\* the last of them is paid like the first, for any weights, boards and pools.
THEOREM WinnersAreCovered == Spec => []WinnersCovered
<1>1. CoverInv => WinnersCovered
  BY DEF CoverInv, CoverOK, Open, Unclaimed, WinnersCovered
<1> QED
  BY <1>1, CoverInvariance, PTL

NoneRefused ==
    \A e \in Epochs, w \in Wallets : Open(e) /\ ~hasClaimed[e][w] => WithinTotal(e, w)

\* No claim is refused because an earlier one took too much.
THEOREM NoWinnerRefused ==
    Spec => []NoneRefused
<1>1. ASSUME CoverInv, NEW e \in Epochs, NEW w \in Wallets, Open(e), ~hasClaimed[e][w]
      PROVE  WithinTotal(e, w)
  <2>1. root[e] \in [Wallets -> Nat] /\ Remaining(e) = SumFunctionOnSet(root[e], Unclaimed(e))
    BY <1>1, PublishedPlan DEF Open, CoverInv, CoverOK
  <2>2. w \in Unclaimed(e) /\ IsFiniteSet(Unclaimed(e)) /\ Unclaimed(e) \subseteq Wallets
    BY <1>1, WalletsAreFinite, FS_Subset DEF Unclaimed
  <2>3. root[e][w] <= SumFunctionOnSet(root[e], Unclaimed(e))
    BY <2>1, <2>2, SumOfNats
  <2> QED
    BY <2>1, <2>3 DEF WithinTotal
<1>2. CoverInv => NoneRefused
  BY <1>1 DEF NoneRefused
<1> QED
  BY <1>2, CoverInvariance, PTL

-----------------------------------------------------------------------------
(***************************************************************************)
(* Server, Safe and vault implement WeeklyPayout.  A draft, its approval,   *)
(* the executed file, a claim and a recovery are its steps; everything else *)
(* leaves phase, plan and payments as they are.                             *)
(***************************************************************************)
PayoutStep == [Payout!Next]_<<Phases, plan, Paid>>

LEMMA PayoutInit == Init => Payout!Init
<1> SUFFICES ASSUME Init PROVE Payout!Init
  OBVIOUS
<1>1. \A e \in Epochs : Phase(e) = "none" /\ plan[e] = NoRoot
                        /\ \A w \in Wallets : ~hasClaimed[e][w]
  BY DEF Init, ContractInit, Nowhere, Phase
<1>2. plan = [e \in Epochs |-> [w \in Wallets |-> 0]]
  BY DEF Init, NoRoot
<1> QED
  BY <1>1, <1>2 DEF Payout!Init, Phases, Paid

\* Phases and payments depend on these rows only.
LEMMA PhaseKept ==
    ASSUME UNCHANGED <<closed, published, status>>
    PROVE  Phases' = Phases
BY DEF Phases, Phase

LEMMA PaidKept ==
    ASSUME CoverInv, \A e \in Epochs : published[e] => root'[e] = root[e],
           UNCHANGED hasClaimed
    PROVE  Paid' = Paid
<1>1. ASSUME NEW e \in Epochs, NEW w \in Wallets
      PROVE  (IF hasClaimed'[e][w] THEN root'[e][w] ELSE 0)
               = (IF hasClaimed[e][w] THEN root[e][w] ELSE 0)
  <2>1. hasClaimed[e][w] => published[e]
    BY DEF CoverInv, CoverOK
  <2> QED
    BY <2>1
<1> QED
  BY <1>1 DEF Paid

\* Two phases that differ at one board only.
LEMMA PhaseAdvance ==
    ASSUME NEW e \in Epochs, NEW from, NEW to, Phase(e) = from, Phase(e)' = to,
           \A d \in Epochs \ {e} : Phase(d)' = Phase(d)
    PROVE  Payout!Advance(e, from, to)
BY DEF Payout!Advance, Phases

LEMMA CreatePayout ==
    ASSUME CoverInv, NEW e \in Epochs, NEW matt \in Pools, NEW days, CreateDraft(e, matt, days)
    PROVE  PayoutStep
<1>1. /\ status[e] = "none" /\ status' = [status EXCEPT ![e] = "draft"]
      /\ plan' = [plan EXCEPT ![e] = Entries(snapshot[e], matt)]
      /\ UNCHANGED <<closed, published, root, hasClaimed>>
  BY DEF CreateDraft, Draftable, contract, terms, claims
<1>0. IsTable(status) /\ IsTable(plan)
  BY DEF CoverInv, PipeInv, Tables
<1>2. /\ status'[e] = "draft"
      /\ \A d \in Epochs \ {e} : status'[d] = status[d] /\ plan'[d] = plan[d]
  BY <1>0, <1>1 DEF IsTable
<1>3. ~published[e] /\ ~closed[e]
  BY <1>1 DEF CoverInv, PipeInv, DraftOK, Approved, CoverOK
<1>4. Phase(e) = "none" /\ Phase(e)' = "draft"
  BY <1>1, <1>2, <1>3 DEF Phase
<1>5. \A d \in Epochs \ {e} : Phase(d)' = Phase(d)
  BY <1>1, <1>2 DEF Phase
<1>6. Payout!Advance(e, "none", "draft")
  BY <1>4, <1>5, PhaseAdvance
<1>7. Paid' = Paid
  BY <1>1, PaidKept
<1>8. Payout!Draft(e)
  BY <1>2, <1>6, <1>7 DEF Payout!Draft
<1> QED
  BY <1>8 DEF PayoutStep, Payout!Next

\* The first approval advances the draft, a repeated one changes nothing.
LEMMA ApprovePayout ==
    ASSUME CoverInv, NEW e \in Epochs, ApproveDraft(e)
    PROVE  PayoutStep
<1>1. /\ status[e] \in {"draft", "approved"} /\ status' = [status EXCEPT ![e] = "approved"]
      /\ UNCHANGED <<closed, published, root, hasClaimed, plan>>
  BY DEF ApproveDraft, Approvable, contract, terms, claims
<1>0. IsTable(status)
  BY DEF CoverInv, PipeInv, Tables
<1>2. status'[e] = "approved" /\ \A d \in Epochs \ {e} : status'[d] = status[d]
  BY <1>0, <1>1 DEF IsTable
<1>3. Paid' = Paid
  BY <1>1, PaidKept
<1>4. CASE status[e] = "draft"
  <2>1. ~published[e] /\ ~closed[e]
    BY <1>4 DEF CoverInv, PipeInv, DraftOK, Approved, CoverOK
  <2>2. Phase(e) = "draft" /\ Phase(e)' = "approved"
    BY <1>1, <1>2, <1>4, <2>1 DEF Phase
  <2>3. \A d \in Epochs \ {e} : Phase(d)' = Phase(d)
    BY <1>1, <1>2 DEF Phase
  <2>4. Payout!Approve(e)
    BY <1>1, <1>3, <2>2, <2>3, PhaseAdvance DEF Payout!Approve
  <2> QED
    BY <2>4 DEF PayoutStep, Payout!Next
<1>5. CASE status[e] = "approved"
  <2>1. \A d \in Epochs : Phase(d)' = Phase(d)
    BY <1>1, <1>2, <1>5 DEF Phase
  <2>2. Phases' = Phases
    BY <2>1 DEF Phases
  <2> QED
    BY <1>1, <1>3, <2>2 DEF PayoutStep
<1> QED
  BY <1>1, <1>4, <1>5

\* The executed file puts an approved draft live.
LEMMA ExecutePayout ==
    ASSUME CoverInv, CoverInv', NEW e \in Epochs, NEW funding, ExecuteFile(e, funding)
    PROVE  PayoutStep
<1>1. /\ funding \in files[e] /\ ~published[e]
      /\ root' = [root EXCEPT ![e] = plan[e]]
      /\ published' = [published EXCEPT ![e] = TRUE]
      /\ UNCHANGED <<closed, hasClaimed, status, plan>>
  BY DEF ExecuteFile, Publish, Publishable, claims, server, drafts
<1>0. IsTable(published) /\ IsTable(root)
  BY DEF CoverInv, PipeInv, Tables
<1>2. published'[e] /\ \A d \in Epochs \ {e} : published'[d] = published[d] /\ root'[d] = root[d]
  BY <1>0, <1>1 DEF IsTable
<1>3. status[e] = "approved" /\ ~closed[e]
  BY <1>1 DEF CoverInv, PipeInv, DraftOK, Approved, CoverOK
<1>4. Phase(e) = "approved" /\ Phase(e)' = "live"
  BY <1>1, <1>2, <1>3 DEF Phase
<1>5. \A d \in Epochs \ {e} : Phase(d)' = Phase(d)
  BY <1>1, <1>2 DEF Phase
<1>6. Paid' = Paid
  BY <1>1, <1>2, PaidKept
<1>7. Payout!GoLive(e)
  BY <1>1, <1>4, <1>5, <1>6, PhaseAdvance DEF Payout!GoLive
<1> QED
  BY <1>7 DEF PayoutStep, Payout!Next

LEMMA RecoverPayout ==
    ASSUME CoverInv, NEW e \in Epochs, RecoverExpiredRewards(e), UNCHANGED server
    PROVE  PayoutStep
<1>1. /\ published[e] /\ ~closed[e] /\ closed' = [closed EXCEPT ![e] = TRUE]
      /\ UNCHANGED <<root, published, hasClaimed, status, plan>>
  BY DEF RecoverExpiredRewards, Open, terms, claims, server, drafts
<1>2. closed'[e] /\ \A d \in Epochs \ {e} : closed'[d] = closed[d]
  BY <1>1, TableWrite, SMTT(30) DEF CoverInv, MoreTables
<1>3. Phase(e) = "live" /\ Phase(e)' = "closed"
  BY <1>1, <1>2 DEF Phase
<1>4. \A d \in Epochs \ {e} : Phase(d)' = Phase(d)
  BY <1>1, <1>2 DEF Phase
<1>5. Paid' = Paid
  BY <1>1, PaidKept
<1>6. Payout!Close(e)
  BY <1>1, <1>3, <1>4, <1>5, PhaseAdvance DEF Payout!Close
<1> QED
  BY <1>6 DEF PayoutStep, Payout!Next

\* A claim pays what the approved draft owes, once.
LEMMA ClaimPayout ==
    ASSUME CoverInv, NEW e \in Epochs, NEW w \in Wallets, Claim(e, w), UNCHANGED server
    PROVE  PayoutStep
<1>1. /\ published[e] /\ ~closed[e] /\ ~hasClaimed[e][w] /\ root[e][w] > 0
      /\ hasClaimed' = [hasClaimed EXCEPT ![e] = [hasClaimed[e] EXCEPT ![w] = TRUE]]
      /\ UNCHANGED <<closed, published, root, status, plan>>
  BY DEF Claim, Claimable, Open, BookClaim, terms, server, drafts
<1>0. IsTable(hasClaimed)
  BY DEF CoverInv, MoreTables
<1>2. /\ hasClaimed'[e] = [hasClaimed[e] EXCEPT ![w] = TRUE]
      /\ \A d \in Epochs \ {e} : hasClaimed'[d] = hasClaimed[d]
  BY <1>0, <1>1 DEF IsTable
<1>3. hasClaimed[e] \in [Wallets -> BOOLEAN] /\ root[e] = plan[e]
  BY <1>1, PublishedPlan DEF CoverInv, CoverOK
<1>4. Phases' = Phases /\ Phases[e] = "live"
  BY <1>1, PhaseKept DEF Phases, Phase
<1>5. Paid[e][w] = 0
  BY <1>1 DEF Paid
<1>6. Paid' = [Paid EXCEPT ![e][w] = plan[e][w]]
  <2>1. ASSUME NEW d \in Epochs, NEW v \in Wallets
        PROVE  Paid'[d][v] = IF d = e /\ v = w THEN plan[e][w] ELSE Paid[d][v]
    BY <1>1, <1>2, <1>3 DEF Paid
  <2>2. /\ Paid' = [d \in Epochs |-> [v \in Wallets |-> Paid'[d][v]]]
        /\ Paid = [d \in Epochs |-> [v \in Wallets |-> Paid[d][v]]]
    BY DEF Paid
  <2>3. ASSUME NEW P, NEW Q, P = [d \in Epochs |-> [v \in Wallets |-> P[d][v]]],
               Q = [d \in Epochs |-> [v \in Wallets |-> Q[d][v]]], NEW x,
               \A d \in Epochs, v \in Wallets :
                  Q[d][v] = IF d = e /\ v = w THEN x ELSE P[d][v]
        PROVE  Q = [P EXCEPT ![e] = [P[e] EXCEPT ![w] = x]]
    <3> DEFINE R == [P EXCEPT ![e] = [P[e] EXCEPT ![w] = x]]
    <3>1. R = [d \in Epochs |-> R[d]] /\ \A d \in Epochs : d # e => R[d] = P[d]
      BY <2>3
    <3>2. R[e] = [P[e] EXCEPT ![w] = x]
      BY <2>3
    <3>3. ASSUME NEW d \in Epochs PROVE Q[d] = R[d]
      <4>1. P[d] = [v \in Wallets |-> P[d][v]] /\ Q[d] = [v \in Wallets |-> Q[d][v]]
        BY <2>3
      <4>2. CASE d # e
        <5>1. \A v \in Wallets : Q[d][v] = P[d][v]
          BY <2>3, <4>2
        <5> QED
          BY <3>1, <4>1, <4>2, <5>1
      <4>3. CASE d = e
        <5>1. \A v \in Wallets : Q[d][v] = R[d][v]
          BY <2>3, <3>2, <4>1, <4>3
        <5>2. R[d] = [v \in Wallets |-> R[d][v]]
          BY <3>2, <4>1, <4>3
        <5> QED
          BY <4>1, <5>1, <5>2
      <4> QED
        BY <4>2, <4>3
    <3> HIDE DEF R
    <3>4. Q = [d \in Epochs |-> R[d]]
      BY <2>3, <3>3
    <3> QED
      BY <3>1, <3>4 DEF R
  <2> QED
    BY <2>1, <2>2, <2>3
<1>7. Payout!Pay(e, w)
  BY <1>1, <1>3, <1>4, <1>5, <1>6 DEF Payout!Pay
<1> QED
  BY <1>7 DEF PayoutStep, Payout!Next

\* A board's promise is not touched by the rest of the server and of the vault.
LEMMA OthersPayout ==
    ASSUME CoverInv, UNCHANGED <<closed, published, status, plan, hasClaimed, root>>
    PROVE  PayoutStep
<1>1. Phases' = Phases /\ Paid' = Paid
  BY PhaseKept, PaidKept
<1> QED
  BY <1>1 DEF PayoutStep

LEMMA SyncPayout ==
    ASSUME CoverInv, NEW e \in Epochs, SyncDraft(e)
    PROVE  PayoutStep
<1>1. /\ published[e] /\ status' = [status EXCEPT ![e] = "published"]
      /\ UNCHANGED <<closed, published, root, hasClaimed, plan>>
  BY DEF SyncDraft, Syncable, OnChain, contract, terms, claims
<1>2. \A d \in Epochs \ {e} : status'[d] = status[d]
  BY <1>1, TableWrite DEF CoverInv, PipeInv, Tables
<1>3. \A d \in Epochs : Phase(d)' = Phase(d)
  BY <1>1, <1>2 DEF Phase
<1>4. Phases' = Phases /\ Paid' = Paid
  BY <1>1, <1>3, PaidKept DEF Phases
<1> QED
  BY <1>1, <1>4 DEF PayoutStep

LEMMA PayoutNext == CoverInv /\ CoverInv' /\ [Next]_pipeVars => PayoutStep
<1> SUFFICES ASSUME CoverInv, CoverInv', [Next]_pipeVars PROVE PayoutStep
  OBVIOUS
<1>1. CASE Bystander /\ UNCHANGED server
  <2>1. CASE \E e \in Epochs, w \in Wallets : Claim(e, w)
    BY <1>1, <2>1, ClaimPayout
  <2>2. CASE \E e \in Epochs : RecoverExpiredRewards(e)
    BY <1>1, <2>2, RecoverPayout
  <2>3. CASE \/ Tick \/ \E amount \in 1..outside : Deposit(amount)
             \/ \E amount \in 1..Available : RecoverUnallocatedRewards(amount)
             \/ \E t \in Treasuries : SetReserveTreasury(t)
             \/ \E p \in BOOLEAN : SetPaused(p)
    <3>1. UNCHANGED <<terms, claims, closed>>
      BY <2>3 DEF Tick, Deposit, RecoverUnallocatedRewards, SetReserveTreasury, SetPaused, contract
    <3> QED
      BY <1>1, <3>1, OthersPayout DEF terms, claims, server, drafts
  <2> QED
    BY <1>1, <2>1, <2>2, <2>3 DEF Bystander
<1>2. ASSUME NEW e \in Epochs,
             \/ \E ranking \in Rankings : FinalizeSnapshot(e, ranking)
             \/ ReadBalance(e) \/ ReadReserved(e) \/ PrepareFile(e) \/ ApprovalFails(e)
      PROVE  PayoutStep
  BY <1>2, OthersPayout DEF FinalizeSnapshot, ReadBalance, ReadReserved, PrepareFile,
                            ApprovalFails, contract, terms, claims, drafts
<1>3. CASE UNCHANGED pipeVars
  BY <1>3, OthersPayout DEF pipeVars, contract, terms, claims, server, drafts
<1> QED
  BY <1>1, <1>2, <1>3, CreatePayout, ApprovePayout, SyncPayout, ExecutePayout DEF Next

\* Every board is drafted once, approved as drafted, put live once as approved,
\* paid as the draft says and closed for good.
THEOREM PipelineIsPayout == Spec => ImplementsPayout
BY PayoutInit, PayoutNext, CoverInvariance, PTL
DEF Spec, ImplementsPayout, PayoutStep, Payout!Spec, Payout!payoutVars
=============================================================================

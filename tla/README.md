# MATT MINE: a verification project

MATT MINE is a browser game with money around it. Players mine crystals in
short runs; a Node server replays what they did and decides what a run was
worth; Solidity contracts on Ronin hold the money, the Miner NFTs and the
prizes. This directory holds TLA+ models of the parts where money, an entry, an
NFT or a running process could be lost, doubled or stuck, TLC configurations
that check them on small instances, and TLAPS proofs of the properties that
matter most. Paths below are relative to the repository (`src/` here is its
root).

## 1. The system

### Components

| component | code | state it keeps | operations | talks to | modelled |
|---|---|---|---|---|---|
| Daily arena contract | `contracts/src/MattMineDailyArena.sol` | days, numbered entries, fees and refunds per wallet, one reserve total | schedule, seed, enter, settle, cancel, refund, recover excess, pauses, treasury | MATT token; read by the arena service | `DailyArena` |
| Arena runs (server) | `server/arena-service.js`, `server/arena-store.js` | tables entries, runs, events, best_scores | confirm an entry, start, append, finish, abandon, expire, roll back, end by an administrator | PostgreSQL, arena contract, NFT gameplay service | `ArenaRuns`, partly |
| Arena days and settlement (server) | `server/arena-service.js`, `arena-store.js`, `arena-settlement.js` | tables days, snapshots, settlement and admin drafts | prepare a day and top-ups, bring a day up to Ronin, rank and freeze it, split the pool | PostgreSQL, arena contract, Treasury Safe | `ArenaDays`, partly |
| NFT run orchestration, administrative termination | `server/complete-production-service.js`, `server/nft-gameplay-service.js`, `server/service.js` | in-flight requests, the operator's transaction queue, reservations | begin, settle, cancel and recover a Miner's run, reserve and end runs | Ronin, lifecycle lock, all run stores | `ArenaRuns`, `PaidRuns`, `EndlessSessions`, partly |
| NFT lifecycle lock | `server/database.js` (AsyncReadWriteGate, withNftLifecycle...) | readers, writer, queue; PostgreSQL advisory locks | start (shared), mutation (exclusive) | every operation that locks or releases a Miner | `NftLifecycleLock` |
| Miner, equipment, loadout | `contracts/src/nftv2/MattV2Miner.sol`, `MattV2Equipment.sol`, `MattV2Loadout.sol` | owners, run lock, slots, custody, damage | transfer, equip, unequip, repair, death | the two settlements | `MinerLoadout` |
| Run settlement | `contracts/src/nftv2/MattV2GameSettlement.sol`, `MattV2EndlessSettlement.sol` | versions, active runs, nonces, processed runs, daily totals | begin, checkpoint, settle, release, force-abandon, version and pause control | Miner, loadout, bank, passive rewards | `RunSettlement` |
| Crystal bank | `contracts/src/nftv2/MattV2CrystalBank.sol` | credits, balances, withdrawal windows | credit, withdraw, limits | settlements | `RunSettlement` |
| Reward vault | `contracts/src/MattMineRewards.sol` | epochs, claims, reserve total | fund, publish, claim, recover expired or unallocated, pauses | MATT token | `MineRewards` |
| Reward pipeline | `server/reward-manager.js`, `reward-store.js`, `reward-chain.js`, `reward-plan.js` | snapshots, drafts, approvals, Safe files | snapshot, draft, two approvals, file, synchronise | vault, Treasury Safe, RPC | `RewardPipeline`, `RewardPlan` |
| Endless sessions | `server/endless-service.js`, `endless-settlement-service.js` | Endless runs with their phases and tokens, pending settlements | start, phase, bank, resume, retry, abandon, terminate, recover | Endless settlement contract, database | `EndlessSessions`, partly |
| Paid ranked runs and revives | `server/service.js`, `complete-production-service.js`, `bonus-engine.js` | the state document: runs, credits, revive quotes, the Crystal ledger | start, revive, finish, abandon, recover, terminate | Ronin, lock | `PaidRuns`, partly |
| Replay sessions | `server/competitive-replay-service.js`, `-store.js` | journals of inputs | register, append, finalize | run services | no |
| Random words | `contracts/src/nft/MattMineVRFV25Adapter.sol` | requests, kept words, outstanding count | request, answer, retry, cancel | VRF coordinator, its consumer | `VrfAdapter` |
| Chests | `contracts/src/nftv2/MattV2Chest.sol` | pending chests, escrowed MATT, prices, pools, versions | buy (one or several), open, refund, configure | adapter, equipment, MATT | `Chests`, `VrfRewards` |
| Passive rewards | `contracts/src/nftv2/MattV2PassiveRewards.sol` | rates, activity intervals, processed days | record a play, ask for a rate, assign it, pay a day | adapter, Miner's owners, bank | `PassiveRewards`, `VrfRewards` |
| Upgrade timelock | `contracts/src/nftv2/MattV2UpgradeTimelock.sol` | scheduled operations | schedule, cancel, execute | the V2 contracts | planned |
| Passes and paid runs (contracts) | `contracts/src/MattMinePass.sol`, `MattMineRuns.sol`, `MattMineSwapExecutor.sol` | expiry, daily counts, price | purchase, price and destination control | swap router, vault | planned |
| Payment verifiers, chain readers, metadata, monitor, HTTP, admin pages, browser game, scripts, first NFT generation | see PROJECT.json | | | | no, section 8 |

### How they interact

A wallet pays an arena entry in the contract; the server confirms the payment
once, consumes the entry for a run and has the operator lock the player's Miner
on Ronin. Events come in batches and are replayed at the end; the score goes to
the table and the Miner is settled on Ronin. After 00:00 UTC the day is
finalized and an administrator settles or cancels the contract's day. Weekly
boards go another way: a snapshot becomes a draft, two people approve it, the
server writes a transaction file for the Treasury Safe from what it reads of the
vault, the Safe executes it later, and winners claim. Ranked runs are paid with
credits and kept in one state document; Endless runs are anchored on Ronin phase
by phase, from inside the database transaction that stores the phase. Chests and
passive rates wait for a random word that an adapter asks for, keeps if its
consumer cannot take it, and lets the buyer cancel after a day. Every operation that
starts a Miner's run takes the lifecycle lock shared, every operation that takes
Miners away from runs takes it alone.

### What is hard here, and the properties it calls for

- *Shared balances.* The arena and the vault keep many pools in one token
  balance with a running total: solvency, agreement of the books, exact payout.
- *Two sources of truth.* A row and a transaction change separately, each may
  fail, arrive late or be unknown: an entry counts one attempt, an ended run has
  released its Miner, what is published is what was approved.
- *Handlers between awaits.* Tabs, retries, administrators and players
  interleave: transcripts grow, the best score stands, a reservation holds.
- *Locks without timers.* Lost wake-ups, lost sessions, poisoned connections:
  exclusion, no lost wake-up, everybody served.
- *Answers that come late or never.* Random words, receipts, RPC answers: a
  chest is opened or refunded, a reward that was banked leaves the queue.
- *Nobody may be stuck.* Days close, refunds, prizes and Miners get out, runs end.
- *Boundaries.* Deadlines that include or exclude a second, rounding, daily caps
  of several versions, the level that is crossed once, the second a day ends.

PROJECT.json lists each hazard at its line with the properties that cover it, or
why none does.

## 2. Modules

| module | what it is |
|---|---|
| `Sums` | when a number is the sum of a function over 1..n, without recursion |
| `PrizeEscrow` | abstract: pools that are filled, then paid out whole or refunded whole |
| `DailyArena` | the arena contract |
| `WeeklyPayout` | abstract: a board is decided once, goes live on those terms, pays each winner at most once |
| `MineRewards` | the reward vault contract |
| `RewardPlan` | the split of a pool in base units |
| `RewardPipeline` | server, approvers and Safe, extending `MineRewards` |
| `NftLifecycleLock` | the gate and the advisory lock, every await a step |
| `MinerLoadout` | Miner, equipment and loadout contracts |
| `RunSettlement` | both settlements and the bank, extending `MinerLoadout` |
| `ArenaRuns` | a day of arena runs on the server, with the Miner's run on Ronin |
| `ArenaDays` | the day itself on the server, from its preparation to its settlement, extending `DailyArena` |
| `EndlessSessions` | Endless runs of one Miner: server rows, handlers, Ronin |
| `PaidRuns` | ranked runs of one wallet, with their credits and revives |
| `VrfAdapter` | requests for random words, extended by the two consumers |
| `Chests`, `PassiveRewards` | the two consumers of random words |
| `VrfRewards` | both over their adapters, one coordinator and one clock |
| `SumsTheorems`, `*_proofs` | lemmas and theorems |
| `MC*` | values of the constants for TLC |

**`DailyArena`** has one action per external function. `status`, `fee`,
`reservedMatt`, `seededMatt`, `settledMatt`, `refundedMatt` are the fields of
`Day`, the `wallet...` variables those of `WalletDay`, `totalReserved` is
`totalReservedMatt`; `balance`, `purse` and `treasury` are the token. A
call that would revert is not enabled. Stray transfers and the clock are actions.

**`NftLifecycleLock`** follows a request through `phase`: in the gate's queue,
connecting, waiting for PostgreSQL, inside, unlocking. `activeReaders`,
`activeWriter` and `waiting` are the gate's fields; `locked`, `pgWaiting`,
`lost` and `closed` are PostgreSQL's side of a session. A request's finally
blocks are part of its steps. `lockPool` says whether a pool was configured.

**`RunSettlement`** keeps the set of active runs with what each started from,
for both contracts, above `MinerLoadout`, whose operators for locking and death
are the calls into the three token contracts; a settlement is one atomic
transaction over all of them. Signatures are messages the operator may send in
any order, twice or late.

**`MineRewards`** is the vault, its publisher free to publish any allocation and
total. **`RewardPipeline`** adds per board the snapshot, the draft and its
approvals, an approval request in progress (`reading`, the balances it has read
so far), and the files given to the Safe. Each RPC answer is a step, the vault
moves in between, a file is executed when the signers get to it or never.

**`ArenaRuns`** has one variable per column of the tables it needs, `chain`, the
state of each run's transaction and lock on Ronin, and `request`, what each
handler in progress has read and still holds. One PostgreSQL transaction is one
step, and so is one answer from Ronin. A started transaction can be mined long
after it was sent, or never.

**`ArenaDays`** composes the server with the contract's own actions. `row` is the
stored day, `ranking` the frozen snapshot, `planned`, `topUps` and `settlement` the
files that wait for the Safe, which may execute each of them late and again.
`req` says where each request is between its awaits and what it has read:
`old` the row, `seen` the day on Ronin, `local` the status it will write, `board`
the ranking. `#ensureDay` and `#reconcileDay` are the steps that every kind of
request shares.

**`EndlessSessions`** has one variable per saved column of a run (`status`,
`digest`, `token`, `terminating`, `reward`, `payment`, and `signed`, the status
that the stored signature was made with), and Ronin's side: `chain`, the last
`anchored` digest and the `pool` of transactions that are sent and not mined;
`banked` holds the runs that a phase has banked, whatever becomes of them. A
digest is the sequence of plays it seals. `database.transact` locks the one
state row until its function returns, and start, checkpoint and abandon talk to
Ronin inside it: `DatabaseFree` is that lock, and a handler that fails or dies
there changes no row while its transaction may still be mined. `Rewards` is the
configuration flag without which nothing is locked or paid.

**`PaidRuns`** is the same for ranked runs: `credit` is an entitlement and the
run it was spent on, `link` the row's pending or attached Ronin run, `revive` and
`revived` the quote and the count, `banked` the wallet's Crystal ledger.
`Call` is what the operator's calls have in common (look at the Miner's active
run, send, wait), `why` is the handler that made it.

**`VrfAdapter`** keeps `requests` (the word, cancelled, fulfilled) and
`outstanding`. **`Chests`** and **`PassiveRewards`** extend it with the consumers'
storage, one action per external function; **`VrfRewards`** composes them:
`Answer` and `RetryFulfillment` are the adapter's call into its consumer, which
either takes the word or leaves it with the adapter.

## 3. Runs

| run | module, cfg | shows | distinct states |
|---|---|---|---|
| `daily_arena` | MCDailyArena, DailyArena | solvency, escrow refinement, days close, refunds arrive | 45 thousand |
| `lifecycle_lock` | MCNftLifecycleLock, NftLifecycleLock | exclusion, no lost wake-up, order, everybody served | 28 thousand |
| `runs_traded_miner` | MCRunSettlement, RunLocks | locks, snapshots and custody with one Miner traded by two players | 1.0 million |
| `runs_endless` | MCRunSettlement, RunBank | bank, daily caps, Miners get out | 506 thousand |
| `reward_pipeline` | MCRewardPipeline, RewardPipeline | approvals, publication, cover to the unit, payout refinement, liveness | 372 thousand |
| `arena_runs` | MCArenaRuns, ArenaRuns | attempts, scores, transcripts, terminations | 2.3 million |
| `arena_days` | MCArenaDays, ArenaDays | a day is settled by the one ranking that was frozen, over every entry | 2.7 million |
| `endless_sessions` | MCEndlessSessions, EndlessSessions | Ronin pays only what was banked, a payment starts one run, closed runs release, rows follow Ronin's checkpoints, Miners get free, the queue drains | 168 thousand |
| `paid_runs` | MCPaidRuns, PaidRuns | a start is refundable until its row is attached, one played run per credit, the ledger follows Ronin, ends are final | 2.4 million |
| `vrf_rewards` | MCVrfRewards, VrfRewards | escrow agrees with requests, chests end, days pay what was earned, to whom it was | 193 thousand |
| `arena_restored_entry` | MCArenaRuns, ArenaRestored | a counterexample (section 5) | |
| `paid_revive` | MCPaidRuns, PaidRevive | a counterexample (section 5) | |

### Bounds, and why they are enough

- *Arena contract*: one day, two wallets with two units of MATT, fees of one or
  two units, a seed, two treasuries, four ticks. A wallet can enter twice or pay
  a higher price once, prizes can be split, the cutoff and the end are passed.
  Several days share the balance; that is what the theorems cover, for any number.
- *Lock*: three starts and two terminations on two processes, two faults. A
  lost wake-up needs a writer between two groups of readers; a lost session needs
  one fault and one later request; two faults allow a fault in the recovery.
- *Settlement*: one Miner, two players, two items, one nonce for locks and
  trades; two Endless versions with different caps, two days and two nonces for
  the bank. A second Miner shares only the bank and the wallet caps.
- *Pipeline*: one board, two winners, pools of two and three units (so that
  rounding happens), two treasuries, a claim window of two, one outside unit that
  moves the vault between two reads. Two boards meet in the vault only; that the
  vault keeps them apart and that only approved boards reach it is proved for
  any number.
- *Arena runs*: one player, two entries, two runs, two handlers at a time,
  transcripts of two events, three ticks. Two handlers are two tabs, a
  retry beside its original, or an administrator beside a player; wallets meet
  only in the operator's queue. Entries and handlers are interchangeable, so the run
  uses their symmetry.
- *Arena days*: one day, two wallets, two requests, one price, a top-up, one
  score and one wallet that may be suspended. Two requests are a stale writer and
  a settlement, or two settlements with different suspensions; days share only
  the contract's balance, which `daily_arena` and its theorems cover.
- *Endless*: two runs, one payment, two handlers; the first phase of the first run
  is played with two results, as by two tabs or a retry. A second run with that
  payment comes from a start that was rolled back. Two phases are the first and
  the last. One token is lost and replaced. The four safety properties are proved
  for any number of runs, payments and handlers.
- *Paid runs*: two runs, Miners and credits and two handlers: a stale Miner run
  of one row is released by the start of the other, or belongs to another Miner.
  One revive per run; the invariants are proved for any limit.
- *Chests*: two requests (a batch of two, or two single ones), two adapters, two
  prices, versions and treasuries; the refund time is the whole clock, so that a
  chest bought at once can expire and a later one cannot.
- *Passive rewards*: one Miner, two wallets, two days of two seconds, a window of
  two seconds, one second until anyone may pay. Miners share nothing but a batch
  of payouts. The two consumers share only the coordinator and the clock, so
  `Deployments` explores behaviours with one of them at a time.

Deadlock is checked in `daily_arena`, `reward_pipeline` and `lifecycle_lock`.
Where it is off the model's clock or its supply of runs, requests or nonces
ends, and the system may stop.

## 4. Fairness

- `DailyArena!Fairness`: blocks are produced; a pauser lifts a settlement pause
  (weak: only its own transaction is needed); somebody who may close a day does so
  if it is possible again and again (strong: pauses come in between);
  wallets claim refunds. Role holders act on their own keys, and claims have no
  pause.
- `NftLifecycleLock!Fairness`: the event loop runs what it can, an operation
  under the lock ends, PostgreSQL grants, answers and notices closed
  connections. No caller has to come and no fault has to happen.
- `RunSettlement!LiveSpec`: time passes and a player abandons a run that can be
  abandoned; forceAbandon is the owner's own transaction.
- `RewardPipeline!Fairness`: an approver asks again, an RPC call is answered, the
  signers execute a file that would go through (strong: the vault's balance
  moves), the page is looked at, winners claim. `Calm`: requests fail and the
  vault is paused any number of times but not for ever. Time need not pass, so no
  property waits for a deadline.
- `EndlessSessions!Fairness`: a handler that has arrived goes on and some
  transaction is mined; a player whose Miner is locked asks for its recovery and
  a pending settlement is retried (strong: other handlers come and go).
  `Trouble`, that is restarts, lost answers and dropped transactions, ends.
- `VrfRewards!Fairness`: time passes; a buyer asks for the refund of an expired
  chest; anyone redelivers a kept word, asks again for a rate and pays a day that
  is open to anyone (strong: pauses come in between); the equipment and the
  passive contract do not stay paused. The coordinator answers the requests for
  rates, whose subscription is to be kept funded (`docs/NFT_V2_SPEC.md:148`),
  but owes the chests nothing, and no property of theirs relies on it.
- `ArenaRuns`, `ArenaDays` and `PaidRuns` state no fairness: their runs check safety
  only.

## 5. Findings

Each has a run that finds the counterexample.

1. **A restored arena entry cannot be played** (`arena_restored_entry`).
   `rollbackUnstartedNftRun` gives the entry back but keeps the expired row, and
   `runs.entry_id` is UNIQUE (`server/arena-store.js:1270`), so the next start
   with that entry always fails. The in-memory store used by
   `tests/arena.test.mjs:491` has no such index.
2. **A cancelled revive cannot be asked for again** (`paid_revive`).
   `createPendingRevive` keeps an earlier quote whatever its status
   (`server/bonus-engine.js:8`): after a cancellation the row awaits a quote that
   no payment confirms, and only a recovery of the Miner ends the run. The page
   tells the player "You can try again" (`src/main.js:2723`).

Also noted, without a run:

- A failed wait for the receipt together with an empty `activeRun` counts as
  "definitely not started" (`server/nft-gameplay-service.js:385`); the
  transaction may be mined afterwards and lock the Miner for a run that expired.
- The Safe can fund more than the shortfall: the amount is read when a file is
  made, not when it is executed (`server/reward-chain.js`).
- A ranked start whose row was attached keeps its credit even if the browser never
  gets the run. If only the answer of the attachment was lost, the Miner run is
  cancelled, `reconcilePendingPaidNftRun` refuses the row because it is not pending
  any more, that error is swallowed (`server/complete-production-service.js:629`), and
  the player reads "the Pass Mine credit was restored" (line 633), which it was not. If
  the registration fails (line 690), the Miner run is cancelled and the row expires,
  its credit spent. A recovery refunds only rows whose run is still pending (line 1128).
- While leaderboard submissions are paused, an Endless run is banked and paid but
  never ranked, also not later (`server/endless-service.js:435`, 454), and the answer to
  a repeated bank says by today's flag whether it was (line 1179).
- A death can bank XP in an Endless version that retains the XP of failed runs;
  `docs/NFT_V2_SPEC.md:71` says a death banks none.
- Two preparations of one day with different fees may cross: the row keeps the fee
  of the one, the file that is executed the other's (`server/arena-service.js:771`).
  From then on `#ensureDay` refuses the day and only `cancelDay` is left.
- `reconcileDay` writes the seed without the guard that the entry pool has
  (`server/arena-store.js:499`): after a late top-up an older reading can put the
  smaller seed back, a ranking frozen then promises a pool that `settleDay`
  refuses, and the draft is never made again: only `cancelDay` is left.
- A rejected Endless run can become active again when it is resumed
  (`server/endless-service.js:633`).
- A start settles the Miner run of a row that awaits a revive, which can still
  be revived then: two rows of a wallet are active
  (`server/complete-production-service.js:710`, `server/service.js:1268`).
- A chest bought by a contract that refuses NFTs cannot be delivered
  (`_safeMint`, `MattV2Equipment.sol:94`), and a request that has a word is
  not refunded.
- A passive request whose word never comes leaves its Miner without a rate:
  `MattV2PassiveRewards` has no cancellation.
- In the second in which a day ends, the order of a transfer and of another call
  decides whose day it is; from the next second on it stands.
- `docs/REWARD_PIPELINE_V12.md:9` says first place gets at most 30%, but the
  weights are normalised over the wallets that qualified, so with fewer than ten
  the first place gets more.

## 6. What is proved

TLAPS checks 60 results for every value of the constants that satisfies the
modules' ASSUMEs (bounds are naturals, fees and durations in order, finite
supplies; nothing about the code's behaviour). Every safety invariant and every
action property that a passing run checks is among them, and both refinements.
All need the same argument: an invariant that is inductive, `Init` implies it,
one lemma per group of actions that keeps it, and the property from it.

- *`DailyArena_proofs`.* What is claimed is solvency: the balance covers the
  total. Alone it is not inductive, because a refund or a settlement lowers both
  by different routes. `Inv` adds that the total is the sum of the days'
  reserves, each day's reserve is its entries and seed less its refunds, and
  each day's entries are the sum of what its wallets paid. From it: types,
  solvency, agreement of the books, covered refunds, whole payouts, the return
  of seeds, finality of closed days, and that the contract implements
  `PrizeEscrow`. The second part is about `ArenaDays`. That a frozen ranking
  counts every entry holds because of what a request knows while it waits:
  `ReqOK` says that what it read of the pool is never more than Ronin has, and is
  all of it once a settlement reads it after the day's end; `Grows` says what no
  step of anyone undoes, rows, pools and rankings only grow, so that it stays
  true. `SettledByFrozenRanking` adds that the prizes of a ranking, rounded down
  with the rest to the first place, give away the whole pool
  (`AllocationFillsPool`), however many wallets qualified.
- *`RewardPipeline_proofs`.* A file exists only for a draft with both approvals,
  and an epoch on Ronin carries the terms of its draft. Both are part of one
  invariant: a file outlives the request that made it. Its second part is about
  the vault alone: `Inv` ties `totalReserved` to the open epochs and each
  epoch's claims to its leaves, which gives types, solvency, both balances, claim
  windows and finality, against any publisher. The third part puts both
  together: the amounts of a plan add up to its pool (`AmountsFillPool`), so the
  vault keeps, for every epoch that came from a plan, exactly the leaves that
  were not claimed (`WinnersAreCovered`), and no claim is refused for want of
  MATT (`NoWinnerRefused`). The fourth shows step by step that server, Safe and
  vault implement `WeeklyPayout` (`PipelineIsPayout`).
- *`RunSettlement_proofs`.* Locks, snapshots, replay protection and custody are
  proved together: a run's snapshot stays valid only because the Miner is
  locked, and the lock is exact only because runs are not replayed. The bank
  rests on that: `BankInv` says that balances and withdrawals are the sum of the
  credited runs, that the totals of a day are the sums of that day, and what each
  active run may still be paid; a run is credited once because it is processed
  once. A withdrawal or a credit moves one term of a sum over a finite set. Types
  need both invariants (no balance, share or total falls below zero). The last part
  is the safety half of `MinersGetOut`: no run began in the future (`Waits`), so
  its deadline is never further away than the timeout; from then on the guard of
  `forceAbandon` holds, whatever is paused (`WayOutStands`), and only a further
  phase puts the deadline off, at most once for each (`OnlyPhasesProlong`).
- *`ArenaRuns_proofs`.* `ArenaInv` relates four things: the rows, the entries,
  Ronin and what every handler still holds. The rows alone are not inductive: a
  start that is about to attach its run must have its Miner on Ronin, a
  termination that is about to expire its run must have freed it for good, and a
  transaction that can still be mined must be the wallet's only one in force.
  `HandlerTakes` reduces each step to the rows, the one handler that moves and the
  stability of what the others know. From it: one attempt to an entry, the best
  score, released Miners, and the two action properties. Its last part is about
  `NftLifecycleLock`. `GateOK` says of each gate that its counters count who is
  inside, its queue is exactly those that wait, and somebody is inside who keeps
  the first of them out; with it, that sessions which hold the advisory lock
  agree (`LocksAgree`) and that who runs holds it or has lost its session
  (`RunnersLocked`). From it, for any number of processes, requests and faults:
  no lost wake-up, exclusion, and first come, first served. `SessionsOK` adds what
  PostgreSQL keeps for each request (`SessionAt`): a request is queued once, never
  while it holds the lock or has lost its session, and a lock or a place outlives its
  request only until PostgreSQL notices the destroyed connection. So nobody waits
  for an answer that cannot come, and no lock is orphaned (`NoLockOrphaned`).
- *`EndlessSessions_proofs`.* What is claimed relates rows to Ronin; what makes
  it inductive are two facts about what is in between. A transaction that is
  sent and still fits Ronin's state carries the row's own digest, or was sent by
  the one handler inside the database transaction, so whatever is mined, pays what
  a row banked. And a row that was signed as over takes no further phase.
  `HoldersOnlySave` is about two browsers: a phase is saved only for the one whose
  session token is in force, because a handler that sends a checkpoint keeps the
  others from its row until it is done (`AnchorsHold`), and a replaced token is above
  every token given out before.
- *`PaidRuns_proofs`.* `PaidInv` says what each handler holds and may rely on
  (`Knows`), and that a credit in use belongs to a row that was handed to the
  browser, that is attached to a run Ronin has, or that a recovery refunds; an
  attached row may keep its credit for nothing (section 5). A handler's knowledge is stable under every step of the other
  handlers; that is most of the proof.
- *`VrfRewards_proofs`.* Sums of the open chests and of the outstanding requests
  (`SumBlock` for a batch, `SumUpdate` for one), each request known to its own
  adapter only, a word that was delivered has come, and the version of an open
  chest frozen. From it: types, the escrow, and that a roll uses what the buyer
  saw. The second half is about the passive rewards. `PayoutIsEarned` counts
  seconds in which some play was recent, the contract adds up the overlaps of a
  few stored intervals; they agree because `recordActivity` keeps the intervals in
  order and apart (`Apart`), and extends the last one or begins another exactly
  when the union of seconds does (`GoesOn`, `Begins`). The owner at a
  day's end is that of the last checkpoint before it, and that is the wallet which
  had the Miner then because checkpoints are written in order (`InOrder`). `OwedStands` follows:
  once a day is over, new plays, transfers and rates write only after it. The last
  part is the safety half of the rate's liveness: `RateInv` matches the Miners that
  wait for a rate with the open requests of the rewards, one to one. A Miner at level
  100 is never forgotten and never asked for twice, whichever requests the coordinator
  refused and however often the adapter changed (`RatesCome`), and its rate is for
  good (`RatesStand`).
- *`SumsTheorems`.* How sums change when a term, or a block of terms, does, for
  the two forms the models use. `Sums` says what a sum is through the ladder of
  its partial sums; no induction is needed there, because the ladder of the new
  sum is the old one, shifted above the rung that changes. `SumFunctionOnSet` is a
  fold over a finite set. `SumIsTotal` shows what it computes by induction over
  finite sets, in the form of a least counterexample (`WFMin`, in a well-founded
  order), since the library's induction theorems take a predicate, which the
  prover cannot instantiate; `SplitFillsPool` is the common fact behind both prize
  lists.

Some theorems (the return of seeds, the finality of closed days and of published
epochs, the pinned rolls, the ways out, the types among them) state properties that no run
repeats. The theorems of a component cite its ASSUMEs only; what composes two
components by assumption is named in section 8.

## 7. What is only model-checked

Liveness under fairness (`DaysClose`, `RefundsPaid`, `EveryCallServed`,
`MinersGetOut`, `ApprovedIsPublished`, `WinnersPaid`, `MinerGetsFree`,
`QueueDrains`, `ChestsEnd`, `EarningsArrive`) is out of the prover's reach: it
needs ENABLED of the fair actions.

What these wait for is partly proved as safety: a Miner's deadline comes and its way
out is open (`WayOutStands`), nobody waits at the lock for nothing (`NoWakeupLost`,
`NoLockOrphaned`), and a rate that is due has its request (`RatesCome`).
The two counterexamples of section 5 are runs by their nature.

## 8. What is not modelled, and why

- Signatures, hashes, Merkle trees, RPC encodings: taken as what they promise.
- The replay of a transcript is a simulation of the game; a score is abstracted
  to the length of what was replayed.
- Role checks are "a holder may call"; pauses are modelled.
- The lifecycle lock inside `ArenaRuns`, `EndlessSessions` and `PaidRuns` is a guard that excludes.
  That the lock does is proved of `NftLifecycleLock`, by itself and with the one exception of a
  session that PostgreSQL lost; the modules are not composed.
- Consumables, pauses and ceilings of Endless and ranked runs: a request may be
  refused at any time. Two pauses do something else: paused rewards put a banked
  Endless run into the queue unpaid, which `Save` models, and paused submissions
  keep a result off the boards.
- The Endless leaderboards, which none of the handlers reads. Maps, scores and
  amounts are abstracted to outcomes.
- The ownership of the VRF adapters, gas limits, the proof of a word.
- The in-memory stores (tests and development only); the first NFT generation
  (the server refuses it); the browser game, pages, styles, assets and scripts.
- Read-only parts: metadata, chain readers, payment verifiers, monitor, HTTP.
- Audit records, quests, themes and the tuning editor.

## 9. Plan

Done, in this order: arena contract, lock, settlement, vault, pipeline, arena
runs, Endless sessions, paid runs, random words with chests and passive rewards,
arena days.
Next, most important first:

1. `ArenaRuns` composed with `ArenaDays`; the two lost days of section 5 as
   counterexample runs; liveness of arena and ranked runs.
2. `PassAndRuns` (purchases, the daily limit, the split of proceeds) and
   `UpgradeTimelock`.
3. The bulk termination of Endless and ranked runs beside the arena's, with
   `NftLifecycleLock` in place of the assumption that it excludes.
4. Proofs: the lock composed with a module that relies on it, so that the guard
   becomes a theorem; the split of proceeds and the queue of the timelock once they
   are modelled.

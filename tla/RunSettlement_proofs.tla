------------------------ MODULE RunSettlement_proofs ------------------------
(***************************************************************************)
(* A Miner's run lock, for every number of players, Miners, items, versions *)
(* and runs: a Miner is locked exactly while one run is active on it, in    *)
(* one of the two settlement contracts, and until that run ends its owner   *)
(* and its equipment are those the run started from.  Neither contract sees *)
(* the other's runs, so the argument goes through the lock: it refuses a    *)
(* second run, a transfer and a change of equipment, and it is released     *)
(* only together with the run it was taken for.                             *)
(*                                                                          *)
(* The second part is about the money: BankInv ties the balances, what was  *)
(* withdrawn and the totals of a day to the runs that were credited, and a  *)
(* run is credited once because it ends once.  The third part types the     *)
(* variables.                                                               *)
(***************************************************************************)
EXTENDS RunSettlement, SumsTheorems

USE LoadoutAssumption DEF Contracts

\* The runs of both contracts, as a table.
ActiveShape ==
    /\ active = [c \in Contracts |-> active[c]]
    /\ \A c \in Contracts : active[c] = [m \in Miners |-> active[c][m]]

\* One run: what it started from still holds, and it cannot be replayed.
RunOK(c, m) ==
    LET r == active[c][m]
    IN  r # NoRun =>
            /\ {"id", "gear"} \subseteq DOMAIN r /\ r.id # <<>>
            /\ minerOwner[m] = PlayerOf(r.id)
            /\ gear[m] = r.gear
            /\ r.id[1] = c /\ r.id[3] = m
            /\ r.id \notin processed
            /\ r.id[5] \in Nat /\ r.id[5] < nonces[c][PlayerOf(r.id)]

\* One Miner: its lock and its two possible runs.
LockOK(m) ==
    /\ locked[m] <=> active["standard"][m] # NoRun \/ active["endless"][m] # NoRun
    /\ active["standard"][m] = NoRun \/ active["endless"][m] = NoRun

(* The inductive invariant.  RunOK needs LockOK, because only the lock keeps *)
(* the owner and the equipment where they were; LockOK needs RunOK's id[3],  *)
(* because ending one Miner's run must leave the others' unprocessed.        *)
RunInv ==
    /\ LoadoutTypeOK
    /\ ActiveShape
    /\ nonces \in [Contracts -> [Players -> Nat]]
    /\ \A m \in Miners : LockOK(m)
    /\ \A c \in Contracts, m \in Miners : RunOK(c, m)

-----------------------------------------------------------------------------
(* The token contracts.                                                     *)

LEMMA LoadoutInitOK == LoadoutInit => LoadoutTypeOK /\ CustodyAgrees
<1> SUFFICES ASSUME LoadoutInit PROVE LoadoutTypeOK /\ CustodyAgrees
  OBVIOUS
<1>1. LoadoutTypeOK
  BY DEF LoadoutInit, LoadoutTypeOK, Bare
<1>2. CustodyAgrees
  BY DEF LoadoutInit, CustodyAgrees, Bare
<1> QED
  BY <1>1, <1>2

\* What an owner does leaves a locked Miner's owner and equipment alone.
LEMMA OwnerStep ==
    ASSUME LoadoutTypeOK, LoadoutNext
    PROVE  /\ LoadoutTypeOK' /\ locked' = locked
           /\ \A m \in Miners : locked[m] => minerOwner'[m] = minerOwner[m] /\ gear'[m] = gear[m]
<1>1. CASE \E m \in Miners, p \in Players : TransferMiner(m, p)
  BY <1>1 DEF LoadoutTypeOK, TransferMiner, Transferable
<1>2. CASE \E i \in Items, p \in Players : MintEquipment(i, p) \/ TransferEquipment(i, p)
  BY <1>2 DEF LoadoutTypeOK, MintEquipment, TransferEquipment
<1>3. CASE \E m \in Miners, i \in Items : Equip(m, i)
  BY <1>3 DEF LoadoutTypeOK, Equip, Editable
<1>4. CASE \E m \in Miners, s \in Slots : Unequip(m, s)
  BY <1>4 DEF LoadoutTypeOK, Unequip, Editable
<1>5. CASE \E m \in Miners : RepairArmor(m)
  BY <1>5 DEF LoadoutTypeOK, RepairArmor
<1>6. CASE SetLoadoutPaused
  BY <1>6 DEF LoadoutTypeOK, SetLoadoutPaused
<1> QED
  BY <1>1, <1>2, <1>3, <1>4, <1>5, <1>6 DEF LoadoutNext

\* A death, or none, leaves the loadouts of the other Miners alone.
LEMMA EndStep ==
    ASSUME LoadoutTypeOK, NEW m \in Miners, Death(m) \/ NoDeath, SetRunLocked(m, FALSE),
           UNCHANGED <<minerOwner, loadoutPaused>>
    PROVE  /\ LoadoutTypeOK' /\ locked'[m] = FALSE
           /\ \A n \in Miners : n # m => locked'[n] = locked[n] /\ gear'[n] = gear[n]
<1>1. CASE Death(m)
  BY <1>1 DEF LoadoutTypeOK, Death, StripBackpack, SetRunLocked
<1>2. CASE NoDeath
  BY <1>2 DEF LoadoutTypeOK, NoDeath, SetRunLocked
<1> QED
  BY <1>1, <1>2

\* With one slot per item, and one holder, every function keeps the three
\* contracts in agreement.
LEMMA CustodyStep ==
    ASSUME LoadoutTypeOK, CustodyAgrees, LoadoutNext
    PROVE  CustodyAgrees'
<1>1. ASSUME NEW m \in Miners, NEW p \in Players, TransferMiner(m, p) PROVE CustodyAgrees'
  BY <1>1 DEF CustodyAgrees, TransferMiner
<1>2. ASSUME NEW i \in Items, NEW p \in Players, MintEquipment(i, p) \/ TransferEquipment(i, p)
      PROVE  CustodyAgrees'
  BY <1>2 DEF LoadoutTypeOK, CustodyAgrees, MintEquipment, TransferEquipment
<1>3. ASSUME NEW m \in Miners, NEW i \in Items, Equip(m, i) PROVE CustodyAgrees'
  BY <1>3 DEF LoadoutTypeOK, CustodyAgrees, Equip
<1>4. ASSUME NEW m \in Miners, NEW s \in Slots, Unequip(m, s) PROVE CustodyAgrees'
  BY <1>4 DEF LoadoutTypeOK, CustodyAgrees, Unequip
<1>5. ASSUME (\E m \in Miners : RepairArmor(m)) \/ SetLoadoutPaused PROVE CustodyAgrees'
  BY <1>5 DEF CustodyAgrees, RepairArmor, SetLoadoutPaused
<1> QED
  BY <1>1, <1>2, <1>3, <1>4, <1>5 DEF LoadoutNext

LEMMA CustodyEnd ==
    ASSUME LoadoutTypeOK, CustodyAgrees, NEW m \in Miners, Death(m) \/ NoDeath
    PROVE  CustodyAgrees'
<1>1. CASE Death(m)
  BY <1>1 DEF LoadoutTypeOK, CustodyAgrees, Death, StripBackpack
<1>2. CASE NoDeath
  BY <1>2 DEF CustodyAgrees, NoDeath
<1> QED
  BY <1>1, <1>2

-----------------------------------------------------------------------------
(* The runs.                                                                *)

\* Writing one Miner's run writes no other.
LEMMA ActiveWrite ==
    ASSUME ActiveShape, NEW c \in Contracts, NEW m \in Miners, NEW r,
           active' = [active EXCEPT ![c][m] = r]
    PROVE  /\ ActiveShape'
           /\ active'[c][m] = r
           /\ \A d \in Contracts, n \in Miners : d # c \/ n # m => active'[d][n] = active[d][n]
  BY DEF ActiveShape

LEMMA InitOK == Init => RunInv /\ CustodyAgrees
<1> SUFFICES ASSUME Init PROVE RunInv /\ CustodyAgrees
  OBVIOUS
<1>1. LoadoutTypeOK /\ CustodyAgrees
  BY LoadoutInitOK DEF Init
<1>2. active = [c \in Contracts |-> [m \in Miners |-> NoRun]] /\ locked = [m \in Miners |-> FALSE]
  BY DEF Init, LoadoutInit
<1>3. ActiveShape
  BY <1>2 DEF ActiveShape
<1>4. nonces \in [Contracts -> [Players -> Nat]]
  BY DEF Init
<1>5. \A m \in Miners : LockOK(m)
  BY <1>2 DEF LockOK
<1>6. \A c \in Contracts, m \in Miners : RunOK(c, m)
  BY <1>2 DEF RunOK
<1> QED
  BY <1>1, <1>3, <1>4, <1>5, <1>6 DEF RunInv

\* A step that neither starts nor ends a run.
LEMMA Unlocking ==
    ASSUME RunInv, LoadoutTypeOK', UNCHANGED <<locked, active, nonces, processed>>,
           \A m \in Miners : locked[m] => minerOwner'[m] = minerOwner[m] /\ gear'[m] = gear[m]
    PROVE  RunInv'
<1>1. ASSUME NEW m \in Miners PROVE LockOK(m)'
  BY <1>1 DEF RunInv, LockOK
<1>2. ASSUME NEW c \in Contracts, NEW m \in Miners PROVE RunOK(c, m)'
  <2>1. RunOK(c, m) /\ LockOK(m)
    BY DEF RunInv
  <2> QED
    BY <2>1 DEF RunOK, LockOK
<1> QED
  BY <1>1, <1>2 DEF RunInv, ActiveShape

LEMMA BeginStep ==
    ASSUME RunInv, NEW c \in Contracts, NEW p \in Players, NEW m \in Miners, NEW v,
           NEW g, NEW n \in Nat, BeginRun(c, p, m, v, g, n)
    PROVE  RunInv'
<1> DEFINE r == [id |-> <<c, p, m, v, n>>, gear |-> g, since |-> now,
                 carry |-> Carry(m), retention |-> Retention(m),
                 phaseXp |-> IF c = "standard" THEN phaseXp[v] ELSE Terms[v].phaseXp,
                 phases |-> 0, mined |-> 0, digest |-> <<>>]
<1>1. /\ active' = [active EXCEPT ![c][m] = r]
      /\ nonces' = [nonces EXCEPT ![c][p] = n + 1]
      /\ locked' = [locked EXCEPT ![m] = TRUE]
      /\ ~locked[m] /\ minerOwner[m] = p /\ gear[m] = g
      /\ nonces[c][p] = n /\ <<c, p, m, v, n>> \notin processed
      /\ UNCHANGED <<minerOwner, holder, equippedTo, damaged, gear, loadoutPaused, processed>>
  BY DEF BeginRun, SetRunLocked, Startable, SignedGear, FreshRun
<1>2. r.id = <<c, p, m, v, n>> /\ r.gear = g /\ {"id", "gear"} \subseteq DOMAIN r /\ r # NoRun
      /\ r.id # <<>>
  <2>1. r.id = <<c, p, m, v, n>> /\ r.gear = g /\ {"id", "gear"} \subseteq DOMAIN r
    OBVIOUS
  <2>2. r.id # <<>>
    BY <2>1
  <2>3. r # NoRun
    BY <2>2 DEF NoRun
  <2> QED
    BY <2>1, <2>2, <2>3
<1> HIDE DEF r
<1>3. /\ ActiveShape' /\ active'[c][m] = r
      /\ \A d \in Contracts, k \in Miners : d # c \/ k # m => active'[d][k] = active[d][k]
  <2>1. ActiveShape
    BY DEF RunInv
  <2>2. active' = [active EXCEPT ![c][m] = r]
    BY <1>1
  <2> QED
    BY <2>1, <2>2 DEF ActiveShape
<1>4. LoadoutTypeOK'
  BY <1>1 DEF RunInv, LoadoutTypeOK
<1>5. nonces' \in [Contracts -> [Players -> Nat]] /\ nonces'[c][p] = n + 1
  BY <1>1 DEF RunInv
<1>6. \A d \in Contracts, q \in Players : d # c \/ q # p => nonces'[d][q] = nonces[d][q]
  BY <1>1 DEF RunInv
<1>7. \A k \in Miners : k # m => locked'[k] = locked[k]
  BY <1>1 DEF RunInv, LoadoutTypeOK
<1>8. locked'[m]
  BY <1>1 DEF RunInv, LoadoutTypeOK
<1>9. \A d \in Contracts : active[d][m] = NoRun
  BY <1>1 DEF RunInv, LockOK
<1>10. ASSUME NEW k \in Miners PROVE LockOK(k)'
  <2>1. LockOK(k)
    BY DEF RunInv
  <2> QED
    BY <1>2, <1>3, <1>7, <1>8, <1>9, <2>1 DEF LockOK
<1>11. ASSUME NEW d \in Contracts, NEW k \in Miners PROVE RunOK(d, k)'
  <2>1. CASE d = c /\ k = m
    <3>1. PlayerOf(r.id) = p /\ r.id[1] = c /\ r.id[3] = m /\ r.id[5] = n
      BY <1>2 DEF PlayerOf
    <3>2. active'[c][m] = r /\ minerOwner'[m] = p /\ gear'[m] = g /\ r.id \notin processed'
      BY <1>1, <1>2, <1>3
    <3> QED
      BY <1>2, <1>5, <2>1, <3>1, <3>2, n < n + 1 DEF RunOK
  <2>2. CASE d # c \/ k # m
    <3>1. active'[d][k] = active[d][k] /\ RunOK(d, k)
      BY <1>3, <2>2 DEF RunInv
    <3>2. minerOwner[k] \in Players
      BY DEF RunInv, LoadoutTypeOK
    <3>3. \A q \in Players : nonces[d][q] \in Nat /\ nonces'[d][q] >= nonces[d][q]
      BY <1>1, <1>5, <1>6 DEF RunInv
    <3>4. ASSUME active[d][k] # NoRun
          PROVE  nonces[d][PlayerOf(active[d][k].id)] <= nonces'[d][PlayerOf(active[d][k].id)]
                 /\ nonces[d][PlayerOf(active[d][k].id)] \in Nat
                 /\ nonces'[d][PlayerOf(active[d][k].id)] \in Nat
      BY <3>1, <3>2, <3>3, <3>4, <1>5 DEF RunOK
    <3> QED
      BY <1>1, <3>1, <3>4 DEF RunOK
  <2> QED
    BY <2>1, <2>2
<1> QED
  BY <1>3, <1>4, <1>5, <1>10, <1>11 DEF RunInv

\* Ending a run: by a result of either contract or by the player's own way out.
LEMMA EndRun ==
    ASSUME RunInv, NEW c \in Contracts, NEW m \in Miners, active[c][m] # NoRun,
           Close(c, m), Death(m) \/ NoDeath, SetRunLocked(m, FALSE),
           UNCHANGED <<minerOwner, loadoutPaused, nonces>>
    PROVE  RunInv'
<1>1. /\ LoadoutTypeOK' /\ ~locked'[m]
      /\ \A k \in Miners : k # m => locked'[k] = locked[k] /\ gear'[k] = gear[k]
  BY EndStep DEF RunInv
<1>2. processed' = processed \cup {active[c][m].id}
  BY DEF Close
<1>3. /\ ActiveShape' /\ active'[c][m] = NoRun
      /\ \A d \in Contracts, k \in Miners : d # c \/ k # m => active'[d][k] = active[d][k]
  <2>1. ActiveShape
    BY DEF RunInv
  <2>2. active' = [active EXCEPT ![c][m] = NoRun]
    BY DEF Close
  <2> QED
    BY <2>1, <2>2 DEF ActiveShape
<1>4. \A d \in Contracts : active'[d][m] = NoRun
  BY <1>3 DEF RunInv, LockOK
<1>5. active[c][m].id[3] = m
  BY DEF RunInv, RunOK
<1>6. ASSUME NEW k \in Miners PROVE LockOK(k)'
  <2>1. LockOK(k)
    BY DEF RunInv
  <2> QED
    BY <1>1, <1>3, <1>4, <2>1 DEF LockOK
<1>7. ASSUME NEW d \in Contracts, NEW k \in Miners PROVE RunOK(d, k)'
  <2>1. CASE k = m
    BY <1>4, <2>1 DEF RunOK
  <2>2. CASE k # m
    <3>1. RunOK(d, k) /\ active'[d][k] = active[d][k] /\ gear'[k] = gear[k]
      BY <1>1, <1>3, <2>2 DEF RunInv
    <3> QED
      BY <1>2, <1>5, <2>2, <3>1 DEF RunOK
  <2> QED
    BY <2>1, <2>2
<1> QED
  BY <1>1, <1>3, <1>6, <1>7 DEF RunInv

LEMMA CheckpointStep ==
    ASSUME RunInv, NEW m \in Miners, NEW id, NEW d, NEW e, NEW n, NEW k,
           Checkpoint(m, id, d, e, n, k)
    PROVE  RunInv'
<1> DEFINE r == active["endless"][m]
           s == [r EXCEPT !.digest = e, !.phases = n, !.mined = k, !.since = now]
<1>1. /\ active' = [active EXCEPT !["endless"][m] = s] /\ r # NoRun
      /\ UNCHANGED <<tokenVars, nonces, processed>>
  BY DEF Checkpoint, ForActive
<1>2. RunOK("endless", m)
  BY DEF RunInv
<1>3. DOMAIN s = DOMAIN r /\ s.id = r.id /\ s.gear = r.gear
  BY <1>1, <1>2 DEF RunOK
<1>4. r.id # <<>>
  BY <1>1, <1>2 DEF RunOK
<1>5. s # NoRun
  BY <1>3, <1>4 DEF NoRun
<1> HIDE DEF s
<1>6. /\ ActiveShape' /\ active'["endless"][m] = s
      /\ \A x \in Contracts, y \in Miners : x # "endless" \/ y # m => active'[x][y] = active[x][y]
  BY <1>1, ActiveWrite DEF RunInv
<1>7. ASSUME NEW y \in Miners PROVE LockOK(y)'
  <2>1. LockOK(y)
    BY DEF RunInv
  <2> QED
    BY <1>1, <1>5, <1>6, <2>1 DEF LockOK, tokenVars
<1>8. ASSUME NEW x \in Contracts, NEW y \in Miners PROVE RunOK(x, y)'
  <2>1. RunOK(x, y)
    BY DEF RunInv
  <2> QED
    BY <1>1, <1>2, <1>3, <1>6, <2>1 DEF RunOK, tokenVars
<1> QED
  BY <1>1, <1>6, <1>7, <1>8 DEF RunInv, LoadoutTypeOK, tokenVars

-----------------------------------------------------------------------------
(* Every step.                                                              *)

\* What the ways of ending a run have in common.
Ends(c, m) ==
    /\ active[c][m] # NoRun
    /\ Close(c, m) /\ (Death(m) \/ NoDeath) /\ SetRunLocked(m, FALSE)
    /\ UNCHANGED <<minerOwner, loadoutPaused, nonces>>

LEMMA SettleRunEnds ==
    ASSUME NEW m \in Miners, NEW id, NEW o, NEW n, NEW k, SettleRun(m, id, o, n, k)
    PROVE  Ends("standard", m)
<1>1. Death(m) \/ NoDeath
  BY DEF SettleRun
<1> QED
  BY <1>1 DEF SettleRun, ForActive, Ends

LEMMA SettleEndlessEnds ==
    ASSUME NEW m \in Miners, NEW id, NEW o, NEW d, NEW n, NEW k, SettleEndless(m, id, o, d, n, k)
    PROVE  Ends("endless", m)
<1>1. Death(m) \/ NoDeath
  BY DEF SettleEndless, SettlePhases
<1> QED
  BY <1>1 DEF SettleEndless, ForActive, Ends

LEMMA AbandonEnds ==
    ASSUME NEW c \in Contracts, NEW m \in Miners, ForceAbandon(c, m)
    PROVE  Ends(c, m)
  BY DEF ForceAbandon, Abandonable, Ends

\* Steps that leave Miners, runs and nonces alone.
Elsewhere == UNCHANGED <<tokenVars, active, nonces, processed>>

LEMMA QuietSteps ==
    ASSUME \/ \E v \in Versions : ApproveVersion(v) \/ RetireVersion(v)
           \/ \E v \in StandardVersions, x \in PhaseXpChoices : SetMapPhaseXp(v, x)
           \/ \E c \in Pausable : SetPaused(c)
           \/ \E p \in Players, a \in Extracts : Withdraw(p, a)
           \/ \E k \in LimitChoices : SetWithdrawalConfiguration(k)
           \/ Tick
           \/ UNCHANGED vars
    PROVE  Elsewhere
  BY DEF ApproveVersion, RetireVersion, SetMapPhaseXp, SetPaused, Withdraw,
         SetWithdrawalConfiguration, Tick, vars, runVars, Elsewhere

Inv == RunInv /\ CustodyAgrees

LEMMA QuietKeep == ASSUME Inv, Elsewhere PROVE Inv'
<1>1. LoadoutTypeOK' /\ CustodyAgrees'
  BY DEF Inv, RunInv, Elsewhere, tokenVars, LoadoutTypeOK, CustodyAgrees
<1>2. RunInv'
  BY <1>1, Unlocking DEF Inv, Elsewhere, tokenVars
<1> QED
  BY <1>1, <1>2 DEF Inv

LEMMA EndsKeep ==
    ASSUME Inv, NEW c \in Contracts, NEW m \in Miners, Ends(c, m) PROVE Inv'
<1>1. RunInv'
  BY EndRun DEF Inv, Ends
<1>2. CustodyAgrees'
  BY CustodyEnd DEF Inv, RunInv, Ends
<1> QED
  BY <1>1, <1>2 DEF Inv

LEMMA BeginKeeps ==
    ASSUME Inv, NEW c \in Contracts, NEW p \in Players, NEW m \in Miners, NEW v, NEW g,
           NEW n \in Nat, BeginRun(c, p, m, v, g, n)
    PROVE  Inv'
<1>1. RunInv'
  BY BeginStep DEF Inv
<1>2. CustodyAgrees'
  BY DEF Inv, BeginRun, CustodyAgrees
<1> QED
  BY <1>1, <1>2 DEF Inv

LEMMA CheckpointKeeps ==
    ASSUME Inv, NEW m \in Miners, NEW id, NEW d, NEW e, NEW n, NEW k,
           Checkpoint(m, id, d, e, n, k)
    PROVE  Inv'
<1>1. RunInv'
  BY CheckpointStep DEF Inv
<1>2. CustodyAgrees'
  BY DEF Inv, Checkpoint, tokenVars, CustodyAgrees
<1> QED
  BY <1>1, <1>2 DEF Inv

LEMMA TokenKeeps == ASSUME Inv, TokenStep PROVE Inv'
<1>1. LoadoutNext /\ UNCHANGED <<active, nonces, processed>>
  BY DEF TokenStep, runVars
<1>2. /\ LoadoutTypeOK' /\ locked' = locked
      /\ \A m \in Miners : locked[m] => minerOwner'[m] = minerOwner[m] /\ gear'[m] = gear[m]
  BY <1>1, OwnerStep DEF Inv, RunInv
<1>3. RunInv'
  BY <1>1, <1>2, Unlocking DEF Inv
<1>4. CustodyAgrees'
  BY <1>1, CustodyStep DEF Inv, RunInv
<1> QED
  BY <1>3, <1>4 DEF Inv

LEMMA NextKeeps == Inv /\ [Next]_vars => Inv'
<1> SUFFICES ASSUME Inv, [Next]_vars PROVE Inv'
  OBVIOUS
<1>1. ASSUME NEW p \in Players, NEW m \in Miners, NEW g, NEW n \in 0..(MaxNonce - 1),
             \/ \E v \in StandardVersions : BeginRun("standard", p, m, v, g, n)
             \/ \E v \in EndlessVersions : BeginRun("endless", p, m, v, g, n)
      PROVE  Inv'
  <2>1. n \in Nat
    OBVIOUS
  <2> QED
    BY <1>1, <2>1, BeginKeeps
<1>2. ASSUME NEW m \in Miners, NEW id, NEW o, NEW n, NEW k, SettleRun(m, id, o, n, k)
      PROVE  Inv'
  BY <1>2, SettleRunEnds, EndsKeep
<1>3. ASSUME NEW m \in Miners, NEW id, NEW d, NEW e, NEW n, NEW k,
             \/ Checkpoint(m, id, d, e, n, k)
             \/ \E o \in Outcomes : SettleEndless(m, id, o, d, n, k)
      PROVE  Inv'
  BY <1>3, CheckpointKeeps, SettleEndlessEnds, EndsKeep
<1>4. ASSUME NEW c \in Contracts, NEW m \in Miners, ForceAbandon(c, m) PROVE Inv'
  BY <1>4, AbandonEnds, EndsKeep
<1>5. ASSUME TokenStep PROVE Inv'
  BY <1>5, TokenKeeps
<1>6. CASE Next
  BY <1>6, <1>1, <1>2, <1>3, <1>4, <1>5, QuietSteps, QuietKeep DEF Next
<1>7. CASE UNCHANGED vars
  BY <1>7, QuietSteps, QuietKeep
<1> QED
  BY <1>6, <1>7

LEMMA Invariance == Spec => []Inv
<1>1. Init => Inv
  BY InitOK DEF Inv
<1> QED
  BY <1>1, NextKeeps, PTL DEF Spec

-----------------------------------------------------------------------------
(* No Miner is locked without a run, and none has a run without a lock or   *)
(* two at once, though each settlement contract knows only its own runs.     *)
THEOREM LocksMatchRuns == Spec => []LockMeansOneRun
<1>1. Inv => LockMeansOneRun
  BY DEF Inv, RunInv, LockOK, LockMeansOneRun
<1> QED
  BY <1>1, Invariance, PTL

(* While a run is active its player owns the Miner and the Miner wears what *)
(* was signed for: no settlement is refused, and no death takes other gear,  *)
(* because of a sale or a change of loadout in between.                      *)
THEOREM RunsHoldTheirSnapshot == Spec => []RunSnapshotHolds
<1>1. Inv => RunSnapshotHolds
  BY DEF Inv, RunInv, RunOK, RunSnapshotHolds
<1> QED
  BY <1>1, Invariance, PTL

(* A run id that is active was not processed and its nonce is spent: neither *)
(* a result nor an authorization can be used a second time.                  *)
THEOREM RunsAreNotReplayed == Spec => []RunsLiveOnce
<1>1. Inv => RunsLiveOnce
  BY DEF Inv, RunInv, RunOK, RunsLiveOnce
<1> QED
  BY <1>1, Invariance, PTL

(* The holder of an item, the Miner it is assigned to and the slot it is in *)
(* agree through every equip, unequip, sale, run and death.                  *)
THEOREM ItemsAreInOnePlace == Spec => []CustodyAgrees
<1>1. Inv => CustodyAgrees
  BY DEF Inv
<1> QED
  BY <1>1, Invariance, PTL
-----------------------------------------------------------------------------
(* The bank, and the daily totals of the Endless mode.                      *)

\* What a run may still pay by.
TermsOK(c, m) ==
    LET r == active[c][m]
    IN  r # NoRun =>
            /\ {"id", "carry", "retention", "phaseXp", "phases", "mined"} \subseteq DOMAIN r
            /\ VersionOf(r.id) \in (IF c = "standard" THEN StandardVersions ELSE EndlessVersions)
            /\ PlayerOf(r.id) \in Players
            /\ r.carry \in Nat /\ r.retention \in 0..Bps
            /\ r.phases \in Nat /\ r.mined \in Nat
            /\ c = "endless" => r.phaseXp \in Nat

CreditOK(k) == k.amount \in Nat

LedgerShape ==
    /\ now \in 0..MaxTime
    /\ bank \in [Players -> Nat] /\ withdrawn \in [Players -> [Days -> Nat]]
    /\ crystalsByDay \in [Days -> Nat]
    /\ walletXp \in [Players -> [Days -> Nat]] /\ minerXp \in [Miners -> [Days -> Nat]]
    /\ IsFiniteSet(credits)
    /\ \A k \in credits : CreditOK(k)

BankInv ==
    /\ \A c \in Contracts, m \in Miners : TermsOK(c, m)
    /\ LedgerShape
    /\ BankMatchesRuns
    /\ EndlessDailyCaps

LEMMA DaysAreFinite == IsFiniteSet(Days) /\ (now \in 0..MaxTime => Today \in Days)
<1>1. DayLength \in Nat \ {0} /\ MaxTime \in Nat
  BY SettlementAssumption
<1>2. MaxTime \div DayLength \in Nat
  BY <1>1
<1>3. \A t \in 0..MaxTime : t \div DayLength \in 0..(MaxTime \div DayLength)
  <2> SUFFICES ASSUME NEW t \in 0..MaxTime
               PROVE  t \div DayLength \in Nat /\ t \div DayLength <= MaxTime \div DayLength
    BY <1>2
  <2> QED
    BY <1>1
<1> QED
  BY <1>2, <1>3, FS_Interval DEF Days, Today

\* A share of at most everything is at most everything.
LEMMA ShareBound ==
    ASSUME NEW x \in Nat, NEW r \in 0..Bps
    PROVE  (x * r) \div Bps \in Nat /\ (x * r) \div Bps <= x
<1>1. Bps \in Nat \ {0}
  BY SettlementAssumption
<1>2. x * r \in Nat /\ x * r <= x * Bps
  BY <1>1
<1>3. (x * Bps) \div Bps = x
  BY <1>1
<1>4. (x * r) \div Bps <= (x * Bps) \div Bps
  BY <1>1, <1>2
<1> QED
  BY <1>1, <1>2, <1>3, <1>4

\* One credit more.
LEMMA AmountMore ==
    ASSUME NEW S, IsFiniteSet(S), NEW k, k \notin S, \A x \in S \cup {k} : x.amount \in Nat
    PROVE  Amount(S \cup {k}) = Amount(S) + k.amount /\ Amount(S) \in Nat
<1> DEFINE f == [x \in S |-> x.amount]
           g == [x \in S \cup {k} |-> x.amount]
<1>1. \A x \in S : f[x] \in Nat /\ f[x] \in Int /\ g[x] \in Int /\ g[x] = f[x]
  OBVIOUS
<1>2. g[k] = k.amount /\ g[k] \in Int
  OBVIOUS
<1>3. Amount(S) = SumFunctionOnSet(f, S) /\ Amount(S \cup {k}) = SumFunctionOnSet(g, S \cup {k})
  BY DEF Amount, SumFunction
<1> HIDE DEF f, g
<1>4. SumFunctionOnSet(g, S) = SumFunctionOnSet(f, S)
  BY <1>1, SumOfSame
<1>5. SumFunctionOnSet(g, S \cup {k}) = SumFunctionOnSet(g, S) + g[k]
  BY <1>1, <1>2, SumOfMore
<1>6. SumFunctionOnSet(f, S) \in Nat
  BY <1>1, SumOfNats
<1> QED
  BY <1>2, <1>3, <1>4, <1>5, <1>6

\* What Credit does to the books of the bank.
LEMMA CreditBooked ==
    ASSUME LedgerShape, BankMatchesRuns, NEW id, NEW amount \in Nat, PlayerOf(id) \in Players,
           amount <= Terms[VersionOf(id)].maximumPayout,
           processed \subseteq processed', id \in processed', Credit(id, amount)
    PROVE  /\ BankMatchesRuns'
           /\ bank' \in [Players -> Nat] /\ withdrawn' = withdrawn
           /\ IsFiniteSet(credits') /\ \A k \in credits' : CreditOK(k)
           /\ \A d \in Days :
                Amount(EndlessCredits(d))' = Amount(EndlessCredits(d))
                    + (IF id[1] = "endless" /\ d = Today THEN amount ELSE 0)
<1>1. ASSUME NEW d \in Days
      PROVE  Amount(EndlessCredits(d)) \in Nat /\ IsFiniteSet(EndlessCredits(d))
             /\ \A k \in EndlessCredits(d) : k.amount \in Nat
  <2>1. IsFiniteSet(EndlessCredits(d)) /\ \A k \in EndlessCredits(d) : k.amount \in Nat
    BY FS_Subset DEF LedgerShape, EndlessCredits, CreditOK
  <2> DEFINE S == EndlessCredits(d)
             f == [k \in S |-> k.amount]
  <2>2. \A k \in S : f[k] \in Nat
    BY <2>1
  <2>3. Amount(S) = SumFunctionOnSet(f, S)
    BY DEF Amount, SumFunction
  <2> HIDE DEF f
  <2> QED
    BY <2>1, <2>2, <2>3, SumOfNats
<1>2. CASE amount = 0
  <2>1. UNCHANGED bankVars
    BY <1>2 DEF Credit
  <2>2. BankMatchesRuns'
    BY <2>1 DEF bankVars, BankMatchesRuns, CreditsOf
  <2>3. \A d \in Days : EndlessCredits(d)' = EndlessCredits(d)
    BY <2>1 DEF bankVars, EndlessCredits
  <2> QED
    BY <1>1, <1>2, <2>1, <2>2, <2>3 DEF bankVars, LedgerShape
<1>3. CASE amount # 0
  <2> DEFINE k == [id |-> id, amount |-> amount, day |-> Today]
             p == PlayerOf(id)
  <2>1. /\ bank' = [bank EXCEPT ![p] = @ + amount]
        /\ credits' = credits \cup {k} /\ withdrawn' = withdrawn
        /\ \A j \in credits : j.id # id
    BY <1>3 DEF Credit, CreditOnce
  <2>2. k.id = id /\ k.amount = amount /\ k.day = Today
    OBVIOUS
  <2> HIDE DEF k
  <2>3. k \notin credits
    BY <2>1, <2>2
  <2>4. IsFiniteSet(credits') /\ \A j \in credits' : CreditOK(j)
    BY <2>1, <2>2, FS_AddElement DEF LedgerShape, CreditOK
  <2>5. bank' \in [Players -> Nat]
    BY <2>1 DEF LedgerShape
  <2>6. ASSUME NEW q \in Players
        PROVE  bank'[q] + SumFunction(withdrawn'[q]) = Amount(CreditsOf(q)')
    <3>1. /\ bank[q] + SumFunction(withdrawn[q]) = Amount(CreditsOf(q))
          /\ bank[q] \in Nat
      BY DEF BankMatchesRuns, LedgerShape
    <3>2. IsFiniteSet(CreditsOf(q)) /\ \A j \in CreditsOf(q) : j.amount \in Nat
      BY FS_Subset DEF LedgerShape, CreditsOf, CreditOK
    <3>3. SumFunction(withdrawn[q]) \in Nat
      <4>1. withdrawn[q] \in [Days -> Nat]
        BY DEF LedgerShape
      <4> QED
        BY <4>1, DaysAreFinite, SumOfNats DEF SumFunction
    <3>4. CASE q = p
      <4>1. CreditsOf(q)' = CreditsOf(q) \cup {k}
        BY <2>1, <2>2, <3>4 DEF CreditsOf
      <4>2. k \notin CreditsOf(q)
        BY <2>3 DEF CreditsOf
      <4>3. Amount(CreditsOf(q) \cup {k}) = Amount(CreditsOf(q)) + amount
            /\ Amount(CreditsOf(q)) \in Nat
        BY <2>2, <3>2, <4>2, AmountMore
      <4>4. bank'[q] = bank[q] + amount
        BY <2>1, <3>4 DEF LedgerShape
      <4> QED
        BY <2>1, <3>1, <3>3, <4>1, <4>3, <4>4
    <3>5. CASE q # p
      <4>1. CreditsOf(q)' = CreditsOf(q)
        BY <2>1, <2>2, <3>5 DEF CreditsOf
      <4>2. bank'[q] = bank[q]
        BY <2>1, <3>5 DEF LedgerShape
      <4> QED
        BY <2>1, <3>1, <4>1, <4>2
    <3> QED
      BY <3>4, <3>5
  <2>7. ASSUME NEW j \in credits'
        PROVE  /\ j.id \in processed' /\ j.amount <= Terms[VersionOf(j.id)].maximumPayout
               /\ \A i \in credits' : i.id = j.id => i = j
    BY <2>1, <2>2 DEF BankMatchesRuns
  <2>8. BankMatchesRuns'
    BY <2>6, <2>7 DEF BankMatchesRuns
  <2>9. ASSUME NEW d \in Days
        PROVE  Amount(EndlessCredits(d))' = Amount(EndlessCredits(d))
                   + (IF id[1] = "endless" /\ d = Today THEN amount ELSE 0)
    <3>1. CASE id[1] = "endless" /\ d = Today
      <4>1. EndlessCredits(d)' = EndlessCredits(d) \cup {k}
        BY <2>1, <2>2, <3>1 DEF EndlessCredits
      <4>2. k \notin EndlessCredits(d)
        BY <2>3 DEF EndlessCredits
      <4>3. Amount(EndlessCredits(d) \cup {k}) = Amount(EndlessCredits(d)) + amount
        BY <1>1, <2>2, <4>2, AmountMore
      <4> QED
        BY <3>1, <4>1, <4>3
    <3>2. CASE ~(id[1] = "endless" /\ d = Today)
      <4>1. EndlessCredits(d)' = EndlessCredits(d)
        BY <2>1, <2>2, <3>2 DEF EndlessCredits
      <4> QED
        BY <1>1, <3>2, <4>1
    <3> QED
      BY <3>1, <3>2
  <2> QED
    BY <2>1, <2>4, <2>5, <2>8, <2>9
<1> QED
  BY <1>2, <1>3

LEMMA ConvertedBound ==
    ASSUME NEW r, r.carry \in Nat, VersionOf(r.id) \in Versions, NEW mined \in Nat
    PROVE  /\ Converted(r, mined) \in Nat
           /\ Converted(r, mined) <= Terms[VersionOf(r.id)].maximumPayout
<1> DEFINE t == Terms[VersionOf(r.id)]
<1>1. t.rate \in Nat /\ t.maximumPayout \in Nat
  BY SettlementAssumption
<1>2. Minimum(mined, r.carry) \in Nat
  BY DEF Minimum
<1>3. Minimum(mined, r.carry) * t.rate \in Nat
  BY <1>1, <1>2
<1> QED
  BY <1>1, <1>3 DEF Converted, Minimum

\* Steps that leave the ledgers alone.
Unbooked == UNCHANGED <<walletXp, minerXp, crystalsByDay, bankVars>> /\ processed \subseteq processed'

LEMMA BooksKept ==
    ASSUME LedgerShape, BankMatchesRuns, EndlessDailyCaps, Unbooked, now' \in 0..MaxTime
    PROVE  LedgerShape' /\ BankMatchesRuns' /\ EndlessDailyCaps'
<1>1. UNCHANGED <<walletXp, minerXp, crystalsByDay, bank, credits, withdrawn>>
  BY DEF Unbooked, bankVars
<1>2. LedgerShape'
  BY <1>1 DEF LedgerShape, CreditOK
<1>3. BankMatchesRuns'
  BY <1>1 DEF Unbooked, BankMatchesRuns, CreditsOf
<1>4. EndlessDailyCaps'
  BY <1>1 DEF EndlessDailyCaps, EndlessCredits
<1> QED
  BY <1>2, <1>3, <1>4

\* Ending a run takes its terms away and leaves the others.
LEMMA TermsAfterEnd ==
    ASSUME ActiveShape, \A d \in Contracts, n \in Miners : TermsOK(d, n),
           NEW c \in Contracts, NEW m \in Miners, Close(c, m)
    PROVE  \A d \in Contracts, n \in Miners : TermsOK(d, n)'
<1>1. /\ active'[c][m] = NoRun
      /\ \A d \in Contracts, n \in Miners : d # c \/ n # m => active'[d][n] = active[d][n]
  <2>1. active' = [active EXCEPT ![c][m] = NoRun]
    BY DEF Close
  <2> QED
    BY <2>1 DEF ActiveShape
<1> SUFFICES ASSUME NEW d \in Contracts, NEW n \in Miners PROVE TermsOK(d, n)'
  OBVIOUS
<1>2. CASE d = c /\ n = m
  BY <1>1, <1>2 DEF TermsOK
<1>3. CASE d # c \/ n # m
  BY <1>1, <1>3 DEF TermsOK
<1> QED
  BY <1>2, <1>3

LEMMA SettleRunBooks ==
    ASSUME RunInv, BankInv, NEW m \in Miners, NEW id, NEW o \in Outcomes, NEW n, NEW k \in Nat,
           SettleRun(m, id, o, n, k)
    PROVE  BankInv'
<1> DEFINE r == active["standard"][m]
           gain == IF o = "Extraction" THEN Converted(r, k) ELSE (Converted(r, k) * r.retention) \div Bps
<1>1. /\ r # NoRun /\ r.id = id /\ Close("standard", m) /\ Credit(id, gain)
      /\ UNCHANGED <<now, walletXp, minerXp, crystalsByDay>>
  BY DEF SettleRun, ForActive
<1>2. /\ VersionOf(id) \in Versions /\ PlayerOf(id) \in Players /\ id[1] = "standard"
      /\ r.carry \in Nat /\ r.retention \in 0..Bps
  BY <1>1 DEF BankInv, TermsOK, RunInv, RunOK, Versions
<1>3. gain \in Nat /\ gain <= Terms[VersionOf(id)].maximumPayout
  <2>1. Converted(r, k) \in Nat /\ Converted(r, k) <= Terms[VersionOf(id)].maximumPayout
    BY <1>1, <1>2, ConvertedBound
  <2>2. /\ (Converted(r, k) * r.retention) \div Bps \in Nat
        /\ (Converted(r, k) * r.retention) \div Bps <= Converted(r, k)
    BY <1>2, <2>1, ShareBound
  <2>3. Terms[VersionOf(id)].maximumPayout \in Nat
    BY <1>2, SettlementAssumption
  <2> QED
    BY <2>1, <2>2, <2>3
<1> HIDE DEF gain
<1>4. processed' = processed \cup {id}
  BY <1>1 DEF Close
<1>5. /\ BankMatchesRuns' /\ bank' \in [Players -> Nat] /\ withdrawn' = withdrawn
      /\ IsFiniteSet(credits') /\ \A j \in credits' : CreditOK(j)
      /\ \A d \in Days : Amount(EndlessCredits(d))' = Amount(EndlessCredits(d)) + 0
  BY <1>1, <1>2, <1>3, <1>4, CreditBooked DEF BankInv
<1>6. LedgerShape'
  BY <1>1, <1>5 DEF BankInv, LedgerShape, CreditOK
<1>7. EndlessDailyCaps'
  <2>1. \A d \in Days : crystalsByDay[d] \in Nat /\ crystalsByDay'[d] = Amount(EndlessCredits(d))'
    BY <1>1, <1>5 DEF BankInv, LedgerShape, EndlessDailyCaps
  <2> QED
    BY <1>1, <2>1 DEF BankInv, EndlessDailyCaps
<1>8. \A d \in Contracts, j \in Miners : TermsOK(d, j)'
  BY <1>1, TermsAfterEnd DEF RunInv, BankInv
<1> QED
  BY <1>5, <1>6, <1>7, <1>8 DEF BankInv

\* Crystals and XP that a cap lets through leave the day's total under it.
LEMMA UnderCap ==
    ASSUME NEW amount \in Nat, NEW cap \in Nat, NEW used \in Nat
    PROVE  /\ Minimum(amount, Left(cap, used)) \in Nat
           /\ \A share \in Nat : share <= Minimum(amount, Left(cap, used)) =>
                 share = 0 \/ used + share <= cap
  BY DEF Minimum, Left

LEMMA XpUnderCaps ==
    ASSUME LedgerShape, NEW v \in EndlessVersions, NEW p \in Players, NEW m \in Miners,
           NEW gained \in Nat
    PROVE  LET g == XpCapped(v, p, m, gained)
           IN  /\ g \in Nat
               /\ g = 0 \/ walletXp[p][Today] + g <= Terms[v].walletXpPerDay
               /\ g = 0 \/ minerXp[m][Today] + g <= Terms[v].minerXpPerDay
<1>1. Terms[v].walletXpPerDay \in Nat /\ Terms[v].minerXpPerDay \in Nat
  BY SettlementAssumption
<1>2. walletXp[p][Today] \in Nat /\ minerXp[m][Today] \in Nat
  BY DaysAreFinite DEF LedgerShape
<1> QED
  BY <1>1, <1>2 DEF XpCapped, Minimum, Left

LEMMA SettlePhasesBooks ==
    ASSUME RunInv, BankInv, NEW m \in Miners, NEW id, NEW o \in Outcomes,
           ForActive("endless", m, id), Close("endless", m), SettlePhases(m, id, o), now' = now
    PROVE  BankInv'
<1> DEFINE r == active["endless"][m]
           v == VersionOf(id)
           p == PlayerOf(id)
           capped == DayCapped(v, Converted(r, r.mined))
           banked == IF o = "Extraction" THEN capped ELSE (capped * r.retention) \div Bps
           gained == IF o = "Extraction" \/ Terms[v].failedRunsRetainXp
                     THEN XpCapped(v, p, m, Minimum(r.phases * r.phaseXp, Terms[v].maximumRunXp))
                     ELSE 0
<1>1. /\ walletXp' = [walletXp EXCEPT ![p][Today] = @ + gained]
      /\ minerXp' = [minerXp EXCEPT ![m][Today] = @ + gained]
      /\ crystalsByDay' = [crystalsByDay EXCEPT ![Today] = @ + banked]
      /\ Credit(id, banked)
  BY DEF SettlePhases
<1>2. /\ r # NoRun /\ r.id = id /\ v \in EndlessVersions /\ p \in Players /\ id[1] = "endless"
      /\ r.carry \in Nat /\ r.retention \in 0..Bps /\ r.mined \in Nat
      /\ r.phases \in Nat /\ r.phaseXp \in Nat /\ v \in Versions
  BY DEF ForActive, BankInv, TermsOK, RunInv, RunOK, Versions
<1>3. /\ Terms[v].maximumDailyPayout \in Nat /\ Terms[v].maximumRunXp \in Nat
      /\ Terms[v].maximumPayout \in Nat
  BY <1>2, SettlementAssumption
<1>4. LedgerShape /\ Today \in Days /\ crystalsByDay[Today] \in Nat
  BY DaysAreFinite DEF BankInv, LedgerShape
<1>5. /\ banked \in Nat /\ banked <= Terms[v].maximumPayout
      /\ banked = 0 \/ crystalsByDay[Today] + banked <= Terms[v].maximumDailyPayout
  <2>1. Converted(r, r.mined) \in Nat /\ Converted(r, r.mined) <= Terms[v].maximumPayout
    BY <1>2, ConvertedBound
  <2>2. capped \in Nat /\ capped <= Converted(r, r.mined)
    BY <1>3, <1>4, <2>1 DEF DayCapped, Minimum, Left
  <2>3. \A share \in Nat : share <= capped =>
           share = 0 \/ crystalsByDay[Today] + share <= Terms[v].maximumDailyPayout
    BY <1>3, <1>4, <2>1, UnderCap DEF DayCapped
  <2>4. banked \in Nat /\ banked <= capped
    <3>1. (capped * r.retention) \div Bps \in Nat /\ (capped * r.retention) \div Bps <= capped
      BY <1>2, <2>2, ShareBound
    <3> QED
      BY <2>2, <3>1
  <2> HIDE DEF banked, capped
  <2> QED
    BY <1>3, <2>1, <2>2, <2>3, <2>4
<1>6. /\ gained \in Nat
      /\ gained = 0 \/ walletXp[p][Today] + gained <= Terms[v].walletXpPerDay
      /\ gained = 0 \/ minerXp[m][Today] + gained <= Terms[v].minerXpPerDay
  <2>1. r.phases * r.phaseXp \in Nat
    BY <1>2
  <2>2. Minimum(r.phases * r.phaseXp, Terms[v].maximumRunXp) \in Nat
    BY <1>3, <2>1 DEF Minimum
  <2> QED
    BY <1>2, <1>4, <2>2, XpUnderCaps
<1> HIDE DEF banked, gained, v, p, r
<1>7. processed' = processed \cup {id}
  BY <1>2 DEF Close, r
<1>8. /\ BankMatchesRuns' /\ bank' \in [Players -> Nat] /\ withdrawn' = withdrawn
      /\ IsFiniteSet(credits') /\ \A j \in credits' : CreditOK(j)
      /\ \A d \in Days : Amount(EndlessCredits(d))' = Amount(EndlessCredits(d))
                             + (IF d = Today THEN banked ELSE 0)
  BY <1>1, <1>2, <1>4, <1>5, <1>7, CreditBooked DEF BankInv, v, p
<1>9. /\ walletXp' \in [Players -> [Days -> Nat]] /\ minerXp' \in [Miners -> [Days -> Nat]]
      /\ crystalsByDay' \in [Days -> Nat]
  BY <1>1, <1>2, <1>4, <1>5, <1>6 DEF LedgerShape
<1>10. LedgerShape'
  BY <1>4, <1>8, <1>9 DEF LedgerShape, CreditOK
<1>11. EndlessDailyCaps'
  <2> SUFFICES ASSUME NEW d \in Days
               PROVE  /\ crystalsByDay'[d] = Amount(EndlessCredits(d))'
                      /\ \/ crystalsByDay'[d] = 0
                         \/ \E u \in EndlessVersions : crystalsByDay'[d] <= Terms[u].maximumDailyPayout
                      /\ \A q \in Players :
                            \/ walletXp'[q][d] = 0
                            \/ \E u \in EndlessVersions : walletXp'[q][d] <= Terms[u].walletXpPerDay
                      /\ \A n \in Miners :
                            \/ minerXp'[n][d] = 0
                            \/ \E u \in EndlessVersions : minerXp'[n][d] <= Terms[u].minerXpPerDay
    BY DEF EndlessDailyCaps
  <2>1. /\ crystalsByDay[d] = Amount(EndlessCredits(d)) /\ crystalsByDay[d] \in Nat
        /\ \/ crystalsByDay[d] = 0
           \/ \E u \in EndlessVersions : crystalsByDay[d] <= Terms[u].maximumDailyPayout
    BY <1>4 DEF BankInv, EndlessDailyCaps, LedgerShape
  <2>2. crystalsByDay'[d] = crystalsByDay[d] + (IF d = Today THEN banked ELSE 0)
    BY <1>1, <1>4, <1>5, <2>1 DEF LedgerShape
  <2>3. \/ crystalsByDay'[d] = 0
        \/ \E u \in EndlessVersions : crystalsByDay'[d] <= Terms[u].maximumDailyPayout
    <3>1. CASE d = Today /\ banked # 0
      BY <1>2, <1>5, <2>2, <3>1
    <3>2. CASE ~(d = Today /\ banked # 0)
      BY <2>1, <2>2, <3>2
    <3> QED
      BY <3>1, <3>2
  <2>4. ASSUME NEW q \in Players
        PROVE  \/ walletXp'[q][d] = 0
               \/ \E u \in EndlessVersions : walletXp'[q][d] <= Terms[u].walletXpPerDay
    <3>1. \/ walletXp[q][d] = 0
          \/ \E u \in EndlessVersions : walletXp[q][d] <= Terms[u].walletXpPerDay
      BY DEF BankInv, EndlessDailyCaps
    <3>2. walletXp[q][d] \in Nat
      BY <1>4 DEF LedgerShape
    <3>3. CASE q = p /\ d = Today
      <4>1. walletXp'[q][d] = walletXp[q][d] + gained
        BY <1>1, <1>4, <3>3 DEF LedgerShape
      <4> QED
        BY <1>2, <1>6, <3>1, <3>2, <3>3, <4>1
    <3>4. CASE ~(q = p /\ d = Today)
      <4>1. walletXp'[q][d] = walletXp[q][d]
        BY <1>1, <1>4, <3>4 DEF LedgerShape
      <4> QED
        BY <3>1, <4>1
    <3> QED
      BY <3>3, <3>4
  <2>5. ASSUME NEW n \in Miners
        PROVE  \/ minerXp'[n][d] = 0
               \/ \E u \in EndlessVersions : minerXp'[n][d] <= Terms[u].minerXpPerDay
    <3>1. \/ minerXp[n][d] = 0
          \/ \E u \in EndlessVersions : minerXp[n][d] <= Terms[u].minerXpPerDay
      BY DEF BankInv, EndlessDailyCaps
    <3>2. minerXp[n][d] \in Nat
      BY <1>4 DEF LedgerShape
    <3>3. CASE n = m /\ d = Today
      <4>1. minerXp'[n][d] = minerXp[n][d] + gained
        BY <1>1, <1>4, <3>3 DEF LedgerShape
      <4> QED
        BY <1>2, <1>6, <3>1, <3>2, <3>3, <4>1
    <3>4. CASE ~(n = m /\ d = Today)
      <4>1. minerXp'[n][d] = minerXp[n][d]
        BY <1>1, <1>4, <3>4 DEF LedgerShape
      <4> QED
        BY <3>1, <4>1
    <3> QED
      BY <3>3, <3>4
  <2> QED
    BY <1>8, <2>1, <2>2, <2>3, <2>4, <2>5
<1>12. \A c \in Contracts, n \in Miners : TermsOK(c, n)'
  BY TermsAfterEnd DEF RunInv, BankInv
<1> QED
  BY <1>8, <1>10, <1>11, <1>12 DEF BankInv

LEMMA SettleEndlessBooks ==
    ASSUME RunInv, BankInv, NEW m \in Miners, NEW id, NEW o \in Outcomes, NEW d, NEW n, NEW k,
           SettleEndless(m, id, o, d, n, k)
    PROVE  BankInv'
<1>1. ForActive("endless", m, id) /\ Close("endless", m) /\ now' = now
  BY DEF SettleEndless
<1>2. CASE SettlePhases(m, id, o)
  BY <1>1, <1>2, SettlePhasesBooks
<1>3. CASE UNCHANGED <<playVars, bankVars>>
  <2>1. Unbooked /\ now' \in 0..MaxTime
    BY <1>1, <1>3 DEF Unbooked, playVars, Close, BankInv, LedgerShape
  <2>2. \A c \in Contracts, j \in Miners : TermsOK(c, j)'
    BY <1>1, TermsAfterEnd DEF RunInv, BankInv
  <2> QED
    BY <2>1, <2>2, BooksKept DEF BankInv
<1> QED
  BY <1>2, <1>3 DEF SettleEndless

LEMMA AbandonBooks ==
    ASSUME RunInv, BankInv, NEW c \in Contracts, NEW m \in Miners, ForceAbandon(c, m)
    PROVE  BankInv'
<1>1. Close(c, m) /\ UNCHANGED <<now, playVars, bankVars>>
  BY DEF ForceAbandon
<1>2. Unbooked /\ now' \in 0..MaxTime
  BY <1>1 DEF Unbooked, playVars, Close, BankInv, LedgerShape
<1>3. \A d \in Contracts, j \in Miners : TermsOK(d, j)'
  BY <1>1, TermsAfterEnd DEF RunInv, BankInv
<1> QED
  BY <1>2, <1>3, BooksKept DEF BankInv

LEMMA BeginBooks ==
    ASSUME RunInv, BankInv, NEW c \in Contracts, NEW p \in Players, NEW m \in Miners,
           NEW v \in (IF c = "standard" THEN StandardVersions ELSE EndlessVersions),
           NEW g, NEW n, BeginRun(c, p, m, v, g, n)
    PROVE  BankInv'
<1> DEFINE r == [id |-> <<c, p, m, v, n>>, gear |-> g, since |-> now,
                 carry |-> Carry(m), retention |-> Retention(m),
                 phaseXp |-> IF c = "standard" THEN phaseXp[v] ELSE Terms[v].phaseXp,
                 phases |-> 0, mined |-> 0, digest |-> <<>>]
<1>1. /\ active' = [active EXCEPT ![c][m] = r]
      /\ UNCHANGED <<now, processed, playVars, bankVars>>
  BY DEF BeginRun
<1>2. /\ {"id", "carry", "retention", "phaseXp", "phases", "mined"} \subseteq DOMAIN r
      /\ r.id = <<c, p, m, v, n>> /\ r.carry = Carry(m) /\ r.retention = Retention(m)
      /\ r.phases = 0 /\ r.mined = 0
      /\ c = "endless" => r.phaseXp = Terms[v].phaseXp
  OBVIOUS
<1> HIDE DEF r
<1>3. VersionOf(r.id) = v /\ PlayerOf(r.id) = p
  BY <1>2 DEF VersionOf, PlayerOf
<1>4. Carry(m) \in Nat /\ Retention(m) \in 0..Bps
  BY SettlementAssumption DEF Carry, Retention
<1>5. c = "endless" => r.phaseXp \in Nat
  BY <1>2, SettlementAssumption
<1>6. /\ active'[c][m] = r
      /\ \A d \in Contracts, k \in Miners : d # c \/ k # m => active'[d][k] = active[d][k]
  BY <1>1 DEF RunInv, ActiveShape
<1>7. ASSUME NEW d \in Contracts, NEW k \in Miners PROVE TermsOK(d, k)'
  <2>1. CASE d = c /\ k = m
    BY <1>2, <1>3, <1>4, <1>5, <1>6, <2>1 DEF TermsOK
  <2>2. CASE d # c \/ k # m
    BY <1>6, <2>2 DEF BankInv, TermsOK
  <2> QED
    BY <2>1, <2>2
<1>8. Unbooked /\ now' \in 0..MaxTime
  BY <1>1 DEF Unbooked, playVars, BankInv, LedgerShape
<1> QED
  BY <1>7, <1>8, BooksKept DEF BankInv

LEMMA CheckpointBooks ==
    ASSUME RunInv, BankInv, NEW m \in Miners, NEW id, NEW d, NEW e, NEW n \in Nat, NEW k \in Nat,
           Checkpoint(m, id, d, e, n, k)
    PROVE  BankInv'
<1> DEFINE r == active["endless"][m]
           s == [r EXCEPT !.digest = e, !.phases = n, !.mined = k, !.since = now]
<1>1. /\ active' = [active EXCEPT !["endless"][m] = s] /\ r # NoRun
      /\ UNCHANGED <<now, processed, playVars, bankVars>>
  BY DEF Checkpoint, ForActive
<1>2. TermsOK("endless", m)
  BY DEF BankInv
<1>3. /\ DOMAIN s = DOMAIN r /\ s.id = r.id /\ s.carry = r.carry /\ s.retention = r.retention
      /\ s.phaseXp = r.phaseXp /\ s.phases = n /\ s.mined = k
  BY <1>1, <1>2 DEF TermsOK
<1> HIDE DEF s
<1>4. /\ active'["endless"][m] = s
      /\ \A x \in Contracts, y \in Miners : x # "endless" \/ y # m => active'[x][y] = active[x][y]
  BY <1>1, ActiveWrite DEF RunInv
<1>5. ASSUME NEW x \in Contracts, NEW y \in Miners PROVE TermsOK(x, y)'
  <2>1. CASE x = "endless" /\ y = m
    BY <1>1, <1>2, <1>3, <1>4, <2>1 DEF TermsOK
  <2>2. CASE x # "endless" \/ y # m
    BY <1>4, <2>2 DEF BankInv, TermsOK
  <2> QED
    BY <2>1, <2>2
<1>6. Unbooked /\ now' \in 0..MaxTime
  BY <1>1 DEF Unbooked, playVars, BankInv, LedgerShape
<1> QED
  BY <1>5, <1>6, BooksKept DEF BankInv

\* A withdrawal moves MATT from the balance to what was withdrawn that day.
LEMMA WithdrawBooks ==
    ASSUME BankInv, NEW p \in Players, NEW a \in Nat, Withdraw(p, a)
    PROVE  BankInv'
<1>1. /\ a <= bank[p]
      /\ bank' = [bank EXCEPT ![p] = @ - a]
      /\ withdrawn' = [withdrawn EXCEPT ![p][Today] = @ + a]
      /\ UNCHANGED <<now, active, processed, walletXp, minerXp, crystalsByDay, credits>>
  BY DEF Withdraw, runVars, playVars
<1>2. LedgerShape /\ Today \in Days /\ IsFiniteSet(Days)
  BY DaysAreFinite DEF BankInv, LedgerShape
<1>3. bank' \in [Players -> Nat] /\ withdrawn' \in [Players -> [Days -> Nat]]
  BY <1>1, <1>2 DEF LedgerShape
<1>4. ASSUME NEW q \in Players
      PROVE  bank'[q] + SumFunction(withdrawn'[q]) = Amount(CreditsOf(q)')
  <2>1. bank[q] + SumFunction(withdrawn[q]) = Amount(CreditsOf(q)) /\ CreditsOf(q)' = CreditsOf(q)
    BY <1>1 DEF BankInv, BankMatchesRuns, CreditsOf
  <2>2. withdrawn[q] \in [Days -> Nat] /\ withdrawn'[q] \in [Days -> Nat] /\ bank[q] \in Nat
    BY <1>2, <1>3 DEF LedgerShape
  <2>3. SumFunction(withdrawn[q]) = SumFunctionOnSet(withdrawn[q], Days)
        /\ SumFunction(withdrawn'[q]) = SumFunctionOnSet(withdrawn'[q], Days)
        /\ SumFunctionOnSet(withdrawn[q], Days) \in Nat
    BY <1>2, <2>2, SumOfNats DEF SumFunction
  <2>4. CASE q = p
    <3>1. /\ withdrawn'[p][Today] = withdrawn[p][Today] + a
          /\ \A d \in Days : d # Today => withdrawn'[p][d] = withdrawn[p][d]
          /\ bank'[p] = bank[p] - a
      BY <1>1, <1>2 DEF LedgerShape
    <3>2. SumFunctionOnSet(withdrawn'[p], Days) =
             SumFunctionOnSet(withdrawn[p], Days) - withdrawn[p][Today] + withdrawn'[p][Today]
      BY <1>2, <2>2, <2>4, <3>1, SumOfChanged
    <3>3. withdrawn[p][Today] \in Nat
      BY <1>2, <2>2, <2>4
    <3> QED
      BY <2>1, <2>2, <2>3, <2>4, <3>1, <3>2, <3>3
  <2>5. CASE q # p
    BY <1>1, <1>2, <2>1, <2>5 DEF LedgerShape
  <2> QED
    BY <2>4, <2>5
<1>5. BankMatchesRuns'
  BY <1>1, <1>4 DEF BankInv, BankMatchesRuns
<1>6. LedgerShape'
  BY <1>1, <1>2, <1>3 DEF LedgerShape, CreditOK
<1>7. EndlessDailyCaps'
  BY <1>1 DEF BankInv, EndlessDailyCaps, EndlessCredits
<1>8. \A c \in Contracts, m \in Miners : TermsOK(c, m)'
  BY <1>1 DEF BankInv, TermsOK
<1> QED
  BY <1>5, <1>6, <1>7, <1>8 DEF BankInv

LEMMA OtherBooks ==
    ASSUME BankInv,
           \/ \E v \in Versions : ApproveVersion(v) \/ RetireVersion(v)
           \/ \E v \in StandardVersions, x \in PhaseXpChoices : SetMapPhaseXp(v, x)
           \/ \E c \in Pausable : SetPaused(c)
           \/ \E k \in LimitChoices : SetWithdrawalConfiguration(k)
           \/ TokenStep
           \/ Tick
           \/ UNCHANGED vars
    PROVE  BankInv'
<1>1. UNCHANGED <<active, processed, walletXp, minerXp, crystalsByDay, bank, credits, withdrawn>>
  BY DEF ApproveVersion, RetireVersion, SetMapPhaseXp, SetPaused, SetWithdrawalConfiguration,
         TokenStep, Tick, vars, runVars, playVars, bankVars
<1>2. now' \in 0..MaxTime
  <2>1. now \in 0..MaxTime /\ MaxTime \in Nat
    BY SettlementAssumption DEF BankInv, LedgerShape
  <2>2. CASE Tick
    BY <2>1, <2>2 DEF Tick
  <2>3. CASE now' = now
    BY <2>1, <2>3
  <2> QED
    BY <2>2, <2>3 DEF ApproveVersion, RetireVersion, SetMapPhaseXp, SetPaused,
                      SetWithdrawalConfiguration, TokenStep, vars
<1>3. LedgerShape'
  BY <1>1, <1>2 DEF BankInv, LedgerShape, CreditOK
<1>4. BankMatchesRuns'
  BY <1>1 DEF BankInv, BankMatchesRuns, CreditsOf
<1>5. EndlessDailyCaps'
  BY <1>1 DEF BankInv, EndlessDailyCaps, EndlessCredits
<1>6. \A c \in Contracts, m \in Miners : TermsOK(c, m)'
  BY <1>1 DEF BankInv, TermsOK
<1> QED
  BY <1>3, <1>4, <1>5, <1>6 DEF BankInv

LEMMA BankInit == Init => BankInv
<1> SUFFICES ASSUME Init PROVE BankInv
  OBVIOUS
<1>1. \A c \in Contracts, m \in Miners : TermsOK(c, m)
  BY DEF Init, TermsOK
<1>2. Bps \in Nat /\ MaxTime \in Nat
  BY SettlementAssumption
<1>3. LedgerShape
  BY <1>2, FS_EmptySet DEF Init, LedgerShape
<1>4. Amount({}) = 0
  BY SumOfNone DEF Amount, SumFunction
<1>5. ASSUME NEW p \in Players PROVE bank[p] + SumFunction(withdrawn[p]) = Amount(CreditsOf(p))
  <2>1. withdrawn[p] = [d \in Days |-> 0] /\ bank[p] = 0 /\ CreditsOf(p) = {}
    BY DEF Init, CreditsOf
  <2>2. SumFunction([d \in Days |-> 0]) = 0
    <3> DEFINE f == [d \in Days |-> 0]
    <3>1. DOMAIN f = Days /\ \A d \in Days : f[d] = 0
      OBVIOUS
    <3> HIDE DEF f
    <3>2. SumFunction(f) = 0
      BY <3>1, DaysAreFinite, SumOfZeros DEF SumFunction
    <3> QED
      BY <3>2 DEF f
  <2> QED
    BY <1>4, <2>1, <2>2
<1>6. BankMatchesRuns
  BY <1>5 DEF Init, BankMatchesRuns
<1>7. EndlessDailyCaps
  <2>1. \A d \in Days : EndlessCredits(d) = {}
    BY DEF Init, EndlessCredits
  <2> QED
    BY <1>4, <2>1 DEF Init, EndlessDailyCaps
<1> QED
  BY <1>1, <1>3, <1>6, <1>7 DEF BankInv

LEMMA BankNext == Inv /\ BankInv /\ [Next]_vars => BankInv'
<1> SUFFICES ASSUME Inv, BankInv, [Next]_vars PROVE BankInv'
  OBVIOUS
<1>0. RunInv
  BY DEF Inv
<1>1. ASSUME NEW p \in Players, NEW m \in Miners, NEW g, NEW n,
             \/ \E v \in StandardVersions : BeginRun("standard", p, m, v, g, n)
             \/ \E v \in EndlessVersions : BeginRun("endless", p, m, v, g, n)
      PROVE  BankInv'
  <2>1. ASSUME NEW v \in StandardVersions, BeginRun("standard", p, m, v, g, n) PROVE BankInv'
    BY <1>0, <2>1, BeginBooks
  <2>2. ASSUME NEW v \in EndlessVersions, BeginRun("endless", p, m, v, g, n) PROVE BankInv'
    BY <1>0, <2>2, BeginBooks
  <2> QED
    BY <1>1, <2>1, <2>2
<1>2. ASSUME NEW m \in Miners, NEW id, NEW o \in Outcomes, NEW n, NEW k \in Finds,
             SettleRun(m, id, o, n, k)
      PROVE  BankInv'
  BY <1>0, <1>2, SettleRunBooks, SettlementAssumption
<1>3. ASSUME NEW m \in Miners, NEW id, NEW d, NEW e, NEW n \in 0..MaxPhases, NEW k \in Finds,
             \/ Checkpoint(m, id, d, e, n, k)
             \/ \E o \in Outcomes : SettleEndless(m, id, o, d, n, k)
      PROVE  BankInv'
  <2>1. n \in Nat /\ k \in Nat
    BY SettlementAssumption
  <2> QED
    BY <1>0, <1>3, <2>1, CheckpointBooks, SettleEndlessBooks
<1>4. ASSUME NEW c \in Contracts, NEW m \in Miners, ForceAbandon(c, m) PROVE BankInv'
  BY <1>0, <1>4, AbandonBooks
<1>5. ASSUME NEW p \in Players, NEW a \in Extracts, Withdraw(p, a) PROVE BankInv'
  BY <1>5, WithdrawBooks, SettlementAssumption
<1>6. CASE Next
  BY <1>6, <1>1, <1>2, <1>3, <1>4, <1>5, OtherBooks DEF Next
<1>7. CASE UNCHANGED vars
  BY <1>7, OtherBooks
<1> QED
  BY <1>6, <1>7

LEMMA BankInvariance == Spec => []BankInv
<1> QED
  BY BankInit, BankNext, Invariance, PTL DEF Spec

(* The bank owes and has paid out exactly what the runs it credited brought *)
(* in, each once, after it ended and within its version's limit: replayed   *)
(* results, withdrawals and changing limits leave no crystal unaccounted.   *)
THEOREM BankOwesCreditedRuns == Spec => []BankMatchesRuns
<1>1. BankInv => BankMatchesRuns
  BY DEF BankInv
<1> QED
  BY <1>1, BankInvariance, PTL

(* Whatever versions a day's Endless runs mix, the day's crystals are those  *)
(* of the credited runs and stay under the largest cap in force, and so do   *)
(* the XP of each wallet and each Miner.                                    *)
THEOREM DailyCapsHold == Spec => []EndlessDailyCaps
<1>1. BankInv => EndlessDailyCaps
  BY DEF BankInv
<1> QED
  BY <1>1, BankInvariance, PTL


-----------------------------------------------------------------------------
(* Types.                                                                   *)

RunTyped(r) == r # NoRun => r.id \in RunIds /\ r.phaseXp \in Nat

SettingsTyped ==
    /\ paused \subseteq Pausable /\ limits \in LimitChoices
    /\ standing \in [Versions -> {"new", "approved", "retired"}]
    /\ phaseXp \in [StandardVersions -> PhaseXpChoices]

RunsTyped ==
    /\ nonces \in [Contracts -> [Players -> 0..MaxNonce]]
    /\ processed \subseteq RunIds
    /\ \A c \in Contracts, m \in Miners : RunTyped(active[c][m])

PlayTyped == xp \in [Miners -> Nat] /\ rateQueued \subseteq Miners

CreditsTyped == \A k \in credits : k.id \in RunIds /\ k.amount \in Nat \ {0} /\ k.day \in Days

Typed == SettingsTyped /\ RunsTyped /\ PlayTyped /\ CreditsTyped

LEMMA ProgressTyped ==
    ASSUME PlayTyped, NEW m \in Miners, NEW gained \in Nat, Progress(m, gained)
    PROVE  PlayTyped'
BY DEF PlayTyped, Progress

LEMMA CreditTyped ==
    ASSUME CreditsTyped, LedgerShape, NEW id \in RunIds, NEW amount \in Nat, Credit(id, amount)
    PROVE  CreditsTyped' /\ limits' = limits
<1>1. CASE amount = 0
  BY <1>1 DEF Credit, bankVars, CreditsTyped
<1>2. CASE amount # 0
  <2> DEFINE k == [id |-> id, amount |-> amount, day |-> Today]
  <2>1. credits' = credits \cup {k} /\ limits' = limits
    BY <1>2 DEF Credit
  <2>2. k.id \in RunIds /\ k.amount \in Nat \ {0} /\ k.day \in Days
    BY <1>2, DaysAreFinite DEF LedgerShape
  <2> HIDE DEF k
  <2> QED
    BY <2>1, <2>2 DEF CreditsTyped
<1> QED
  BY <1>1, <1>2

\* A run that ends was typed, and so is what is left.
LEMMA CloseTyped ==
    ASSUME ActiveShape, RunsTyped, NEW c \in Contracts, NEW m \in Miners,
           active[c][m] # NoRun, Close(c, m), nonces' = nonces
    PROVE  RunsTyped'
<1>1. /\ processed' = processed \cup {active[c][m].id}
      /\ active' = [active EXCEPT ![c][m] = NoRun]
  BY DEF Close
<1>2. /\ active'[c][m] = NoRun
      /\ \A d \in Contracts, n \in Miners : d # c \/ n # m => active'[d][n] = active[d][n]
  BY <1>1 DEF ActiveShape
<1>3. active[c][m].id \in RunIds
  BY DEF RunsTyped, RunTyped
<1>4. ASSUME NEW d \in Contracts, NEW n \in Miners PROVE RunTyped(active'[d][n])
  <2>1. CASE d = c /\ n = m
    BY <1>2, <2>1 DEF RunTyped
  <2>2. CASE d # c \/ n # m
    BY <1>2, <2>2 DEF RunsTyped
  <2> QED
    BY <2>1, <2>2
<1> QED
  BY <1>1, <1>3, <1>4 DEF RunsTyped

LEMMA SettleRunTyped ==
    ASSUME RunInv, BankInv, Typed, NEW m \in Miners, NEW id, NEW o \in Outcomes,
           NEW n \in Nat, NEW k \in Nat, SettleRun(m, id, o, n, k)
    PROVE  Typed'
<1> DEFINE r == active["standard"][m]
           gain == IF o = "Extraction" THEN Converted(r, k) ELSE (Converted(r, k) * r.retention) \div Bps
           gained == IF o = "Extraction" THEN n * r.phaseXp ELSE 0
<1>1. /\ r # NoRun /\ r.id = id /\ Close("standard", m) /\ Progress(m, gained) /\ Credit(id, gain)
      /\ UNCHANGED <<paused, standing, phaseXp, nonces>>
  BY DEF SettleRun, ForActive
<1>2. RunTyped(r) /\ TermsOK("standard", m) /\ ActiveShape
  BY DEF Typed, RunsTyped, BankInv, RunInv, Contracts
<1>3. id \in RunIds /\ r.phaseXp \in Nat
  BY <1>1, <1>2 DEF RunTyped
<1>4. VersionOf(r.id) \in Versions /\ r.carry \in Nat /\ r.retention \in 0..Bps
  BY <1>1, <1>2 DEF TermsOK, Versions
<1>5. gain \in Nat
  <2>1. Converted(r, k) \in Nat
    BY <1>4, ConvertedBound
  <2>2. (Converted(r, k) * r.retention) \div Bps \in Nat
    BY <1>4, <2>1, ShareBound
  <2> QED
    BY <2>1, <2>2
<1>6. gained \in Nat
  BY <1>3
<1> HIDE DEF gain, gained
<1>7. PlayTyped'
  BY <1>1, <1>6, ProgressTyped DEF Typed
<1>8. CreditsTyped' /\ limits' = limits
  BY <1>1, <1>3, <1>5, CreditTyped DEF Typed, BankInv
<1>9. RunsTyped'
  BY <1>1, <1>2, CloseTyped DEF Typed, Contracts
<1>10. SettingsTyped'
  BY <1>1, <1>8 DEF Typed, SettingsTyped
<1> QED
  BY <1>7, <1>8, <1>9, <1>10 DEF Typed

LEMMA SettleEndlessTyped ==
    ASSUME RunInv, BankInv, Typed, NEW m \in Miners, NEW id, NEW o \in Outcomes, NEW d, NEW n, NEW k,
           SettleEndless(m, id, o, d, n, k)
    PROVE  Typed'
<1> DEFINE r == active["endless"][m]
<1>1. /\ r # NoRun /\ r.id = id /\ Close("endless", m) /\ UNCHANGED <<paused, standing, phaseXp, nonces>>
      /\ UNCHANGED <<playVars, bankVars>> \/ SettlePhases(m, id, o)
  BY DEF SettleEndless, ForActive
<1>2. RunTyped(r) /\ TermsOK("endless", m) /\ ActiveShape /\ "endless" # "standard"
  BY DEF Typed, RunsTyped, BankInv, RunInv, Contracts
<1>3. id \in RunIds /\ r.phaseXp \in Nat
  BY <1>1, <1>2 DEF RunTyped
<1>4. /\ VersionOf(id) \in EndlessVersions /\ PlayerOf(id) \in Players
      /\ r.carry \in Nat /\ r.retention \in 0..Bps /\ r.phases \in Nat /\ r.mined \in Nat
  BY <1>1, <1>2 DEF TermsOK
<1>5. RunsTyped'
  BY <1>1, <1>2, CloseTyped DEF Typed, Contracts
<1>6. PlayTyped' /\ CreditsTyped' /\ limits' = limits
  <2>1. CASE UNCHANGED <<playVars, bankVars>>
    BY <2>1 DEF Typed, PlayTyped, CreditsTyped, playVars, bankVars
  <2>2. CASE SettlePhases(m, id, o)
    <3> DEFINE v == VersionOf(id)
               p == PlayerOf(id)
               capped == DayCapped(v, Converted(r, r.mined))
               banked == IF o = "Extraction" THEN capped ELSE (capped * r.retention) \div Bps
               gained == IF o = "Extraction" \/ Terms[v].failedRunsRetainXp
                         THEN XpCapped(v, p, m, Minimum(r.phases * r.phaseXp, Terms[v].maximumRunXp))
                         ELSE 0
    <3>1. Progress(m, gained) /\ Credit(id, banked)
      BY <2>2 DEF SettlePhases
    <3>2. banked \in Nat
      <4>1. Converted(r, r.mined) \in Nat /\ Terms[v].maximumDailyPayout \in Nat
        BY <1>1, <1>4, ConvertedBound, SettlementAssumption DEF Versions
      <4>2. crystalsByDay[Today] \in Nat
        BY DaysAreFinite DEF BankInv, LedgerShape
      <4>3. capped \in Nat
        BY <4>1, <4>2, UnderCap DEF DayCapped
      <4>4. (capped * r.retention) \div Bps \in Nat
        BY <1>4, <4>3, ShareBound
      <4> QED
        BY <4>3, <4>4
    <3>3. gained \in Nat
      <4>1. Terms[v].maximumRunXp \in Nat /\ r.phases * r.phaseXp \in Nat
        BY <1>3, <1>4, SettlementAssumption
      <4>2. Minimum(r.phases * r.phaseXp, Terms[v].maximumRunXp) \in Nat
        BY <4>1 DEF Minimum
      <4>3. XpCapped(v, p, m, Minimum(r.phases * r.phaseXp, Terms[v].maximumRunXp)) \in Nat
        BY <1>4, <4>2, XpUnderCaps DEF BankInv
      <4> QED
        BY <4>3
    <3> HIDE DEF banked, gained
    <3> QED
      BY <1>3, <3>1, <3>2, <3>3, ProgressTyped, CreditTyped DEF Typed, BankInv
  <2> QED
    BY <1>1, <2>1, <2>2
<1>7. SettingsTyped'
  BY <1>1, <1>6 DEF Typed, SettingsTyped
<1> QED
  BY <1>5, <1>6, <1>7 DEF Typed

LEMMA AbandonTyped ==
    ASSUME RunInv, Typed, NEW c \in Contracts, NEW m \in Miners, ForceAbandon(c, m)
    PROVE  Typed'
<1>1. /\ active[c][m] # NoRun /\ Close(c, m)
      /\ UNCHANGED <<paused, standing, phaseXp, nonces, playVars, bankVars>>
  BY DEF ForceAbandon, Abandonable
<1>2. RunsTyped'
  BY <1>1, CloseTyped DEF Typed, RunInv
<1> QED
  BY <1>1, <1>2 DEF Typed, SettingsTyped, PlayTyped, CreditsTyped, playVars, bankVars

LEMMA BeginTyped ==
    ASSUME RunInv, Typed, NEW c \in Contracts, NEW p \in Players, NEW m \in Miners,
           NEW v \in (IF c = "standard" THEN StandardVersions ELSE EndlessVersions),
           NEW g, NEW n \in 0..(MaxNonce - 1), BeginRun(c, p, m, v, g, n)
    PROVE  Typed'
<1> DEFINE r == [id |-> <<c, p, m, v, n>>, gear |-> g, since |-> now,
                 carry |-> Carry(m), retention |-> Retention(m),
                 phaseXp |-> IF c = "standard" THEN phaseXp[v] ELSE Terms[v].phaseXp,
                 phases |-> 0, mined |-> 0, digest |-> <<>>]
<1>1. /\ active' = [active EXCEPT ![c][m] = r] /\ nonces' = [nonces EXCEPT ![c][p] = n + 1]
      /\ UNCHANGED <<paused, standing, phaseXp, processed, playVars, bankVars>>
  BY DEF BeginRun
<1>2. r.id = <<c, p, m, v, n>> /\ r.phaseXp = IF c = "standard" THEN phaseXp[v] ELSE Terms[v].phaseXp
  OBVIOUS
<1> HIDE DEF r
<1>3. MaxNonce \in Nat /\ n \in 0..MaxNonce /\ n + 1 \in 0..MaxNonce /\ v \in Versions
  BY SettlementAssumption DEF Versions
<1>4. r.id \in RunIds
  BY <1>2, <1>3 DEF RunIds
<1>5. r.phaseXp \in Nat
  <2>1. CASE c = "standard"
    <3>1. phaseXp[v] \in Nat
      BY <2>1, SettlementAssumption DEF Typed, SettingsTyped
    <3> QED
      BY <1>2, <2>1, <3>1
  <2>2. CASE c # "standard"
    BY <1>2, <2>2, SettlementAssumption
  <2> QED
    BY <2>1, <2>2
<1>6. /\ active'[c][m] = r
      /\ \A d \in Contracts, k \in Miners : d # c \/ k # m => active'[d][k] = active[d][k]
  BY <1>1 DEF RunInv, ActiveShape
<1>7. ASSUME NEW d \in Contracts, NEW k \in Miners PROVE RunTyped(active'[d][k])
  <2>1. CASE d = c /\ k = m
    BY <1>4, <1>5, <1>6, <2>1 DEF RunTyped
  <2>2. CASE d # c \/ k # m
    BY <1>6, <2>2 DEF Typed, RunsTyped
  <2> QED
    BY <2>1, <2>2
<1>8. nonces' \in [Contracts -> [Players -> 0..MaxNonce]]
  BY <1>1, <1>3 DEF Typed, RunsTyped
<1>9. RunsTyped'
  BY <1>1, <1>7, <1>8 DEF Typed, RunsTyped
<1> QED
  BY <1>1, <1>9 DEF Typed, SettingsTyped, PlayTyped, CreditsTyped, playVars, bankVars

LEMMA CheckpointTyped ==
    ASSUME RunInv, BankInv, Typed, NEW m \in Miners, NEW id, NEW d, NEW e, NEW n, NEW k,
           Checkpoint(m, id, d, e, n, k)
    PROVE  Typed'
<1> DEFINE r == active["endless"][m]
           s == [r EXCEPT !.digest = e, !.phases = n, !.mined = k, !.since = now]
<1>1. /\ active' = [active EXCEPT !["endless"][m] = s] /\ r # NoRun
      /\ UNCHANGED <<paused, standing, phaseXp, nonces, processed, playVars, bankVars>>
  BY DEF Checkpoint, ForActive
<1>2. TermsOK("endless", m) /\ RunTyped(r)
  BY DEF BankInv, Contracts, Typed, RunsTyped
<1>3. s.id = r.id /\ s.phaseXp = r.phaseXp
  BY <1>1, <1>2 DEF TermsOK
<1> HIDE DEF s
<1>4. /\ active'["endless"][m] = s
      /\ \A x \in Contracts, y \in Miners : x # "endless" \/ y # m => active'[x][y] = active[x][y]
  BY <1>1, ActiveWrite DEF RunInv
<1>5. ASSUME NEW x \in Contracts, NEW y \in Miners PROVE RunTyped(active'[x][y])
  <2>1. CASE x = "endless" /\ y = m
    BY <1>1, <1>2, <1>3, <1>4, <2>1 DEF RunTyped
  <2>2. CASE x # "endless" \/ y # m
    BY <1>4, <2>2 DEF Typed, RunsTyped
  <2> QED
    BY <2>1, <2>2
<1> QED
  BY <1>1, <1>5 DEF Typed, SettingsTyped, RunsTyped, PlayTyped, CreditsTyped, playVars, bankVars

\* Administration, withdrawals, the token contracts and time.
LEMMA OtherTyped ==
    ASSUME BankInv, Typed,
           \/ \E v \in Versions : ApproveVersion(v) \/ RetireVersion(v)
           \/ \E v \in StandardVersions, x \in PhaseXpChoices : SetMapPhaseXp(v, x)
           \/ \E c \in Pausable : SetPaused(c)
           \/ \E p \in Players, a \in Extracts : Withdraw(p, a)
           \/ \E k \in LimitChoices : SetWithdrawalConfiguration(k)
           \/ TokenStep
           \/ Tick
           \/ UNCHANGED vars
    PROVE  Typed'
<1>1. UNCHANGED <<active, nonces, processed, xp, rateQueued, credits>>
  BY DEF ApproveVersion, RetireVersion, SetMapPhaseXp, SetPaused, Withdraw, SetWithdrawalConfiguration,
         TokenStep, Tick, vars, runVars, playVars, bankVars
<1>2. RunsTyped' /\ PlayTyped' /\ CreditsTyped'
  BY <1>1 DEF Typed, RunsTyped, RunTyped, PlayTyped, CreditsTyped
<1>3. paused' \subseteq Pausable
  BY DEF Typed, SettingsTyped, ApproveVersion, RetireVersion, SetMapPhaseXp, SetPaused, Withdraw,
         SetWithdrawalConfiguration, TokenStep, Tick, vars
<1>4. limits' \in LimitChoices
  BY DEF Typed, SettingsTyped, ApproveVersion, RetireVersion, SetMapPhaseXp, SetPaused, Withdraw,
         SetWithdrawalConfiguration, TokenStep, Tick, vars, bankVars
<1>5. standing' \in [Versions -> {"new", "approved", "retired"}]
  BY DEF Typed, SettingsTyped, ApproveVersion, RetireVersion, SetMapPhaseXp, SetPaused, Withdraw,
         SetWithdrawalConfiguration, TokenStep, Tick, vars, runVars
<1>6. phaseXp' \in [StandardVersions -> PhaseXpChoices]
  BY DEF Typed, SettingsTyped, ApproveVersion, RetireVersion, SetMapPhaseXp, SetPaused, Withdraw,
         SetWithdrawalConfiguration, TokenStep, Tick, vars, runVars
<1> QED
  BY <1>2, <1>3, <1>4, <1>5, <1>6 DEF Typed, SettingsTyped

LEMMA TypedInit == Init => Typed
<1> SUFFICES ASSUME Init PROVE Typed
  OBVIOUS
<1>1. MaxNonce \in Nat
  BY SettlementAssumption
<1>2. RunsTyped
  BY <1>1 DEF Init, RunsTyped, RunTyped
<1> QED
  BY <1>2 DEF Init, Typed, SettingsTyped, PlayTyped, CreditsTyped

LEMMA TypedNext == Inv /\ BankInv /\ Typed /\ [Next]_vars => Typed'
<1> SUFFICES ASSUME Inv, BankInv, Typed, [Next]_vars PROVE Typed'
  OBVIOUS
<1>0. RunInv
  BY DEF Inv
<1>1. ASSUME NEW p \in Players, NEW m \in Miners, NEW g, NEW n \in 0..(MaxNonce - 1),
             \/ \E v \in StandardVersions : BeginRun("standard", p, m, v, g, n)
             \/ \E v \in EndlessVersions : BeginRun("endless", p, m, v, g, n)
      PROVE  Typed'
  <2>1. ASSUME NEW v \in StandardVersions, BeginRun("standard", p, m, v, g, n) PROVE Typed'
    BY <1>0, <2>1, BeginTyped
  <2>2. ASSUME NEW v \in EndlessVersions, BeginRun("endless", p, m, v, g, n) PROVE Typed'
    BY <1>0, <2>2, BeginTyped
  <2> QED
    BY <1>1, <2>1, <2>2
<1>2. ASSUME NEW m \in Miners, NEW id, NEW o \in Outcomes, NEW n \in 0..MaxPhases, NEW k \in Finds,
             SettleRun(m, id, o, n, k)
      PROVE  Typed'
  <2>1. n \in Nat /\ k \in Nat
    BY SettlementAssumption
  <2> QED
    BY <1>0, <1>2, <2>1, SettleRunTyped
<1>3. ASSUME NEW m \in Miners, NEW id, NEW d, NEW e, NEW n, NEW k,
             \/ Checkpoint(m, id, d, e, n, k)
             \/ \E o \in Outcomes : SettleEndless(m, id, o, d, n, k)
      PROVE  Typed'
  BY <1>0, <1>3, CheckpointTyped, SettleEndlessTyped
<1>4. ASSUME NEW c \in Contracts, NEW m \in Miners, ForceAbandon(c, m) PROVE Typed'
  BY <1>0, <1>4, AbandonTyped
<1>5. CASE Next
  BY <1>5, <1>1, <1>2, <1>3, <1>4, OtherTyped DEF Next
<1>6. CASE UNCHANGED vars
  BY <1>6, OtherTyped
<1> QED
  BY <1>5, <1>6

LEMMA TypedInvariance == Spec => []Typed
<1> QED
  BY TypedInit, TypedNext, Invariance, BankInvariance, PTL DEF Spec

(* Every variable of the settlement contracts keeps its type: no run goes    *)
(* without its terms, no amount or total falls below zero when a withdrawal, *)
(* a cap or a share is subtracted, and no nonce passes its bound.            *)
THEOREM RunTypeCorrect == Spec => []TypeOK
<1>1. Inv /\ BankInv /\ Typed => TypeOK
  <2> SUFFICES ASSUME Inv, BankInv, Typed PROVE TypeOK
    OBVIOUS
  <2>1. \A r \in Runs : r.id \in RunIds
    BY DEF Typed, RunsTyped, RunTyped, Runs
  <2>2. \A p \in Players, m \in Miners, d \in Days :
           {walletXp[p][d], minerXp[m][d], crystalsByDay[d], bank[p], withdrawn[p][d]} \subseteq Nat
    BY DEF BankInv, LedgerShape
  <2>3. LoadoutTypeOK /\ now \in 0..MaxTime
    BY DEF Inv, RunInv, BankInv, LedgerShape
  <2> QED
    BY <2>1, <2>2, <2>3 DEF Typed, SettingsTyped, RunsTyped, PlayTyped, CreditsTyped, TypeOK
<1> QED
  BY <1>1, Invariance, BankInvariance, TypedInvariance, PTL

-----------------------------------------------------------------------------
(* The way out of a run.                                                    *)

Deadline(r) == r.since + Terms[VersionOf(r.id)].timeout

(* The part of MinersGetOut that needs no fairness: a locked Miner has a run *)
(* whose deadline is never further off than the version's timeout, and from  *)
(* the deadline on forceAbandon refuses its player nothing, whatever is      *)
(* paused, retired or changed meanwhile.                                    *)
MinersHaveAWayOut ==
    \A m \in Miners : locked[m] =>
        \E c \in Contracts :
            /\ active[c][m] # NoRun
            /\ Deadline(active[c][m]) \in 0..(now + Terms[VersionOf(active[c][m].id)].timeout)
            /\ now >= Deadline(active[c][m]) => Abandonable(c, m) /\ locked[m]

(* A deadline moves only when another phase is reported, and that is no more *)
(* often than the version has phases: nobody can hold a Miner by repeating   *)
(* checkpoints.                                                             *)
Prolonged(c, m) ==
    LET r == active[c][m]  s == active'[c][m]
    IN  r # NoRun /\ s # NoRun =>
            \/ s = r
            \/ /\ c = "endless" /\ s.id = r.id /\ s.phases = r.phases + 1
               /\ s.phases <= Terms[VersionOf(r.id)].maximumPhases
ProlongedByPhases == [][\A c \in Contracts, m \in Miners : Prolonged(c, m)]_vars

\* A run was started or prolonged, and not in the future.
SinceOK(c, m) ==
    active[c][m] # NoRun => "since" \in DOMAIN active[c][m] /\ active[c][m].since \in 0..now

\* How a run may change in a step.
RunMoves(c, m) ==
    LET r == active[c][m]  s == active'[c][m]
    IN  \/ s = r
        \/ s = NoRun
        \/ r = NoRun /\ "since" \in DOMAIN s /\ s.since = now
        \/ /\ c = "endless" /\ r # NoRun /\ s.id = r.id /\ s.phases = r.phases + 1
           /\ s.phases <= Terms[VersionOf(r.id)].maximumPhases
           /\ "since" \in DOMAIN s /\ s.since = now

RunsMove == \A c \in Contracts, m \in Miners : RunMoves(c, m)

Waits == \A c \in Contracts, m \in Miners : SinceOK(c, m)

LEMMA EndsMove ==
    ASSUME RunInv, NEW c \in Contracts, NEW m \in Miners, Ends(c, m)
    PROVE  RunsMove
<1>1. active' = [active EXCEPT ![c][m] = NoRun] /\ ActiveShape
  BY DEF Ends, Close, RunInv
<1>2. /\ active'[c][m] = NoRun
      /\ \A d \in Contracts, n \in Miners : d # c \/ n # m => active'[d][n] = active[d][n]
  BY <1>1 DEF ActiveShape
<1> QED
  BY <1>2 DEF RunsMove, RunMoves

LEMMA BeginMoves ==
    ASSUME RunInv, NEW c \in Contracts, NEW p, NEW m \in Miners, NEW v, NEW g, NEW n,
           BeginRun(c, p, m, v, g, n)
    PROVE  RunsMove
<1> DEFINE r == [id |-> <<c, p, m, v, n>>, gear |-> g, since |-> now,
                 carry |-> Carry(m), retention |-> Retention(m),
                 phaseXp |-> IF c = "standard" THEN phaseXp[v] ELSE Terms[v].phaseXp,
                 phases |-> 0, mined |-> 0, digest |-> <<>>]
<1>1. active' = [active EXCEPT ![c][m] = r] /\ active[c][m] = NoRun
  BY DEF BeginRun, Startable
<1>2. "since" \in DOMAIN r /\ r.since = now
  OBVIOUS
<1> HIDE DEF r
<1>3. ActiveShape
  BY DEF RunInv
<1>4. /\ active'[c][m] = r
      /\ \A d \in Contracts, k \in Miners : d # c \/ k # m => active'[d][k] = active[d][k]
  BY <1>1, <1>3 DEF ActiveShape
<1> QED
  BY <1>1, <1>2, <1>4 DEF RunsMove, RunMoves

LEMMA CheckpointMoves ==
    ASSUME RunInv, BankInv, Waits, NEW m \in Miners, NEW id, NEW d, NEW e, NEW n, NEW k,
           Checkpoint(m, id, d, e, n, k)
    PROVE  RunsMove
<1> DEFINE r == active["endless"][m]
           s == [r EXCEPT !.digest = e, !.phases = n, !.mined = k, !.since = now]
<1>1. /\ active' = [active EXCEPT !["endless"][m] = s] /\ r # NoRun /\ r.id = id
      /\ n = r.phases + 1 /\ n <= Terms[VersionOf(id)].maximumPhases
  BY DEF Checkpoint, ForActive, Extends
<1>2. {"id", "phases", "since"} \subseteq DOMAIN r
  BY <1>1 DEF BankInv, TermsOK, Waits, SinceOK
<1>3. s.id = r.id /\ s.phases = n /\ s.since = now /\ "since" \in DOMAIN s
  BY <1>2
<1> HIDE DEF s
<1>4. ActiveShape
  BY DEF RunInv
<1>5. /\ active'["endless"][m] = s
      /\ \A x \in Contracts, y \in Miners : x # "endless" \/ y # m => active'[x][y] = active[x][y]
  BY <1>1, <1>4, ActiveWrite
<1>6. RunMoves("endless", m)
  BY <1>1, <1>3, <1>5 DEF RunMoves
<1> QED
  BY <1>5, <1>6 DEF RunsMove, RunMoves

LEMMA NextMoves == Inv /\ BankInv /\ Waits /\ [Next]_vars => RunsMove
<1> SUFFICES ASSUME Inv, BankInv, Waits, [Next]_vars PROVE RunsMove
  OBVIOUS
<1>0. RunInv
  BY DEF Inv
<1>1. CASE active' = active
  BY <1>1 DEF RunsMove, RunMoves
<1>2. ASSUME NEW p \in Players, NEW m \in Miners, NEW g, NEW n,
             \/ \E v \in StandardVersions : BeginRun("standard", p, m, v, g, n)
             \/ \E v \in EndlessVersions : BeginRun("endless", p, m, v, g, n)
      PROVE  RunsMove
  BY <1>0, <1>2, BeginMoves
<1>3. ASSUME NEW m \in Miners, NEW id, NEW o, NEW n, NEW k, SettleRun(m, id, o, n, k)
      PROVE  RunsMove
  BY <1>0, <1>3, SettleRunEnds, EndsMove
<1>4. ASSUME NEW m \in Miners, NEW id, NEW d, NEW e, NEW n, NEW k,
             \/ Checkpoint(m, id, d, e, n, k)
             \/ \E o \in Outcomes : SettleEndless(m, id, o, d, n, k)
      PROVE  RunsMove
  BY <1>0, <1>4, CheckpointMoves, SettleEndlessEnds, EndsMove
<1>5. ASSUME NEW c \in Contracts, NEW m \in Miners, ForceAbandon(c, m) PROVE RunsMove
  BY <1>0, <1>5, AbandonEnds, EndsMove
<1>6. CASE TokenStep
  BY <1>1, <1>6 DEF TokenStep, runVars
<1>7. CASE \/ \E v \in Versions : ApproveVersion(v) \/ RetireVersion(v)
           \/ \E v \in StandardVersions, x \in PhaseXpChoices : SetMapPhaseXp(v, x)
           \/ \E c \in Pausable : SetPaused(c)
           \/ \E p \in Players, a \in Extracts : Withdraw(p, a)
           \/ \E k \in LimitChoices : SetWithdrawalConfiguration(k)
           \/ Tick
           \/ UNCHANGED vars
  <2>1. Elsewhere
    BY <1>7, QuietSteps
  <2> QED
    BY <1>1, <2>1 DEF Elsewhere
<1> QED
  BY <1>2, <1>3, <1>4, <1>5, <1>6, <1>7 DEF Next

\* The clock does not go back.
LEMMA ClockStep == BankInv /\ [Next]_vars => now' \in Nat /\ now \in Nat /\ now <= now'
<1> SUFFICES ASSUME BankInv, [Next]_vars PROVE now' \in Nat /\ now \in Nat /\ now <= now'
  OBVIOUS
<1>1. now \in Nat
  BY DEF BankInv, LedgerShape
<1>2. now' = now \/ Tick
  <2>1. CASE UNCHANGED vars
    BY <2>1 DEF vars
  <2>2. ASSUME NEW v, NEW x, ApproveVersion(v) \/ RetireVersion(v) \/ SetMapPhaseXp(v, x) PROVE now' = now
    BY <2>2 DEF ApproveVersion, RetireVersion, SetMapPhaseXp
  <2>3. ASSUME NEW c, NEW p, NEW m, NEW v, NEW g, NEW n, BeginRun(c, p, m, v, g, n) PROVE now' = now
    BY <2>3 DEF BeginRun
  <2>4. ASSUME NEW m, NEW id, NEW o, NEW d, NEW e, NEW n, NEW k,
               SettleRun(m, id, o, n, k) \/ Checkpoint(m, id, d, e, n, k) \/ SettleEndless(m, id, o, d, n, k)
        PROVE  now' = now
    BY <2>4 DEF SettleRun, Checkpoint, SettleEndless
  <2>5. ASSUME NEW c, NEW m, NEW p, NEW a, NEW k,
               SetPaused(c) \/ ForceAbandon(c, m) \/ Withdraw(p, a) \/ SetWithdrawalConfiguration(k)
        PROVE  now' = now
    BY <2>5 DEF SetPaused, ForceAbandon, Withdraw, SetWithdrawalConfiguration
  <2>6. CASE TokenStep
    BY <2>6 DEF TokenStep
  <2> QED
    BY <2>1, <2>2, <2>3, <2>4, <2>5, <2>6 DEF Next
<1>3. Tick => now' = now + 1
  BY DEF Tick
<1> QED
  BY <1>1, <1>2, <1>3

LEMMA WaitsNext == Inv /\ BankInv /\ Waits /\ [Next]_vars => Waits'
<1> SUFFICES ASSUME Inv, BankInv, Waits, [Next]_vars PROVE Waits'
  OBVIOUS
<1>1. RunsMove /\ now' \in Nat /\ now \in Nat /\ now <= now'
  BY NextMoves, ClockStep
<1> SUFFICES ASSUME NEW c \in Contracts, NEW m \in Miners, active'[c][m] # NoRun
             PROVE  "since" \in DOMAIN active'[c][m] /\ active'[c][m].since \in 0..now'
  BY DEF Waits, SinceOK
<1>2. RunMoves(c, m) /\ SinceOK(c, m)
  BY <1>1 DEF RunsMove, Waits
<1>3. "since" \in DOMAIN active'[c][m] /\ active'[c][m].since \in 0..now
  BY <1>1, <1>2 DEF RunMoves, SinceOK
<1> QED
  BY <1>1, <1>3

LEMMA WaitsAlways == Spec => []Waits
<1>1. Init => Waits
  BY DEF Init, Waits, SinceOK
<1> QED
  BY <1>1, WaitsNext, Invariance, BankInvariance, PTL DEF Spec

(* Whoever is locked in a run can get out of it by a transaction of his own  *)
(* after the version's timeout: no pause, transfer or retirement in between  *)
(* takes that away.                                                         *)
THEOREM WayOutStands == Spec => []MinersHaveAWayOut
<1>1. Inv /\ BankInv /\ Waits => MinersHaveAWayOut
  <2> SUFFICES ASSUME Inv, BankInv, Waits, NEW m \in Miners, locked[m]
               PROVE  \E c \in Contracts :
                         /\ active[c][m] # NoRun
                         /\ Deadline(active[c][m]) \in
                                0..(now + Terms[VersionOf(active[c][m].id)].timeout)
                         /\ now >= Deadline(active[c][m]) => Abandonable(c, m) /\ locked[m]
    BY DEF MinersHaveAWayOut
  <2>1. PICK c \in Contracts : active[c][m] # NoRun
    BY DEF Inv, RunInv, LockOK
  <2> DEFINE r == active[c][m]
             timeout == Terms[VersionOf(r.id)].timeout
  <2>2. minerOwner[m] = PlayerOf(r.id)
    BY <2>1 DEF Inv, RunInv, RunOK
  <2>3. VersionOf(r.id) \in Versions
    BY <2>1 DEF BankInv, TermsOK, Versions
  <2>4. timeout \in Nat
    BY <2>3, SettlementAssumption
  <2>5. r.since \in 0..now /\ now \in Nat
    BY <2>1 DEF Waits, SinceOK, BankInv, LedgerShape
  <2>6. Deadline(r) = r.since + timeout
    BY DEF Deadline
  <2>7. now >= Deadline(r) => Abandonable(c, m)
    BY <2>1, <2>2, <2>6 DEF Abandonable
  <2> HIDE DEF timeout
  <2>8. Deadline(r) \in 0..(now + timeout)
    BY <2>4, <2>5, <2>6
  <2> QED
    BY <2>1, <2>7, <2>8 DEF timeout
<1> QED
  BY <1>1, Invariance, BankInvariance, WaitsAlways, PTL

(* Once it runs, a run's deadline is put off only by reporting a further     *)
(* phase, and never past the last phase the version has.                     *)
THEOREM OnlyPhasesProlong == Spec => ProlongedByPhases
<1>1. RunsMove => \A c \in Contracts, m \in Miners : Prolonged(c, m)
  BY DEF RunsMove, RunMoves, Prolonged
<1> QED
  BY <1>1, NextMoves, Invariance, BankInvariance, WaitsAlways, PTL DEF Spec, ProlongedByPhases
=============================================================================

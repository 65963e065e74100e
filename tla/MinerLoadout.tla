---------------------------- MODULE MinerLoadout ----------------------------
(***************************************************************************)
(* The three token contracts under a run: MattV2Miner (who owns a Miner and *)
(* whether a run has locked it), MattV2Equipment (who holds an item, which   *)
(* Miner it is assigned to, whether it is damaged) and MattV2Loadout (which  *)
(* item is in which slot, and the custody of equipped items).  Equipped      *)
(* items are held by the loadout contract and follow the Miner when it is    *)
(* sold.  The settlement contracts lock Miners and report deaths.            *)
(*                                                                          *)
(* Every function checks that its caller is the owner, so a call is written *)
(* without its caller.  Approvals, royalties, metadata and the MATT paid    *)
(* for a repair are left out.                                               *)
(***************************************************************************)
EXTENDS Integers

CONSTANTS
    Players, Miners, Items,
    Slots, Armor, Backpack,     \* the slots, and the two that a death touches
    SlotOf,                     \* the slot an item fits
    NoItem, NoMiner,
    Unminted, Custody, Burnt    \* where an item is when no player holds it

ASSUME LoadoutAssumption ==
    /\ {Armor, Backpack} \subseteq Slots /\ Armor # Backpack
    /\ SlotOf \in [Items -> Slots]
    /\ NoItem \notin Items /\ NoMiner \notin Miners
    /\ {Unminted, Custody, Burnt} \cap Players = {}
    /\ Unminted # Custody /\ Custody # Burnt /\ Burnt # Unminted

VARIABLES
    minerOwner, locked,             \* MattV2Miner
    holder, equippedTo, damaged,    \* MattV2Equipment
    gear,                           \* MattV2Loadout._loadouts
    loadoutPaused

tokenVars == <<minerOwner, locked, holder, equippedTo, damaged, gear, loadoutPaused>>

Bare == [s \in Slots |-> NoItem]

LoadoutInit ==
    /\ minerOwner \in [Miners -> Players]
    /\ locked = [m \in Miners |-> FALSE]
    /\ holder = [i \in Items |-> Unminted]
    /\ equippedTo = [i \in Items |-> NoMiner]
    /\ damaged = [i \in Items |-> FALSE]
    /\ gear = [m \in Miners |-> Bare]
    /\ loadoutPaused = FALSE

-----------------------------------------------------------------------------
\* Mutant: a locked Miner can be sold.
Transferable_Always(m) == TRUE

Transferable(m) == ~locked[m]

TransferMiner(m, p) ==
    /\ Transferable(m) /\ p # minerOwner[m]
    /\ minerOwner' = [minerOwner EXCEPT ![m] = p]
    /\ UNCHANGED <<locked, holder, equippedTo, damaged, gear, loadoutPaused>>

MintEquipment(i, p) ==
    /\ holder[i] = Unminted
    /\ holder' = [holder EXCEPT ![i] = p]
    /\ UNCHANGED <<minerOwner, locked, equippedTo, damaged, gear, loadoutPaused>>

TransferEquipment(i, p) ==
    /\ holder[i] \in Players /\ p # holder[i]
    /\ equippedTo[i] = NoMiner
    /\ holder' = [holder EXCEPT ![i] = p]
    /\ UNCHANGED <<minerOwner, locked, equippedTo, damaged, gear, loadoutPaused>>

\* Mutant: the loadout of a Miner in a run can be changed.
Editable_InRun(m) == ~loadoutPaused

\* whenNotPaused and _requireUnlocked.
Editable(m) == ~loadoutPaused /\ ~locked[m]

Equip(m, i) ==
    /\ Editable(m)
    /\ holder[i] = minerOwner[m] /\ equippedTo[i] = NoMiner
    /\ gear[m][SlotOf[i]] = NoItem
    /\ holder' = [holder EXCEPT ![i] = Custody]
    /\ equippedTo' = [equippedTo EXCEPT ![i] = m]
    /\ gear' = [gear EXCEPT ![m] = [@ EXCEPT ![SlotOf[i]] = i]]
    /\ UNCHANGED <<minerOwner, locked, damaged, loadoutPaused>>

Unequip(m, s) ==
    /\ Editable(m)
    /\ gear[m][s] # NoItem
    /\ holder' = [holder EXCEPT ![gear[m][s]] = minerOwner[m]]
    /\ equippedTo' = [equippedTo EXCEPT ![gear[m][s]] = NoMiner]
    /\ gear' = [gear EXCEPT ![m] = [@ EXCEPT ![s] = NoItem]]
    /\ UNCHANGED <<minerOwner, locked, damaged, loadoutPaused>>

RepairArmor(m) ==
    /\ Editable(m)
    /\ gear[m][Armor] # NoItem /\ damaged[gear[m][Armor]]
    /\ damaged' = [damaged EXCEPT ![gear[m][Armor]] = FALSE]
    /\ UNCHANGED <<minerOwner, locked, holder, equippedTo, gear, loadoutPaused>>

SetLoadoutPaused ==
    /\ loadoutPaused' = ~loadoutPaused
    /\ UNCHANGED <<minerOwner, locked, holder, equippedTo, damaged, gear>>

-----------------------------------------------------------------------------
(* What the settlement contracts call.                                      *)

\* Mutant: the burnt Backpack stays in its slot.
StripBackpack_Kept(m) == gear

StripBackpack(m) == [gear EXCEPT ![m] = [@ EXCEPT ![Backpack] = NoItem]]

\* applyDeath: the Armor is damaged and the Backpack burnt.
Death(m) ==
    LET burnt == gear[m][Backpack]
    IN  /\ locked[m]
        /\ damaged' = [i \in Items |->
                         IF i = gear[m][Armor] THEN TRUE
                         ELSE IF i = burnt THEN FALSE ELSE damaged[i]]
        /\ holder' = [i \in Items |-> IF i = burnt THEN Burnt ELSE holder[i]]
        /\ equippedTo' = [i \in Items |-> IF i = burnt THEN NoMiner ELSE equippedTo[i]]
        /\ gear' = StripBackpack(m)

NoDeath == UNCHANGED <<holder, equippedTo, damaged, gear>>

SetRunLocked(m, lock) == locked' = [locked EXCEPT ![m] = lock]

LoadoutNext ==
    \/ \E m \in Miners, p \in Players : TransferMiner(m, p)
    \/ \E i \in Items, p \in Players : MintEquipment(i, p) \/ TransferEquipment(i, p)
    \/ \E m \in Miners, i \in Items : Equip(m, i)
    \/ \E m \in Miners, s \in Slots : Unequip(m, s)
    \/ \E m \in Miners : RepairArmor(m)
    \/ SetLoadoutPaused

-----------------------------------------------------------------------------
LoadoutTypeOK ==
    /\ minerOwner \in [Miners -> Players]
    /\ locked \in [Miners -> BOOLEAN]
    /\ holder \in [Items -> Players \cup {Unminted, Custody, Burnt}]
    /\ equippedTo \in [Items -> Miners \cup {NoMiner}]
    /\ damaged \in [Items -> BOOLEAN]
    /\ gear \in [Miners -> [Slots -> Items \cup {NoItem}]]
    /\ loadoutPaused \in BOOLEAN

(* The three contracts agree on every item: it is in the loadout contract's *)
(* custody exactly when one Miner has it in the slot it fits, and that is    *)
(* the Miner the equipment contract assigns it to.  An item cannot be in     *)
(* two loadouts, stranded in custody, or equipped after it was burnt         *)
(* (equip, unequip and applyDeath each write all three).                     *)
CustodyAgrees ==
    /\ \A i \in Items : (holder[i] = Custody) <=> (equippedTo[i] # NoMiner)
    /\ \A i \in Items : equippedTo[i] # NoMiner => gear[equippedTo[i]][SlotOf[i]] = i
    /\ \A m \in Miners, s \in Slots : gear[m][s] # NoItem =>
          equippedTo[gear[m][s]] = m /\ SlotOf[gear[m][s]] = s
=============================================================================

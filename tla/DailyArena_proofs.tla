-------------------------- MODULE DailyArena_proofs --------------------------
(***************************************************************************)
(* What holds of the daily arena for every number of days and wallets, all  *)
(* fee and seed bounds and any amounts.  The invariant is inductive only    *)
(* with all its parts: a total cannot be shown not to underflow without the *)
(* books of its days, and a day's without those of its wallets.             *)
(* The second part is about ArenaDays, the server composed with the         *)
(* contract: what is settled is the ranking that was frozen.                *)
(***************************************************************************)
EXTENDS ArenaDays, SumsTheorems

USE ArenaConstants DEF Days, Wallets, Amounts

\* What the books of one day say, by its status.
DayOK(d) ==
    /\ reservedMatt[d] = Held(d)
    /\ IsSum(walletPaid[d], MaxWallet, entryMatt[d])
    /\ IsSum(Unclaimed(d), MaxWallet, entryMatt[d] - refundedMatt[d])
    /\ Unclaimed(d) \in [Wallets -> Nat]
    /\ refundedMatt[d] <= entryMatt[d]
    /\ status[d] = "Unscheduled" => entryMatt[d] = 0 /\ seededMatt[d] = 0
    /\ status[d] # "Cancelled" =>
          refundedMatt[d] = 0 /\ \A w \in Wallets : walletRefunded[d][w] = 0
    /\ status[d] # "Unscheduled" => fee[d] \in MinEntryFee..MaxEntryFee
    /\ \A w \in Wallets : walletCount[d][w] > 0 => walletPaid[d][w] > 0

SettledOK(d) ==
    status[d] = "Settled" =>
        /\ settledMatt[d] = Pool(d)
        /\ IsSum(winners[d], MaxWallet, Pool(d))
        /\ \A w \in Wallets : winners[d][w] > 0 => walletCount[d][w] > 0

Inv ==
    /\ TypeOK
    /\ Solvency
    /\ IsSum(reservedMatt, MaxDay, totalReserved)
    /\ \A d \in Days : DayOK(d) /\ SettledOK(d)

\* A new contract has empty books.
LEMMA InitInv == Init => Inv
<1> SUFFICES ASSUME Init PROVE Inv
  OBVIOUS
<1>1. TypeOK
  <2>1. entries \in Seq([day : Days, wallet : Wallets, paid : Nat])
    BY DEF Init
  <2> QED
    BY <2>1 DEF Init, TypeOK, NoMatt, NoWallet, NoPrizes
<1>2. Solvency
  BY DEF Init, Solvency
<1>3. IsSum(reservedMatt, MaxDay, totalReserved)
  BY SumZero DEF Init, NoMatt
<1>4. ASSUME NEW d \in Days PROVE DayOK(d) /\ SettledOK(d)
  <2>1. /\ status[d] = "Unscheduled" /\ entryMatt[d] = 0 /\ seededMatt[d] = 0
        /\ refundedMatt[d] = 0 /\ reservedMatt[d] = 0
        /\ \A w \in Wallets : walletPaid[d][w] = 0 /\ walletRefunded[d][w] = 0
                              /\ walletCount[d][w] = 0
    BY DEF Init, NoMatt, NoWallet
  <2>2. Unclaimed(d) \in [Wallets -> Nat] /\ \A w \in Wallets : Unclaimed(d)[w] = 0
    BY <2>1 DEF Unclaimed
  <2>3. IsSum(walletPaid[d], MaxWallet, 0) /\ IsSum(Unclaimed(d), MaxWallet, 0)
    BY <2>1, <2>2, SumZero
  <2> QED
    BY <2>1, <2>2, <2>3 DEF DayOK, SettledOK, Held
<1> QED
  BY <1>1, <1>2, <1>3, <1>4 DEF Inv

\* The fields of a day, read from the invariant.
LEMMA DayTypes ==
    ASSUME Inv, NEW d \in Days
    PROVE  /\ status[d] \in {"Unscheduled", "Scheduled", "Settled", "Cancelled"}
           /\ fee[d] \in Nat /\ entryCount[d] \in Nat /\ entryMatt[d] \in Nat
           /\ seededMatt[d] \in Nat /\ reservedMatt[d] \in Nat
           /\ settledMatt[d] \in Nat /\ refundedMatt[d] \in Nat
           /\ reservedMatt \in [1..MaxDay -> Nat] /\ totalReserved \in Nat
           /\ balance \in Nat /\ totalReserved <= balance
           /\ IsSum(reservedMatt, MaxDay, totalReserved)
           /\ reservedMatt[d] <= totalReserved
           /\ DayOK(d) /\ SettledOK(d)
<1>1. /\ reservedMatt \in [1..MaxDay -> Nat] /\ totalReserved \in Nat
      /\ IsSum(reservedMatt, MaxDay, totalReserved)
  BY DEF Inv, TypeOK
<1>2. reservedMatt[d] <= totalReserved
  BY <1>1, SumBounds
<1> QED
  BY <1>1, <1>2 DEF Inv, TypeOK, Solvency

\* A booking on day d that moves the reserve of the day and the contract's
\* total by the same amount keeps the total equal to the sum of the days.
LEMMA BookDay ==
    ASSUME Inv, NEW d \in Days, NEW amount \in Nat,
           reservedMatt' = [reservedMatt EXCEPT ![d] = amount],
           totalReserved' = totalReserved - reservedMatt[d] + amount
    PROVE  /\ totalReserved' \in Nat
           /\ reservedMatt' \in [Days -> Nat]
           /\ IsSum(reservedMatt, MaxDay, totalReserved)'
<1>1. /\ reservedMatt' \in [1..MaxDay -> Nat] /\ reservedMatt'[d] = amount
      /\ \A e \in 1..MaxDay \ {d} : reservedMatt'[e] = reservedMatt[e]
  BY DayTypes
<1>2. /\ reservedMatt \in [1..MaxDay -> Nat] /\ totalReserved \in Nat
      /\ IsSum(reservedMatt, MaxDay, totalReserved)
  BY DayTypes
<1>3. /\ totalReserved - reservedMatt[d] + reservedMatt'[d] \in Nat
      /\ IsSum(reservedMatt', MaxDay, totalReserved - reservedMatt[d] + reservedMatt'[d])
  BY <1>1, <1>2, SumUpdate
<1> QED
  BY <1>1, <1>3

\* A day that an operation leaves alone keeps its books.
LEMMA DayKept ==
    ASSUME NEW e \in Days, DayOK(e), SettledOK(e),
           status'[e] = status[e], fee'[e] = fee[e], entryMatt'[e] = entryMatt[e],
           seededMatt'[e] = seededMatt[e], reservedMatt'[e] = reservedMatt[e],
           settledMatt'[e] = settledMatt[e], refundedMatt'[e] = refundedMatt[e],
           walletCount'[e] = walletCount[e], walletPaid'[e] = walletPaid[e],
           walletRefunded'[e] = walletRefunded[e], winners'[e] = winners[e]
    PROVE  DayOK(e)' /\ SettledOK(e)'
BY DEF DayOK, SettledOK, Held, Unclaimed, Pool

\* Scheduling fixes a positive fee on an empty day.
LEMMA ScheduleInv ==
    ASSUME Inv, NEW d \in Days, NEW price \in MinEntryFee..MaxEntryFee, ScheduleDay(d, price)
    PROVE  Inv'
<1>1. price \in Nat /\ price > 0
  OBVIOUS
<1>2. /\ status[d] = "Unscheduled"
      /\ status' = [status EXCEPT ![d] = "Scheduled"]
      /\ fee' = [fee EXCEPT ![d] = price]
      /\ UNCHANGED <<now, entryCount, entryMatt, seededMatt, walletCount, walletPaid,
                     entries, refundedMatt, walletRefunded, settledMatt, winners,
                     reservedMatt, totalReserved, entriesPaused, settlementPaused,
                     seedTreasury, balance, purse, vault, outside>>
  BY DEF ScheduleDay, Unpriced, refunds, payouts, reserve, admin, tokens
<1>3. TypeOK'
  BY <1>1, <1>2 DEF Inv, TypeOK
<1>4. Solvency' /\ IsSum(reservedMatt, MaxDay, totalReserved)'
  BY <1>2 DEF Inv, Solvency
<1>5. DayOK(d)' /\ SettledOK(d)'
  <2>1. status'[d] = "Scheduled" /\ fee'[d] = price
    BY <1>1, <1>2 DEF Inv, TypeOK
  <2>2. Unclaimed(d)' = Unclaimed(d)
    BY <1>2 DEF Unclaimed
  <2>3. reservedMatt'[d] = Held(d)'
    <3>1. reservedMatt[d] = 0 /\ entryMatt[d] = 0 /\ seededMatt[d] = 0
      BY <1>2, DayTypes DEF DayOK, Held
    <3> QED
      BY <1>2, <2>1, <3>1 DEF Held, Pool
  <2> QED
    BY <1>2, <2>1, <2>2, <2>3, DayTypes DEF DayOK, SettledOK
<1>6. ASSUME NEW e \in Days, e # d PROVE DayOK(e)' /\ SettledOK(e)'
  <2>1. status'[e] = status[e] /\ fee'[e] = fee[e]
    BY <1>2, <1>6 DEF Inv, TypeOK
  <2> QED
    BY <1>2, <2>1, DayKept, DayTypes
<1> QED
  BY <1>3, <1>4, <1>5, <1>6 DEF Inv

\* A seed enters the day's reserve, the total and the balance alike.
LEMMA SeedInv ==
    ASSUME Inv, NEW d \in Days, NEW amount \in 1..MaxDailySeed, SeedDay(d, amount)
    PROVE  Inv'
<1>1. amount \in Nat
  OBVIOUS
<1>2. /\ status[d] = "Scheduled"
      /\ vault[seedTreasury] >= amount
      /\ vault' = [vault EXCEPT ![seedTreasury] = @ - amount]
      /\ balance' = balance + amount
      /\ seededMatt' = [seededMatt EXCEPT ![d] = @ + amount]
      /\ reservedMatt' = [reservedMatt EXCEPT ![d] = @ + amount]
      /\ totalReserved' = totalReserved + amount
      /\ UNCHANGED <<now, status, fee, entryCount, entryMatt, walletCount, walletPaid,
                     entries, refundedMatt, walletRefunded, settledMatt, winners,
                     entriesPaused, settlementPaused, seedTreasury, purse, outside>>
  BY DEF SeedDay, Scheduled, AddReserve, refunds, payouts, admin
<1>3. /\ totalReserved' \in Nat /\ reservedMatt' \in [Days -> Nat]
      /\ IsSum(reservedMatt, MaxDay, totalReserved)'
  <2> DEFINE booked == reservedMatt[d] + amount
  <2>1. /\ reservedMatt' = [reservedMatt EXCEPT ![d] = booked]
        /\ booked \in Nat
        /\ totalReserved' = totalReserved - reservedMatt[d] + booked
    BY <1>1, <1>2, DayTypes
  <2> HIDE DEF booked
  <2> QED
    BY <2>1, BookDay
<1>4. TypeOK'
  <2>1. vault \in [Treasuries -> Nat] /\ seedTreasury \in Treasuries
    BY DEF Inv, TypeOK
  <2>2. vault' \in [Treasuries -> Nat]
    BY <1>1, <1>2, <2>1
  <2>3. seededMatt' \in [Days -> Nat] /\ balance' \in Nat
    <3>1. seededMatt \in [Days -> Nat] /\ balance \in Nat
      BY DEF Inv, TypeOK
    <3>2. seededMatt[d] + amount \in Nat
      BY <1>1, <3>1
    <3> QED
      BY <1>1, <1>2, <3>1, <3>2
  <2> QED
    BY <1>2, <1>3, <2>2, <2>3 DEF Inv, TypeOK
<1>5. Solvency'
  BY <1>1, <1>2, DayTypes DEF Solvency
<1>6. DayOK(d)' /\ SettledOK(d)'
  <2>1. seededMatt'[d] = seededMatt[d] + amount /\ reservedMatt'[d] = reservedMatt[d] + amount
    BY <1>2 DEF Inv, TypeOK
  <2>2. Unclaimed(d)' = Unclaimed(d)
    BY <1>2 DEF Unclaimed
  <2>3. reservedMatt'[d] = Held(d)'
    <3>1. reservedMatt[d] = entryMatt[d] + seededMatt[d]
      BY <1>2, DayTypes DEF DayOK, Held, Pool
    <3>2. entryMatt[d] \in Nat /\ seededMatt[d] \in Nat
      BY DayTypes
    <3> QED
      BY <1>1, <1>2, <2>1, <3>1, <3>2 DEF Held, Pool
  <2> QED
    BY <1>2, <2>2, <2>3, DayTypes DEF DayOK, SettledOK
<1>7. ASSUME NEW e \in Days, e # d PROVE DayOK(e)' /\ SettledOK(e)'
  <2>1. seededMatt'[e] = seededMatt[e] /\ reservedMatt'[e] = reservedMatt[e]
    BY <1>2, <1>7 DEF Inv, TypeOK
  <2> QED
    BY <1>2, <2>1, DayKept, DayTypes
<1> QED
  BY <1>3, <1>4, <1>5, <1>6, <1>7 DEF Inv

\* An entry is booked at all three levels with the same fee.
LEMMA EnterInv ==
    ASSUME Inv, NEW d \in Days, NEW w \in Wallets, Enter(d, w)
    PROVE  Inv'
<1>1. status[d] = "Scheduled"
  BY DEF Enter, Scheduled
<1>2. PICK price \in Nat : price = fee[d] /\ price > 0 /\ price \in MinEntryFee..MaxEntryFee
  <2>1. DayOK(d)
    BY DayTypes
  <2>2. fee[d] \in MinEntryFee..MaxEntryFee
    BY <1>1, <2>1 DEF DayOK
  <2> QED
    BY <2>2
<1>3. refundedMatt[d] = 0
  BY <1>1, DayTypes DEF DayOK
<1>4. /\ purse[w] >= price /\ purse' = [purse EXCEPT ![w] = @ - price]
      /\ balance' = balance + price
      /\ totalReserved' = totalReserved + price
      /\ reservedMatt' = [reservedMatt EXCEPT ![d] = @ + price]
  BY <1>2 DEF Enter, AddReserve
<1>5. /\ entryMatt' = [entryMatt EXCEPT ![d] = @ + price]
      /\ entryCount' = [entryCount EXCEPT ![d] = @ + 1]
      /\ entries' = Append(entries, [day |-> d, wallet |-> w, paid |-> price])
  BY <1>2 DEF Enter
<1>6. /\ walletCount' = [walletCount EXCEPT ![d] = [walletCount[d] EXCEPT ![w] = @ + 1]]
      /\ walletPaid' = [walletPaid EXCEPT ![d] = [walletPaid[d] EXCEPT ![w] = @ + price]]
  BY <1>2 DEF Enter
<1>7. UNCHANGED <<now, status, fee, seededMatt, refundedMatt, walletRefunded,
                  settledMatt, winners, entriesPaused, settlementPaused,
                  seedTreasury, vault, outside>>
  BY DEF Enter, refunds, payouts, admin
<1>8. /\ totalReserved' \in Nat /\ reservedMatt' \in [Days -> Nat]
      /\ IsSum(reservedMatt, MaxDay, totalReserved)'
  <2> DEFINE booked == reservedMatt[d] + price
  <2>1. /\ reservedMatt' = [reservedMatt EXCEPT ![d] = booked]
        /\ booked \in Nat
        /\ totalReserved' = totalReserved - reservedMatt[d] + booked
    BY <1>4, DayTypes
  <2> HIDE DEF booked
  <2> QED
    BY <2>1, BookDay
<1>9. /\ walletPaid \in [Days -> [Wallets -> Nat]]
      /\ walletRefunded \in [Days -> [Wallets -> Nat]]
      /\ walletCount \in [Days -> [Wallets -> Nat]]
  BY DEF Inv, TypeOK
<1>10. /\ walletPaid' \in [Days -> [Wallets -> Nat]]
       /\ walletPaid'[d][w] = walletPaid[d][w] + price
       /\ \A v \in Wallets \ {w} : walletPaid'[d][v] = walletPaid[d][v]
       /\ \A e \in Days \ {d} : walletPaid'[e] = walletPaid[e]
  <2>1. [walletPaid[d] EXCEPT ![w] = @ + price] \in [Wallets -> Nat]
    <3>1. walletPaid[d] \in [Wallets -> Nat]
      BY <1>9
    <3>2. walletPaid[d][w] + price \in Nat
      BY <3>1
    <3> QED
      BY <3>1, <3>2
  <2> QED
    BY <1>6, <1>9, <2>1
<1>11. /\ walletCount' \in [Days -> [Wallets -> Nat]]
       /\ \A v \in Wallets \ {w} : walletCount'[d][v] = walletCount[d][v]
       /\ \A e \in Days \ {d} : walletCount'[e] = walletCount[e]
  <2>1. [walletCount[d] EXCEPT ![w] = @ + 1] \in [Wallets -> Nat]
    <3>1. walletCount[d] \in [Wallets -> Nat]
      BY <1>9
    <3>2. walletCount[d][w] + 1 \in Nat
      BY <3>1
    <3> QED
      BY <3>1, <3>2
  <2>2. \A v \in Wallets \ {w} : [walletCount[d] EXCEPT ![w] = @ + 1][v] = walletCount[d][v]
    BY <1>9
  <2> DEFINE counts == [walletCount[d] EXCEPT ![w] = @ + 1]
  <2> HIDE DEF counts
  <2>3. walletCount' = [walletCount EXCEPT ![d] = counts]
    BY <1>6 DEF counts
  <2>4. walletCount' \in [Days -> [Wallets -> Nat]] /\ walletCount'[d] = counts
    BY <1>9, <2>1, <2>3 DEF counts
  <2>5. \A e \in Days \ {d} : walletCount'[e] = walletCount[e]
    BY <1>9, <2>3
  <2> QED
    BY <2>2, <2>4, <2>5 DEF counts
<1>12. TypeOK'
  <2>1. purse' \in [Wallets -> Nat]
    <3>1. purse \in [Wallets -> Nat]
      BY DEF Inv, TypeOK
    <3> QED
      BY <1>4, <3>1
  <2>2. balance' \in Nat
    BY <1>4, DayTypes
  <2>3. entryCount' \in [Days -> Nat] /\ entryMatt' \in [Days -> Nat]
    <3>1. entryCount \in [Days -> Nat] /\ entryMatt \in [Days -> Nat]
      BY DEF Inv, TypeOK
    <3>2. entryCount[d] + 1 \in Nat /\ entryMatt[d] + price \in Nat
      BY <3>1
    <3>3. entryCount' \in [Days -> Nat]
      BY <1>5, <3>1, <3>2
    <3>4. entryMatt' \in [Days -> Nat]
      BY <1>5, <3>1, <3>2
    <3> QED
      BY <3>3, <3>4
  <2>4. entries' \in Seq([day : Days, wallet : Wallets, paid : Nat])
    <3>1. [day |-> d, wallet |-> w, paid |-> price] \in [day : Days, wallet : Wallets, paid : Nat]
      OBVIOUS
    <3>2. entries \in Seq([day : Days, wallet : Wallets, paid : Nat])
      BY DEF Inv, TypeOK
    <3> QED
      BY <1>5, <3>1, <3>2
  <2> QED
    BY <1>7, <1>8, <1>10, <1>11, <2>1, <2>2, <2>3, <2>4 DEF Inv, TypeOK
<1>13. Solvency'
  BY <1>4, DayTypes DEF Solvency
<1>14. /\ entryMatt'[d] = entryMatt[d] + price
       /\ reservedMatt'[d] = reservedMatt[d] + price
       /\ \A e \in Days \ {d} : entryMatt'[e] = entryMatt[e]
                                /\ reservedMatt'[e] = reservedMatt[e]
  BY <1>4, <1>5 DEF Inv, TypeOK
<1>15. DayOK(d)' /\ SettledOK(d)'
  <2>1. entryMatt[d] \in Nat /\ seededMatt[d] \in Nat
    BY DayTypes
  <2>2. reservedMatt'[d] = Held(d)'
    <3>1. reservedMatt[d] = entryMatt[d] + seededMatt[d]
      BY <1>1, DayTypes DEF DayOK, Held, Pool
    <3>2. status'[d] = "Scheduled" /\ seededMatt'[d] = seededMatt[d]
      BY <1>1, <1>7
    <3> QED
      BY <1>14, <2>1, <3>1, <3>2 DEF Held, Pool
  <2>3. IsSum(walletPaid[d], MaxWallet, entryMatt[d])'
    <3>1. /\ walletPaid[d] \in [1..MaxWallet -> Nat] /\ walletPaid'[d] \in [1..MaxWallet -> Nat]
          /\ \A v \in 1..MaxWallet \ {w} : walletPaid'[d][v] = walletPaid[d][v]
          /\ IsSum(walletPaid[d], MaxWallet, entryMatt[d])
      BY <1>9, <1>10, DayTypes DEF DayOK
    <3>2. IsSum(walletPaid'[d], MaxWallet,
                entryMatt[d] - walletPaid[d][w] + walletPaid'[d][w])
      BY <2>1, <3>1, SumUpdate
    <3>3. entryMatt[d] - walletPaid[d][w] + walletPaid'[d][w] = entryMatt'[d]
      <4>1. walletPaid[d][w] \in Nat /\ walletPaid'[d][w] = walletPaid[d][w] + price
        BY <1>10, <3>1
      <4> QED
        BY <1>14, <2>1, <4>1
    <3> QED
      BY <3>2, <3>3
  <2>4. /\ Unclaimed(d) \in [1..MaxWallet -> Nat]
        /\ \A v \in Wallets : Unclaimed(d)[v] = walletPaid[d][v] - walletRefunded[d][v]
    BY DayTypes DEF DayOK, Unclaimed
  <2>5. \A v \in Wallets : Unclaimed(d)'[v] = walletPaid'[d][v] - walletRefunded[d][v]
    BY <1>7 DEF Unclaimed
  <2>6. /\ Unclaimed(d)'[w] = Unclaimed(d)[w] + price
        /\ \A v \in 1..MaxWallet \ {w} : Unclaimed(d)'[v] = Unclaimed(d)[v]
    <3>1. walletPaid[d][w] \in Nat /\ walletRefunded[d][w] \in Nat
      BY <1>9
    <3>2. Unclaimed(d)'[w] = (walletPaid[d][w] + price) - walletRefunded[d][w]
      BY <1>10, <2>5
    <3>3. Unclaimed(d)'[w] = Unclaimed(d)[w] + price
      BY <2>4, <3>1, <3>2
    <3>4. ASSUME NEW v \in Wallets \ {w} PROVE Unclaimed(d)'[v] = Unclaimed(d)[v]
      BY <1>10, <2>4, <2>5
    <3> QED
      BY <3>3, <3>4
  <2>7. Unclaimed(d)' \in [1..MaxWallet -> Nat]
    <3>1. \A v \in Wallets : Unclaimed(d)'[v] \in Nat
      BY <2>4, <2>6
    <3> QED
      BY <3>1 DEF Unclaimed
  <2>8. IsSum(Unclaimed(d), MaxWallet, entryMatt[d] - refundedMatt[d])'
    <3>1. IsSum(Unclaimed(d), MaxWallet, entryMatt[d])
      <4>1. IsSum(Unclaimed(d), MaxWallet, entryMatt[d] - refundedMatt[d])
        BY DayTypes DEF DayOK
      <4>2. entryMatt[d] - refundedMatt[d] = entryMatt[d]
        BY <1>3, <2>1
      <4> QED
        BY <4>1, <4>2
    <3>2. IsSum(Unclaimed(d)', MaxWallet,
                entryMatt[d] - Unclaimed(d)[w] + Unclaimed(d)'[w])
      BY <2>1, <2>4, <2>6, <2>7, <3>1, SumUpdate
    <3>3. entryMatt[d] - Unclaimed(d)[w] + Unclaimed(d)'[w] = entryMatt'[d] - refundedMatt'[d]
      <4>1. Unclaimed(d)[w] \in Nat /\ refundedMatt'[d] = 0
        BY <1>3, <1>7, <2>4
      <4> QED
        BY <1>14, <2>1, <2>6, <4>1
    <3> QED
      BY <3>2, <3>3
  <2>9. \A v \in Wallets : walletCount'[d][v] > 0 => walletPaid'[d][v] > 0
    <3>1. \A v \in Wallets : walletCount[d][v] > 0 => walletPaid[d][v] > 0
      BY DayTypes DEF DayOK
    <3>2. walletPaid'[d][w] > 0
      <4>1. walletPaid[d][w] \in Nat
        BY <1>9
      <4> QED
        BY <1>2, <1>10, <4>1
    <3>3. ASSUME NEW v \in Wallets \ {w}
          PROVE  walletCount'[d][v] = walletCount[d][v] /\ walletPaid'[d][v] = walletPaid[d][v]
      BY <1>10, <1>11
    <3> QED
      BY <3>1, <3>2, <3>3
  <2>10. /\ status'[d] = "Scheduled" /\ refundedMatt'[d] = 0
         /\ fee'[d] \in MinEntryFee..MaxEntryFee
         /\ refundedMatt'[d] <= entryMatt'[d]
    BY <1>1, <1>2, <1>3, <1>7, <1>14, <2>1
  <2>11. \A v \in Wallets : walletRefunded'[d][v] = 0
    BY <1>1, <1>7, DayTypes DEF DayOK
  <2> QED
    BY <2>2, <2>3, <2>7, <2>8, <2>9, <2>10, <2>11 DEF DayOK, SettledOK
<1>16. ASSUME NEW e \in Days, e # d PROVE DayOK(e)' /\ SettledOK(e)'
  <2>1. /\ entryMatt'[e] = entryMatt[e] /\ reservedMatt'[e] = reservedMatt[e]
        /\ walletPaid'[e] = walletPaid[e] /\ walletCount'[e] = walletCount[e]
    BY <1>10, <1>11, <1>14, <1>16
  <2> QED
    BY <1>7, <2>1, DayKept, DayTypes
<1> QED
  BY <1>8, <1>12, <1>13, <1>15, <1>16 DEF Inv

\* Settling frees the day's whole reserve, which is the pool it pays out.
LEMMA SettleInv ==
    ASSUME Inv, NEW d \in Days, NEW prizes \in [Wallets -> 0..Pool(d)], SettleDay(d, prizes)
    PROVE  Inv'
<1>1. status[d] = "Scheduled"
  BY DEF SettleDay, Settleable, Scheduled
<1>2. PICK pool \in Nat : pool = Pool(d)
  <2>1. entryMatt[d] \in Nat /\ seededMatt[d] \in Nat
    BY DayTypes
  <2>2. Pool(d) \in Nat
    BY <2>1 DEF Pool
  <2> QED
    BY <2>2
<1>3. reservedMatt[d] = pool /\ refundedMatt[d] = 0 /\ pool <= totalReserved
  BY <1>1, <1>2, DayTypes DEF DayOK, Held
<1>4. /\ status' = [status EXCEPT ![d] = "Settled"]
      /\ settledMatt' = [settledMatt EXCEPT ![d] = pool]
      /\ winners' = [winners EXCEPT ![d] = prizes]
  BY <1>2 DEF SettleDay
<1>5. /\ reservedMatt' = [reservedMatt EXCEPT ![d] = 0]
      /\ totalReserved' = totalReserved - pool
      /\ balance' = balance - pool
      /\ purse' = [w \in Wallets |-> purse[w] + prizes[w]]
  BY <1>2 DEF SettleDay
<1>6. UNCHANGED <<now, fee, entryCount, entryMatt, seededMatt, walletCount, walletPaid,
                  entries, refundedMatt, walletRefunded, entriesPaused, settlementPaused,
                  seedTreasury, vault, outside>>
  BY DEF SettleDay, takings, refunds, admin
<1>7. /\ IsSum(prizes, MaxWallet, pool)
      /\ \A w \in Wallets : prizes[w] > 0 => walletCount[d][w] > 0
  BY <1>2 DEF SettleDay, ValidPrizes
<1>8. prizes \in [Wallets -> Nat]
  <2>1. \A w \in Wallets : prizes[w] \in 0..pool
    BY <1>2
  <2> QED
    BY <1>2, <2>1
<1>9. /\ totalReserved' \in Nat /\ reservedMatt' \in [Days -> Nat]
      /\ IsSum(reservedMatt, MaxDay, totalReserved)'
  <2>1. totalReserved' = totalReserved - reservedMatt[d] + 0
    BY <1>3, <1>5, DayTypes
  <2> QED
    BY <1>5, <2>1, BookDay
<1>10. TypeOK'
  <2>1. status' \in [Days -> {"Unscheduled", "Scheduled", "Settled", "Cancelled"}]
    BY <1>4 DEF Inv, TypeOK
  <2>2. settledMatt' \in [Days -> Nat]
    BY <1>4 DEF Inv, TypeOK
  <2>3. winners' \in [Days -> [Wallets -> Nat]]
    BY <1>4, <1>8 DEF Inv, TypeOK
  <2>4. purse' \in [Wallets -> Nat]
    <3>1. purse \in [Wallets -> Nat]
      BY DEF Inv, TypeOK
    <3> QED
      BY <1>5, <1>8, <3>1
  <2>5. balance' \in Nat
    BY <1>3, <1>5, DayTypes
  <2> QED
    BY <1>6, <1>9, <2>1, <2>2, <2>3, <2>4, <2>5 DEF Inv, TypeOK
<1>11. Solvency'
  BY <1>3, <1>5, DayTypes DEF Solvency
<1>12. /\ status'[d] = "Settled" /\ settledMatt'[d] = pool /\ winners'[d] = prizes
       /\ reservedMatt'[d] = 0
       /\ \A e \in Days \ {d} : /\ status'[e] = status[e] /\ settledMatt'[e] = settledMatt[e]
                                /\ winners'[e] = winners[e]
                                /\ reservedMatt'[e] = reservedMatt[e]
  BY <1>4, <1>5 DEF Inv, TypeOK
<1>13. DayOK(d)' /\ SettledOK(d)'
  <2>1. Unclaimed(d)' = Unclaimed(d) /\ Pool(d)' = pool
    BY <1>2, <1>6 DEF Unclaimed, Pool
  <2>2. SettledOK(d)'
    BY <1>6, <1>7, <1>12, <2>1 DEF SettledOK
  <2>3. reservedMatt'[d] = Held(d)'
    BY <1>12 DEF Held
  <2> QED
    BY <1>1, <1>3, <1>6, <1>12, <2>1, <2>2, <2>3, DayTypes DEF DayOK
<1>14. ASSUME NEW e \in Days, e # d PROVE DayOK(e)' /\ SettledOK(e)'
  BY <1>6, <1>12, <1>14, DayKept, DayTypes
<1> QED
  BY <1>9, <1>10, <1>11, <1>13, <1>14 DEF Inv

\* Cancelling frees the seed and keeps every fee reserved.
LEMMA CancelInv ==
    ASSUME Inv, NEW d \in Days, CancelDay(d)
    PROVE  Inv'
<1>1. status[d] = "Scheduled"
  BY DEF CancelDay, Cancellable, Scheduled
<1>2. PICK seed \in Nat : seed = seededMatt[d]
  BY DayTypes
<1>3. PICK fees \in Nat : fees = entryMatt[d]
  BY DayTypes
<1>4. reservedMatt[d] = fees + seed /\ refundedMatt[d] = 0
  BY <1>1, <1>2, <1>3, DayTypes DEF DayOK, Held, Pool
<1>5. seed <= totalReserved
  BY <1>4, DayTypes
<1>6. /\ status' = [status EXCEPT ![d] = "Cancelled"]
      /\ reservedMatt' = [reservedMatt EXCEPT ![d] = @ - seed]
      /\ totalReserved' = totalReserved - seed
      /\ balance' = balance - seed
      /\ vault' = [vault EXCEPT ![seedTreasury] = @ + seed]
  BY <1>2 DEF CancelDay, TakeReserve, Released
<1>7. UNCHANGED <<now, fee, entryCount, entryMatt, seededMatt, walletCount, walletPaid,
                  entries, refundedMatt, walletRefunded, settledMatt, winners,
                  entriesPaused, settlementPaused, seedTreasury, purse, outside>>
  BY DEF CancelDay, takings, refunds, payouts, admin
<1>8. reservedMatt' = [reservedMatt EXCEPT ![d] = fees]
  BY <1>4, <1>6
<1>9. /\ totalReserved' \in Nat /\ reservedMatt' \in [Days -> Nat]
      /\ IsSum(reservedMatt, MaxDay, totalReserved)'
  <2>1. totalReserved' = totalReserved - reservedMatt[d] + fees
    BY <1>4, <1>6, DayTypes
  <2> QED
    BY <1>8, <2>1, BookDay
<1>10. TypeOK'
  <2>1. status' \in [Days -> {"Unscheduled", "Scheduled", "Settled", "Cancelled"}]
    BY <1>6 DEF Inv, TypeOK
  <2>2. balance' \in Nat
    BY <1>5, <1>6, DayTypes
  <2>3. vault' \in [Treasuries -> Nat]
    <3>1. vault \in [Treasuries -> Nat] /\ seedTreasury \in Treasuries
      BY DEF Inv, TypeOK
    <3>2. vault[seedTreasury] + seed \in Nat
      BY <3>1
    <3> QED
      BY <1>6, <3>1, <3>2
  <2> QED
    BY <1>7, <1>9, <2>1, <2>2, <2>3 DEF Inv, TypeOK
<1>11. Solvency'
  BY <1>5, <1>6, DayTypes DEF Solvency
<1>12. /\ status'[d] = "Cancelled" /\ reservedMatt'[d] = fees
       /\ \A e \in Days \ {d} : status'[e] = status[e] /\ reservedMatt'[e] = reservedMatt[e]
  BY <1>6, <1>8 DEF Inv, TypeOK
<1>13. DayOK(d)' /\ SettledOK(d)'
  <2>1. Unclaimed(d)' = Unclaimed(d)
    BY <1>7 DEF Unclaimed
  <2>2. reservedMatt'[d] = Held(d)'
    <3>1. entryMatt'[d] - refundedMatt'[d] = fees
      BY <1>3, <1>4, <1>7
    <3> QED
      BY <1>12, <3>1 DEF Held
  <2> QED
    BY <1>1, <1>4, <1>7, <1>12, <2>1, <2>2, DayTypes DEF DayOK, SettledOK
<1>14. ASSUME NEW e \in Days, e # d PROVE DayOK(e)' /\ SettledOK(e)'
  BY <1>7, <1>12, <1>14, DayKept, DayTypes
<1> QED
  BY <1>9, <1>10, <1>11, <1>13, <1>14 DEF Inv

\* A refund is booked at all three levels, and never takes more than the day
\* and the contract still reserve.
LEMMA ClaimInv ==
    ASSUME Inv, NEW d \in Days, NEW w \in Wallets, ClaimEntryRefund(d, w)
    PROVE  Inv'
<1>1. status[d] = "Cancelled"
  BY DEF ClaimEntryRefund, RefundOpen
<1>2. /\ Unclaimed(d) \in [1..MaxWallet -> Nat]
      /\ \A v \in Wallets : Unclaimed(d)[v] = walletPaid[d][v] - walletRefunded[d][v]
      /\ IsSum(Unclaimed(d), MaxWallet, entryMatt[d] - refundedMatt[d])
  BY DayTypes DEF DayOK, Unclaimed
<1>3. PICK amount \in Nat : amount = Unclaimed(d)[w]
  BY <1>2
<1>4. PICK left \in Nat : left = entryMatt[d] - refundedMatt[d]
  <2>1. entryMatt[d] \in Nat /\ refundedMatt[d] \in Nat /\ refundedMatt[d] <= entryMatt[d]
    BY DayTypes DEF DayOK
  <2>2. entryMatt[d] - refundedMatt[d] \in Nat
    BY <2>1
  <2> QED
    BY <2>2
<1>5. amount <= left
  BY <1>2, <1>3, <1>4, SumBounds
<1>6. reservedMatt[d] = left /\ left <= totalReserved
  BY <1>1, <1>4, DayTypes DEF DayOK, Held
<1>7. /\ walletRefunded' = [walletRefunded EXCEPT ![d] = [walletRefunded[d] EXCEPT ![w] = @ + amount]]
      /\ refundedMatt' = [refundedMatt EXCEPT ![d] = @ + amount]
      /\ reservedMatt' = [reservedMatt EXCEPT ![d] = @ - amount]
  BY <1>3 DEF ClaimEntryRefund, BookRefund, TakeReserve
<1>8. /\ totalReserved' = totalReserved - amount
      /\ balance' = balance - amount
      /\ purse' = [purse EXCEPT ![w] = @ + amount]
  BY <1>3 DEF ClaimEntryRefund, BookRefund, TakeReserve
<1>9. UNCHANGED <<now, status, fee, entryCount, entryMatt, seededMatt, walletCount,
                  walletPaid, entries, settledMatt, winners, entriesPaused,
                  settlementPaused, seedTreasury, vault, outside>>
  BY DEF ClaimEntryRefund, takings, payouts, admin
<1>10. /\ totalReserved' \in Nat /\ reservedMatt' \in [Days -> Nat]
       /\ IsSum(reservedMatt, MaxDay, totalReserved)'
  <2> DEFINE booked == left - amount
  <2>1. /\ reservedMatt' = [reservedMatt EXCEPT ![d] = booked]
        /\ booked \in Nat
        /\ totalReserved' = totalReserved - reservedMatt[d] + booked
    <3>1. totalReserved \in Nat
      BY DayTypes
    <3>2. reservedMatt' = [reservedMatt EXCEPT ![d] = booked]
      BY <1>6, <1>7
    <3> QED
      BY <1>5, <1>6, <1>8, <3>1, <3>2
  <2> HIDE DEF booked
  <2> QED
    BY <2>1, BookDay
<1>11. /\ walletPaid \in [Days -> [Wallets -> Nat]]
       /\ walletRefunded \in [Days -> [Wallets -> Nat]]
  BY DEF Inv, TypeOK
<1>12. /\ walletRefunded' \in [Days -> [Wallets -> Nat]]
       /\ walletRefunded'[d][w] = walletRefunded[d][w] + amount
       /\ \A v \in Wallets \ {w} : walletRefunded'[d][v] = walletRefunded[d][v]
       /\ \A e \in Days \ {d} : walletRefunded'[e] = walletRefunded[e]
  <2>1. [walletRefunded[d] EXCEPT ![w] = @ + amount] \in [Wallets -> Nat]
    <3>1. walletRefunded[d] \in [Wallets -> Nat]
      BY <1>11
    <3>2. walletRefunded[d][w] + amount \in Nat
      BY <3>1
    <3> QED
      BY <3>1, <3>2
  <2> QED
    BY <1>7, <1>11, <2>1
<1>13. refundedMatt \in [Days -> Nat] /\ refundedMatt' \in [Days -> Nat]
  <2>1. refundedMatt \in [Days -> Nat]
    BY DEF Inv, TypeOK
  <2>2. refundedMatt[d] + amount \in Nat
    BY <2>1
  <2> QED
    BY <1>7, <2>1, <2>2
<1>14. TypeOK'
  <2>1. purse' \in [Wallets -> Nat]
    <3>1. purse \in [Wallets -> Nat]
      BY DEF Inv, TypeOK
    <3> QED
      BY <1>8, <3>1
  <2>2. balance' \in Nat
    BY <1>5, <1>6, <1>8, DayTypes
  <2> QED
    BY <1>9, <1>10, <1>12, <1>13, <2>1, <2>2 DEF Inv, TypeOK
<1>15. Solvency'
  BY <1>5, <1>6, <1>8, DayTypes DEF Solvency
<1>16. /\ refundedMatt'[d] = refundedMatt[d] + amount
       /\ reservedMatt'[d] = left - amount
       /\ \A e \in Days \ {d} : refundedMatt'[e] = refundedMatt[e]
                                /\ reservedMatt'[e] = reservedMatt[e]
  BY <1>6, <1>7, <1>13 DEF Inv, TypeOK
<1>17. DayOK(d)' /\ SettledOK(d)'
  <2>1. entryMatt[d] \in Nat /\ refundedMatt[d] \in Nat
    BY DayTypes
  <2>2. entryMatt'[d] - refundedMatt'[d] = left - amount /\ refundedMatt'[d] <= entryMatt'[d]
    BY <1>4, <1>5, <1>9, <1>16, <2>1
  <2>3. reservedMatt'[d] = Held(d)'
    BY <1>1, <1>9, <1>16, <2>2 DEF Held
  <2>4. \A v \in Wallets : Unclaimed(d)'[v] = walletPaid[d][v] - walletRefunded'[d][v]
    BY <1>9 DEF Unclaimed
  <2>5. Unclaimed(d)'[w] = 0
    <3>1. walletPaid[d][w] \in Nat /\ walletRefunded[d][w] \in Nat
      BY <1>11
    <3>2. amount = walletPaid[d][w] - walletRefunded[d][w]
      BY <1>2, <1>3
    <3>3. Unclaimed(d)'[w] = walletPaid[d][w] - (walletRefunded[d][w] + amount)
      BY <1>12, <2>4
    <3> QED
      BY <3>1, <3>2, <3>3
  <2>6. \A v \in 1..MaxWallet \ {w} : Unclaimed(d)'[v] = Unclaimed(d)[v]
    BY <1>2, <1>12, <2>4
  <2>7. Unclaimed(d)' \in [1..MaxWallet -> Nat]
    <3>1. ASSUME NEW v \in Wallets PROVE Unclaimed(d)'[v] \in Nat
      <4>1. CASE v = w
        BY <2>5, <4>1
      <4>2. CASE v # w
        <5>1. Unclaimed(d)[v] \in Nat
          BY <1>2
        <5> QED
          BY <2>6, <4>2, <5>1
      <4> QED
        BY <4>1, <4>2
    <3> QED
      BY <3>1 DEF Unclaimed
  <2>8. IsSum(Unclaimed(d), MaxWallet, entryMatt[d] - refundedMatt[d])'
    <3>1. IsSum(Unclaimed(d)', MaxWallet, left - Unclaimed(d)[w] + Unclaimed(d)'[w])
      BY <1>2, <1>4, <2>6, <2>7, SumUpdate
    <3>2. left - Unclaimed(d)[w] + Unclaimed(d)'[w] = entryMatt'[d] - refundedMatt'[d]
      BY <1>3, <2>2, <2>5
    <3> QED
      BY <3>1, <3>2
  <2> QED
    BY <1>1, <1>9, <2>2, <2>3, <2>7, <2>8, DayTypes DEF DayOK, SettledOK
<1>18. ASSUME NEW e \in Days, e # d PROVE DayOK(e)' /\ SettledOK(e)'
  BY <1>9, <1>12, <1>16, <1>18, DayKept, DayTypes
<1> QED
  BY <1>10, <1>14, <1>15, <1>17, <1>18 DEF Inv

\* The operations on the contract as a whole leave every day's books alone and
\* never take more than the excess over the reserve.
LEMMA ContractInv ==
    ASSUME Inv, ContractStep
    PROVE  Inv'
<1>1. UNCHANGED <<now, status, fee, entryCount, entryMatt, seededMatt, walletCount,
                  walletPaid, entries, refundedMatt, walletRefunded, settledMatt,
                  winners, reservedMatt, totalReserved, purse>>
  BY DEF ContractStep, RecoverExcess, SetSeedTreasury, SetEntriesPaused,
         SetSettlementPaused, StrayTransfer, books, takings, refunds, payouts,
         reserve, tokens
<1>2. \A d \in Days : DayOK(d)' /\ SettledOK(d)'
  BY <1>1, DayKept DEF Inv
<1>3. /\ totalReserved \in Nat /\ balance \in Nat /\ outside \in Nat
      /\ totalReserved <= balance /\ seedTreasury \in Treasuries
      /\ vault \in [Treasuries -> Nat]
      /\ entriesPaused \in BOOLEAN /\ settlementPaused \in BOOLEAN
  BY DEF Inv, TypeOK, Solvency
<1>4. /\ balance' \in Nat /\ totalReserved <= balance' /\ outside' \in Nat
      /\ seedTreasury' \in Treasuries /\ vault' \in [Treasuries -> Nat]
      /\ entriesPaused' \in BOOLEAN /\ settlementPaused' \in BOOLEAN
  <2>1. ASSUME NEW amount \in 1..balance, RecoverExcess(amount)
        PROVE  <1>4!:
    <3>1. amount \in Nat /\ amount <= balance - totalReserved
      BY <1>3, <2>1 DEF RecoverExcess, Excess
    <3>2. /\ balance' = balance - amount
          /\ vault' = [vault EXCEPT ![seedTreasury] = @ + amount]
          /\ UNCHANGED <<outside, seedTreasury, entriesPaused, settlementPaused>>
      BY <2>1 DEF RecoverExcess, admin
    <3>3. vault[seedTreasury] + amount \in Nat
      BY <1>3, <3>1
    <3>4. vault' \in [Treasuries -> Nat]
      BY <1>3, <3>2, <3>3
    <3> QED
      BY <1>3, <3>1, <3>2, <3>4
  <2>2. ASSUME NEW t \in Treasuries, SetSeedTreasury(t)
        PROVE  <1>4!:
    BY <1>3, <2>2 DEF SetSeedTreasury, tokens
  <2>3. ASSUME NEW flag \in BOOLEAN, SetEntriesPaused(flag) \/ SetSettlementPaused(flag)
        PROVE  <1>4!:
    BY <1>3, <2>3 DEF SetEntriesPaused, SetSettlementPaused, tokens
  <2>4. ASSUME NEW amount \in 1..outside, StrayTransfer(amount)
        PROVE  <1>4!:
    BY <1>3, <2>4 DEF StrayTransfer, admin
  <2> QED
    BY <2>1, <2>2, <2>3, <2>4 DEF ContractStep
<1>5. TypeOK'
  BY <1>1, <1>4 DEF Inv, TypeOK
<1>6. Solvency' /\ IsSum(reservedMatt, MaxDay, totalReserved)'
  BY <1>1, <1>4 DEF Inv, Solvency
<1> QED
  BY <1>2, <1>5, <1>6 DEF Inv

\* A step that changes at most the clock keeps the invariant.
LEMMA ClockInv ==
    ASSUME Inv, Tick \/ UNCHANGED vars
    PROVE  Inv'
<1>1. now' \in Nat
  BY DEF Inv, TypeOK, Tick, vars
<1>2. UNCHANGED <<status, fee, entryCount, entryMatt, seededMatt, walletCount,
                  walletPaid, entries, refundedMatt, walletRefunded, settledMatt,
                  winners, reservedMatt, totalReserved, entriesPaused,
                  settlementPaused, seedTreasury, balance, purse, vault, outside>>
  BY DEF Tick, vars, books, takings, refunds, payouts, reserve, admin, tokens
<1>3. TypeOK'
  BY <1>1, <1>2 DEF Inv, TypeOK
<1>4. \A d \in Days : DayOK(d)' /\ SettledOK(d)'
  BY <1>2, DayKept DEF Inv
<1> QED
  BY <1>2, <1>3, <1>4 DEF Inv, Solvency

LEMMA NextInv == Inv /\ [Next]_vars => Inv'
<1> SUFFICES ASSUME Inv, [Next]_vars PROVE Inv'
  OBVIOUS
<1>1. CASE Tick \/ UNCHANGED vars
  BY <1>1, ClockInv
<1>2. ASSUME NEW d \in Days, DayStep(d) PROVE Inv'
  BY <1>2, ScheduleInv, SeedInv, EnterInv, SettleInv, CancelInv, ClaimInv DEF DayStep
<1>3. CASE ContractStep
  BY <1>3, ContractInv
<1> QED
  BY <1>1, <1>2, <1>3 DEF Next

LEMMA ArenaInv == Spec => []Inv
<1>1. Inv /\ [Next]_vars => Inv'
  BY NextInv
<1> QED
  BY <1>1, InitInv, PTL DEF Spec

\* Nothing the contract computes leaves its type: no reserve, refund or balance
\* is ever driven below zero (the subtractions of settleDay, cancelDay and
\* claimEntryRefund never revert).
THEOREM TypeCorrect == Spec => []TypeOK
<1>1. Inv => TypeOK
  BY DEF Inv
<1> QED
  BY <1>1, ArenaInv, PTL

\* The MATT held always covers what is promised (availableExcessMatt never has
\* to fall back to 0).
THEOREM Solvent == Spec => []Solvency
<1>1. Inv => Solvency
  BY DEF Inv
<1> QED
  BY <1>1, ArenaInv, PTL

\* Contract, days and wallets agree in every reachable state.
THEOREM BooksAgree == Spec => []BooksBalance
<1>1. Inv => BooksBalance
  BY DEF Inv, DayOK, BooksBalance
<1> QED
  BY <1>1, ArenaInv, PTL

\* A cancelled day's entrant can always be refunded in full.
THEOREM RefundsCovered == Spec => []RefundGuaranteed
<1>1. ASSUME Inv PROVE RefundGuaranteed
  <2> SUFFICES ASSUME NEW d \in Days, NEW w \in Wallets
               PROVE  Refundable(d, w) <= reservedMatt[d] /\ reservedMatt[d] <= balance
    BY DEF RefundGuaranteed
  <2>1. reservedMatt[d] <= balance /\ reservedMatt[d] \in Nat
    BY <1>1, DayTypes
  <2>2. CASE status[d] = "Cancelled"
    <3>1. /\ Unclaimed(d) \in [1..MaxWallet -> Nat]
          /\ IsSum(Unclaimed(d), MaxWallet, reservedMatt[d])
      BY <1>1, <2>2, DayTypes DEF DayOK, Held
    <3>2. Unclaimed(d)[w] <= reservedMatt[d]
      BY <2>1, <3>1, SumBounds
    <3> QED
      BY <2>1, <2>2, <3>2 DEF Refundable
  <2>3. CASE status[d] # "Cancelled"
    BY <2>1, <2>3 DEF Refundable
  <2> QED
    BY <2>2, <2>3
<1> QED
  BY <1>1, ArenaInv, PTL

\* A settled day paid its whole pool to its entrants.
THEOREM SettledDaysPaid == Spec => []PoolPaidOut
<1>1. Inv => PoolPaidOut
  BY DEF Inv, DayOK, SettledOK, PoolPaidOut
<1> QED
  BY <1>1, ArenaInv, PTL

\* A seed is always returned to the address that paid it: while a scheduled day
\* holds one the contract reserves something, and the treasury cannot change.
THEOREM SeedReturned == Spec => SeedGoesHome
<1>1. ASSUME Inv, [Next]_vars, NEW d \in Days, Scheduled(d), seededMatt[d] > 0
      PROVE  seedTreasury' = seedTreasury
  <2>1. entryMatt[d] \in Nat /\ seededMatt[d] \in Nat /\ totalReserved \in Nat
        /\ reservedMatt[d] <= totalReserved
    BY <1>1, DayTypes
  <2>2. reservedMatt[d] = entryMatt[d] + seededMatt[d]
    BY <1>1, DayTypes DEF DayOK, Held, Pool, Scheduled
  <2>3. totalReserved # 0
    BY <1>1, <2>1, <2>2
  <2>4. CASE Tick \/ UNCHANGED vars
    BY <2>4 DEF Tick, vars, admin
  <2>5. ASSUME NEW e \in Days, DayStep(e) PROVE seedTreasury' = seedTreasury
    BY <2>5 DEF DayStep, ScheduleDay, SeedDay, Enter, SettleDay, CancelDay,
                ClaimEntryRefund, admin
  <2>6. CASE ContractStep
    BY <2>3, <2>6 DEF ContractStep, RecoverExcess, SetSeedTreasury, TreasuryMovable,
                      SetEntriesPaused, SetSettlementPaused, StrayTransfer, admin
  <2> QED
    BY <1>1, <2>4, <2>5, <2>6 DEF Next
<1>2. Inv /\ [Next]_vars =>
        ((\E d \in Days : Scheduled(d) /\ seededMatt[d] > 0) => seedTreasury' = seedTreasury)
  BY <1>1
<1> QED
  BY <1>2, ArenaInv, PTL DEF Spec, SeedGoesHome

\* What a step can do to a day that is already settled or cancelled.
LEMMA ClosedDayStep ==
    ASSUME Inv, [Next]_vars, NEW d \in Days, Closed(d)
    PROVE  /\ status'[d] = status[d] /\ entryMatt'[d] = entryMatt[d]
           /\ seededMatt'[d] = seededMatt[d] /\ settledMatt'[d] = settledMatt[d]
           /\ refundedMatt'[d] >= refundedMatt[d]
<1> DEFINE Kept == /\ status'[d] = status[d] /\ entryMatt'[d] = entryMatt[d]
                   /\ seededMatt'[d] = seededMatt[d] /\ settledMatt'[d] = settledMatt[d]
                   /\ refundedMatt'[d] >= refundedMatt[d]
<1>1. /\ status[d] \in {"Settled", "Cancelled"} /\ refundedMatt[d] \in Nat
      /\ refundedMatt \in [Days -> Nat]
  BY DayTypes DEF Closed, Inv, TypeOK
<1>2. CASE Tick \/ UNCHANGED vars \/ ContractStep
  BY <1>1, <1>2 DEF Tick, vars, ContractStep, RecoverExcess, SetSeedTreasury,
     SetEntriesPaused, SetSettlementPaused, StrayTransfer, books, takings, refunds, payouts
<1>3. ASSUME NEW e \in Days, DayStep(e) PROVE Kept
  <2>1. CASE e = d
    <3>1. \E w \in Wallets : ClaimEntryRefund(d, w)
      BY <1>1, <1>3, <2>1 DEF DayStep, ScheduleDay, Unpriced, SeedDay, Enter, SettleDay,
         Settleable, CancelDay, Cancellable, Scheduled
    <3>2. ASSUME NEW w \in Wallets, ClaimEntryRefund(d, w) PROVE Kept
      <4>1. PICK amount \in Nat : amount = Unclaimed(d)[w]
        BY DayTypes DEF DayOK
      <4>2. /\ refundedMatt' = [refundedMatt EXCEPT ![d] = @ + amount]
            /\ UNCHANGED <<status, entryMatt, seededMatt, settledMatt>>
        BY <3>2, <4>1 DEF ClaimEntryRefund, BookRefund, takings, payouts
      <4>3. refundedMatt'[d] = refundedMatt[d] + amount
        BY <1>1, <4>2
      <4> QED
        BY <1>1, <4>1, <4>2, <4>3
    <3> QED
      BY <3>1, <3>2
  <2>2. CASE e # d
    <3>1. ASSUME NEW price \in MinEntryFee..MaxEntryFee, ScheduleDay(e, price) PROVE Kept
      BY <1>1, <2>2, <3>1 DEF ScheduleDay, refunds, payouts, Inv, TypeOK
    <3>2. ASSUME NEW amount \in 1..MaxDailySeed, SeedDay(e, amount) PROVE Kept
      BY <1>1, <2>2, <3>2 DEF SeedDay, refunds, payouts, Inv, TypeOK
    <3>3. ASSUME NEW w \in Wallets, Enter(e, w) PROVE Kept
      BY <1>1, <2>2, <3>3 DEF Enter, refunds, payouts, Inv, TypeOK
    <3>4. ASSUME NEW prizes \in [Wallets -> 0..Pool(e)], SettleDay(e, prizes) PROVE Kept
      BY <1>1, <2>2, <3>4 DEF SettleDay, takings, refunds, Inv, TypeOK
    <3>5. ASSUME CancelDay(e) PROVE Kept
      BY <1>1, <2>2, <3>5 DEF CancelDay, takings, refunds, payouts, Inv, TypeOK
    <3>6. ASSUME NEW w \in Wallets, ClaimEntryRefund(e, w) PROVE Kept
      <4>1. /\ refundedMatt' = [refundedMatt EXCEPT ![e] = @ + Unclaimed(e)[w]]
            /\ UNCHANGED <<status, entryMatt, seededMatt, settledMatt>>
        BY <3>6 DEF ClaimEntryRefund, BookRefund, takings, payouts
      <4> QED
        BY <1>1, <2>2, <4>1
    <3> QED
      BY <1>3, <3>1, <3>2, <3>3, <3>4, <3>5, <3>6 DEF DayStep
  <2> QED
    BY <2>1, <2>2
<1> QED
  BY <1>2, <1>3 DEF Next

\* A day is closed once, one way, and for good.
THEOREM DaysStayClosed == Spec => ClosedDayFinal
<1>1. Inv /\ [Next]_vars =>
        (\A d \in Days : Closed(d) =>
            /\ status'[d] = status[d]
            /\ entryMatt'[d] = entryMatt[d]
            /\ seededMatt'[d] = seededMatt[d]
            /\ settledMatt'[d] = settledMatt[d]
            /\ refundedMatt'[d] >= refundedMatt[d])
  BY ClosedDayStep
<1> QED
  BY <1>1, ArenaInv, PTL DEF Spec, ClosedDayFinal

-----------------------------------------------------------------------------
(* Step by step, the contract implements PrizeEscrow.                       *)

EscrowStep == [Escrow!EscrowNext]_<<Phase, reservedMatt, Owed, winners>>

LEMMA EscrowInit == Init => Escrow!EscrowInit
<1> SUFFICES ASSUME Init PROVE Escrow!EscrowInit
  OBVIOUS
<1>1. \A d \in Days : EscrowPhase[status[d]] = "idle"
  BY DEF Init, EscrowPhase
<1>2. \A d \in Days : Unclaimed(d) = [w \in Wallets |-> 0]
  BY DEF Init, Unclaimed, NoWallet
<1> QED
  BY <1>1, <1>2 DEF Escrow!EscrowInit, Escrow!Pools, Escrow!Players, Init, NoMatt, NoPrizes,
                   Phase, Owed

\* A status that changes on day d alone is a phase that changes on d alone.
LEMMA PhaseStep ==
    ASSUME Inv, NEW d \in Days, NEW st, status' = [status EXCEPT ![d] = st]
    PROVE  Phase' = [Phase EXCEPT ![d] = EscrowPhase[st]]
<1>1. status \in [Days -> {"Unscheduled", "Scheduled", "Settled", "Cancelled"}]
  BY DEF Inv, TypeOK
<1> QED
  BY <1>1 DEF Phase

LEMMA SameSum ==
    ASSUME NEW f, NEW n, NEW total
    PROVE  Escrow!IsSum(f, n, total) <=> IsSum(f, n, total)
BY DEF IsSum, IsLadder, Escrow!IsSum, Escrow!IsLadder

LEMMA ScheduleEscrow ==
    ASSUME Inv, NEW d \in Days, NEW price \in MinEntryFee..MaxEntryFee, ScheduleDay(d, price)
    PROVE  EscrowStep
<1>1. /\ status[d] = "Unscheduled" /\ status' = [status EXCEPT ![d] = "Scheduled"]
      /\ UNCHANGED <<reservedMatt, walletPaid, walletRefunded, winners>>
  BY DEF ScheduleDay, Unpriced, reserve, refunds, payouts
<1>2. Phase[d] = "idle" /\ Phase' = [Phase EXCEPT ![d] = "open"]
  <2>1. Phase' = [Phase EXCEPT ![d] = EscrowPhase["Scheduled"]]
    BY <1>1, PhaseStep
  <2> QED
    BY <1>1, <2>1 DEF Phase, EscrowPhase
<1>3. Owed' = Owed
  BY <1>1 DEF Owed, Unclaimed
<1>4. Escrow!Open(d)
  BY <1>1, <1>2, <1>3 DEF Escrow!Open
<1> QED
  BY <1>4 DEF EscrowStep, Escrow!EscrowNext, Escrow!Pools

LEMMA SeedEscrow ==
    ASSUME Inv, NEW d \in Days, NEW amount \in 1..MaxDailySeed, SeedDay(d, amount)
    PROVE  EscrowStep
<1>1. /\ status[d] = "Scheduled"
      /\ reservedMatt' = [reservedMatt EXCEPT ![d] = @ + amount]
      /\ UNCHANGED <<status, walletPaid, walletRefunded, winners>>
  BY DEF SeedDay, Scheduled, AddReserve, refunds, payouts
<1>2. Phase[d] = "open" /\ Phase' = Phase /\ Owed' = Owed
  BY <1>1 DEF Phase, EscrowPhase, Owed, Unclaimed
<1>3. Escrow!Sponsor(d, amount)
  BY <1>1, <1>2 DEF Escrow!Sponsor
<1> QED
  BY <1>3 DEF EscrowStep, Escrow!EscrowNext, Escrow!Pools

LEMMA EnterEscrow ==
    ASSUME Inv, NEW d \in Days, NEW w \in Wallets, Enter(d, w)
    PROVE  EscrowStep
<1>1. status[d] = "Scheduled"
  BY DEF Enter, Scheduled
<1>2. PICK price \in MinEntryFee..MaxEntryFee : price = fee[d]
  BY <1>1, DayTypes DEF DayOK
<1>3. /\ reservedMatt' = [reservedMatt EXCEPT ![d] = @ + price]
      /\ walletPaid' = [walletPaid EXCEPT ![d] = [walletPaid[d] EXCEPT ![w] = @ + price]]
      /\ UNCHANGED <<status, walletRefunded, winners>>
  BY <1>2 DEF Enter, AddReserve, refunds, payouts
<1>4. Phase[d] = "open" /\ Phase' = Phase
  BY <1>1, <1>3 DEF Phase, EscrowPhase
<1>5. Owed' = [Owed EXCEPT ![d] = [Owed[d] EXCEPT ![w] = @ + price]]
  <2>1. /\ walletPaid \in [Days -> [Wallets -> Nat]]
        /\ walletRefunded \in [Days -> [Wallets -> Nat]]
    BY DEF Inv, TypeOK
  <2>2. ASSUME NEW e \in Days \ {d} PROVE Unclaimed(e)' = Unclaimed(e)
    BY <1>3, <2>1 DEF Unclaimed
  <2>3. Unclaimed(d)' = [Unclaimed(d) EXCEPT ![w] = @ + price]
    <3>1. walletPaid'[d] = [walletPaid[d] EXCEPT ![w] = @ + price]
      BY <1>3, <2>1
    <3>2. ASSUME NEW v \in Wallets \ {w}
          PROVE  walletPaid'[d][v] - walletRefunded'[d][v] = walletPaid[d][v] - walletRefunded[d][v]
      BY <1>3, <2>1, <3>1
    <3>3. walletPaid[d][w] \in Nat /\ walletRefunded[d][w] \in Nat
      BY <2>1
    <3>4. walletPaid'[d][w] = walletPaid[d][w] + price
      <4>1. walletPaid[d] \in [Wallets -> Nat]
        BY <2>1
      <4> QED
        BY <3>1, <4>1
    <3>5. walletPaid'[d][w] - walletRefunded'[d][w]
            = (walletPaid[d][w] - walletRefunded[d][w]) + price
      BY <1>3, <3>3, <3>4
    <3> QED
      BY <3>2, <3>5 DEF Unclaimed
  <2> QED
    BY <2>2, <2>3 DEF Owed
<1>6. Escrow!Stake(d, w, price)
  BY <1>3, <1>4, <1>5 DEF Escrow!Stake
<1> QED
  BY <1>6 DEF EscrowStep, Escrow!EscrowNext, Escrow!Pools, Escrow!Players

LEMMA SettleEscrow ==
    ASSUME Inv, NEW d \in Days, NEW prizes \in [Wallets -> 0..Pool(d)], SettleDay(d, prizes)
    PROVE  EscrowStep
<1>1. /\ status[d] = "Scheduled" /\ status' = [status EXCEPT ![d] = "Settled"]
      /\ reservedMatt' = [reservedMatt EXCEPT ![d] = 0]
      /\ winners' = [winners EXCEPT ![d] = prizes]
      /\ UNCHANGED <<walletPaid, walletRefunded>>
  BY DEF SettleDay, Settleable, Scheduled, takings, refunds
<1>2. reservedMatt[d] = Pool(d) /\ refundedMatt[d] = 0
  BY <1>1, DayTypes DEF DayOK, Held
<1>3. Phase[d] = "open" /\ Phase' = [Phase EXCEPT ![d] = "paid"] /\ Owed' = Owed
  <2>1. Phase' = [Phase EXCEPT ![d] = EscrowPhase["Settled"]]
    BY <1>1, PhaseStep
  <2>2. Phase[d] = "open" /\ EscrowPhase["Settled"] = "paid"
    BY <1>1 DEF Phase, EscrowPhase
  <2>3. Owed' = Owed
    BY <1>1 DEF Owed, Unclaimed
  <2> QED
    BY <2>1, <2>2, <2>3
<1>4. IsSum(prizes, MaxWallet, reservedMatt[d])
  BY <1>2 DEF SettleDay, ValidPrizes
<1>5. ASSUME NEW w \in Wallets, prizes[w] > 0 PROVE Owed[d][w] > 0
  <2>1. walletCount[d][w] > 0
    BY <1>5 DEF SettleDay, ValidPrizes
  <2>2. walletPaid[d][w] > 0
    BY <2>1, DayTypes DEF DayOK
  <2>3. walletPaid[d][w] \in Nat
    BY DEF Inv, TypeOK
  <2>4. walletRefunded[d][w] = 0
    BY <1>1, DayTypes DEF DayOK
  <2>5. Owed[d][w] = walletPaid[d][w] - walletRefunded[d][w]
    BY DEF Owed, Unclaimed
  <2> QED
    BY <2>2, <2>3, <2>4, <2>5
<1>6. Escrow!PayOut(d, prizes)
  BY <1>1, <1>3, <1>4, <1>5, SameSum DEF Escrow!PayOut, Escrow!Players
<1> QED
  BY <1>2, <1>6 DEF EscrowStep, Escrow!EscrowNext, Escrow!Pools, Escrow!Players

LEMMA CancelEscrow ==
    ASSUME Inv, NEW d \in Days, CancelDay(d)
    PROVE  EscrowStep
<1>1. /\ status[d] = "Scheduled" /\ status' = [status EXCEPT ![d] = "Cancelled"]
      /\ reservedMatt' = [reservedMatt EXCEPT ![d] = @ - seededMatt[d]]
      /\ UNCHANGED <<walletPaid, walletRefunded, winners>>
  BY DEF CancelDay, Cancellable, Scheduled, TakeReserve, Released, takings, refunds, payouts
<1>2. PICK fees \in Nat : fees = entryMatt[d]
  BY DayTypes
<1>3. /\ reservedMatt[d] = fees + seededMatt[d] /\ seededMatt[d] \in Nat
      /\ refundedMatt[d] = 0
  BY <1>1, <1>2, DayTypes DEF DayOK, Held, Pool
<1>4. IsSum(Unclaimed(d), MaxWallet, fees)
  <2>1. IsSum(Unclaimed(d), MaxWallet, entryMatt[d] - refundedMatt[d])
    BY DayTypes DEF DayOK
  <2>2. entryMatt[d] - refundedMatt[d] = fees
    BY <1>2, <1>3
  <2> QED
    BY <2>1, <2>2
<1>5. fees \in 0..reservedMatt[d] /\ reservedMatt' = [reservedMatt EXCEPT ![d] = fees]
  <2>1. reservedMatt[d] - seededMatt[d] = fees
    BY <1>3
  <2>2. fees \in 0..reservedMatt[d]
    BY <1>3
  <2>3. reservedMatt' = [reservedMatt EXCEPT ![d] = reservedMatt[d] - seededMatt[d]]
    BY <1>1
  <2> QED
    BY <2>1, <2>2, <2>3
<1>6. Phase[d] = "open" /\ Phase' = [Phase EXCEPT ![d] = "void"] /\ Owed' = Owed
  <2>1. Phase' = [Phase EXCEPT ![d] = EscrowPhase["Cancelled"]]
    BY <1>1, PhaseStep
  <2>2. Phase[d] = "open" /\ EscrowPhase["Cancelled"] = "void"
    BY <1>1 DEF Phase, EscrowPhase
  <2>3. Owed' = Owed
    BY <1>1 DEF Owed, Unclaimed
  <2> QED
    BY <2>1, <2>2, <2>3
<1>7. Owed[d] = Unclaimed(d)
  BY DEF Owed
<1>8. Escrow!Void(d)
  BY <1>1, <1>4, <1>5, <1>6, <1>7, SameSum DEF Escrow!Void
<1> QED
  BY <1>8 DEF EscrowStep, Escrow!EscrowNext, Escrow!Pools

LEMMA ClaimEscrow ==
    ASSUME Inv, NEW d \in Days, NEW w \in Wallets, ClaimEntryRefund(d, w)
    PROVE  EscrowStep
<1>1. status[d] = "Cancelled" /\ UNCHANGED <<status, walletPaid, winners>>
  BY DEF ClaimEntryRefund, RefundOpen, takings, payouts
<1>2. PICK amount \in Nat : amount = Unclaimed(d)[w]
  BY DayTypes DEF DayOK
<1>3. /\ reservedMatt' = [reservedMatt EXCEPT ![d] = @ - amount]
      /\ walletRefunded' = [walletRefunded EXCEPT ![d] = [walletRefunded[d] EXCEPT ![w] = @ + amount]]
  BY <1>2 DEF ClaimEntryRefund, BookRefund, TakeReserve
<1>4. Phase[d] = "void" /\ Phase' = Phase
  BY <1>1 DEF Phase, EscrowPhase
<1>5. Owed' = [Owed EXCEPT ![d] = [Owed[d] EXCEPT ![w] = 0]]
  <2>1. /\ walletPaid \in [Days -> [Wallets -> Nat]]
        /\ walletRefunded \in [Days -> [Wallets -> Nat]]
    BY DEF Inv, TypeOK
  <2>2. ASSUME NEW e \in Days \ {d} PROVE Unclaimed(e)' = Unclaimed(e)
    BY <1>1, <1>3, <2>1 DEF Unclaimed
  <2>3. Unclaimed(d)' = [Unclaimed(d) EXCEPT ![w] = 0]
    <3>1. walletRefunded'[d] = [walletRefunded[d] EXCEPT ![w] = @ + amount]
      BY <1>3, <2>1
    <3>2. ASSUME NEW v \in Wallets \ {w}
          PROVE  walletPaid'[d][v] - walletRefunded'[d][v] = walletPaid[d][v] - walletRefunded[d][v]
      BY <1>1, <2>1, <3>1
    <3>3. walletPaid[d][w] \in Nat /\ walletRefunded[d][w] \in Nat
      BY <2>1
    <3>4. walletRefunded'[d][w] = walletRefunded[d][w] + amount
      <4>1. walletRefunded[d] \in [Wallets -> Nat]
        BY <2>1
      <4> QED
        BY <3>1, <4>1
    <3>5. amount = walletPaid[d][w] - walletRefunded[d][w]
      BY <1>2 DEF Unclaimed
    <3>6. walletPaid'[d][w] - walletRefunded'[d][w] = 0
      BY <1>1, <3>3, <3>4, <3>5
    <3> QED
      BY <3>2, <3>6 DEF Unclaimed
  <2> QED
    BY <2>2, <2>3 DEF Owed
<1>6. Owed[d][w] = amount
  BY <1>2 DEF Owed
<1>7. Escrow!Refund(d, w)
  BY <1>1, <1>3, <1>4, <1>5, <1>6 DEF Escrow!Refund
<1> QED
  BY <1>7 DEF EscrowStep, Escrow!EscrowNext, Escrow!Pools, Escrow!Players

\* Each day of the contract is an escrow: it pays out everything it holds to
\* players who staked, or returns every stake once.
THEOREM ArenaIsEscrow == Spec => ImplementsEscrow
<1>1. Init => Escrow!EscrowInit
  BY EscrowInit
<1>2. Inv /\ [Next]_vars => EscrowStep
  <2> SUFFICES ASSUME Inv, [Next]_vars PROVE EscrowStep
    OBVIOUS
  <2>1. CASE Tick \/ UNCHANGED vars \/ ContractStep
    <3>1. UNCHANGED <<status, reservedMatt, walletPaid, walletRefunded, winners>>
      BY <2>1 DEF Tick, vars, ContractStep, RecoverExcess, SetSeedTreasury,
         SetEntriesPaused, SetSettlementPaused, StrayTransfer, books, takings,
         refunds, payouts, reserve
    <3> QED
      BY <3>1 DEF EscrowStep, Phase, Owed, Unclaimed
  <2>2. ASSUME NEW d \in Days, DayStep(d) PROVE EscrowStep
    BY <2>2, ScheduleEscrow, SeedEscrow, EnterEscrow, SettleEscrow, CancelEscrow,
       ClaimEscrow DEF DayStep
  <2> QED
    BY <2>1, <2>2 DEF Next
<1> QED
  BY <1>1, <1>2, ArenaInv, PTL
     DEF Spec, ImplementsEscrow, EscrowStep, Escrow!EscrowSpec, Escrow!evars

-----------------------------------------------------------------------------
(* The server's day.                                                       *)

\* Nobody enters any more.
Over(d) == now >= DayEnd(d)

\* A row never counts an entry that the contract does not have.
RowOK(d) ==
    /\ "pool" \in DOMAIN row[d]
    /\ row[d] # NoRow => row[d].pool \in 0..entryMatt[d]

\* What was frozen counts every entry, and drafts and prizes are made of it.
FrozenOK(d) ==
    /\ ranking[d] # NoRanking => Over(d) /\ ranking[d].pool = entryMatt[d]
    /\ settlement[d] # NoDraft => ranking[d] # NoRanking /\ settlement[d].shares = Promised(d)
    /\ status[d] = "Settled" => ranking[d] # NoRanking /\ winners[d] = Promised(d)

\* What a request may rely on: the row it will write is there, what it has read of
\* the pool is not more than Ronin has, and is all of it once it settles.
ReqOK(q) ==
    LET d == q.day IN
    /\ DOMAIN q = DOMAIN Idle
    /\ q.at # "idle" =>
          /\ d \in Days
          /\ q.kind = "settle" => Over(d)
    /\ q.at = "chain" /\ q.old # NoRow => row[d] # NoRow
    /\ \/ q.at \in {"local", "write", "finalize"}
       \/ (q.at \in {"read", "drafted"} /\ q.kind \notin {"prepare", "topUp"})
       => row[d] # NoRow
    /\ q.at \in {"insert", "local", "write"} => q.seen.pool \in 0..entryMatt[d]
    /\ q.kind = "settle" /\ (q.at = "drafted" \/ (q.at \in {"local", "write"} /\ q.again))
       => q.seen.pool = entryMatt[d]
    /\ q.at \in {"row", "chain", "insert"} => ~q.again
    /\ q.at = "plan" => q.kind = "prepare"
    /\ q.at = "drafted" => q.kind \in {"prepare", "settle"}
    /\ q.at = "finalize" => q.kind = "settle" /\ row[d].pool = entryMatt[d]
    /\ q.at = "save" /\ q.kind = "settle" => ranking[d] # NoRanking /\ q.board = ranking[d]

\* The tables' shape.
Tables ==
    /\ now \in Nat /\ fee \in Amounts /\ entryMatt \in Amounts
    /\ DOMAIN status = Days /\ DOMAIN winners = Days
    /\ DOMAIN row = Days /\ DOMAIN ranking = Days /\ DOMAIN settlement = Days
    /\ DOMAIN req = Requests

DaysInv ==
    /\ Tables
    /\ \A d \in Days : RowOK(d) /\ FrozenOK(d)
    /\ \A r \in Requests : ReqOK(req[r])

\* What no step undoes, whoever takes it.
Grows ==
    /\ now' \in Nat /\ now' >= now
    /\ entryMatt' \in Amounts
    /\ \A d \in Days :
          /\ entryMatt'[d] >= entryMatt[d]
          /\ Over(d) => entryMatt'[d] = entryMatt[d]
          /\ row[d] # NoRow => row'[d] # NoRow /\ row'[d].pool >= row[d].pool
          /\ RowOK(d)'
          /\ ranking[d] # NoRanking => ranking'[d] = ranking[d]

\* The end of a day is a time.
LEMMA Ends == ASSUME NEW d \in Days PROVE DayEnd(d) \in Int
BY DEF DayEnd

\* A day that is over stays so.
LEMMA OverStays ==
    ASSUME NEW d \in Days, now \in Nat, now' \in Nat, now' >= now, Over(d)
    PROVE  Over(d)'
<1>1. DayEnd(d)' = DayEnd(d)
  BY DEF DayEnd
<1> QED
  BY <1>1, Ends DEF Over

\* What a request relies on is stable under whatever else grows.
LEMMA RequestKept ==
    ASSUME DaysInv, Grows, NEW q, ReqOK(q)
    PROVE  ReqOK(q)'
<1> DEFINE d == q.day
<1>0. now \in Nat
  BY DEF DaysInv, Tables
<1>1. CASE q.at = "idle"
  BY <1>1 DEF ReqOK
<1>2. CASE q.at # "idle"
  <2>1. d \in Days
    BY <1>2 DEF ReqOK
  <2>2. RowOK(d) /\ RowOK(d)'
    BY <2>1 DEF DaysInv, Grows
  <2>3. /\ entryMatt[d] \in Nat /\ entryMatt'[d] \in Nat /\ entryMatt'[d] >= entryMatt[d]
        /\ Over(d) => Over(d)' /\ entryMatt'[d] = entryMatt[d]
        /\ row[d] # NoRow => row'[d] # NoRow /\ row'[d].pool >= row[d].pool
        /\ ranking[d] # NoRanking => ranking'[d] = ranking[d]
    BY <1>0, <2>1, OverStays DEF DaysInv, Tables, Grows
  <2>4. q.at = "finalize" => row'[d].pool = entryMatt'[d]
    BY <1>0, <2>2, <2>3 DEF ReqOK, RowOK
  <2>5. q.at \in {"insert", "local", "write"} => q.seen.pool \in 0..entryMatt'[d]
    BY <1>0, <2>3 DEF ReqOK
  <2> QED
    BY <1>0, <1>2, <2>1, <2>3, <2>4, <2>5 DEF ReqOK
<1> QED
  BY <1>1, <1>2

\* A step of one request leaves the others what they rely on.
LEMMA RequestStep ==
    ASSUME DaysInv, Grows, NEW r \in Requests, NEW x, req' = [req EXCEPT ![r] = x],
           Tables', \A d \in Days : FrozenOK(d)', ReqOK(x)'
    PROVE  DaysInv'
<1>1. ASSUME NEW s \in Requests PROVE ReqOK(req[s])'
  <2>1. CASE s = r
    BY <2>1 DEF DaysInv, Tables
  <2>2. CASE s # r
    BY <2>2, RequestKept DEF DaysInv, Tables
  <2> QED
    BY <2>1, <2>2
<1>2. \A d \in Days : RowOK(d)'
  BY DEF Grows
<1> QED
  BY <1>1, <1>2 DEF DaysInv

\* The contract and the tables stay as they are.
Quiet == UNCHANGED <<vars, row, settlement, ranking>>

\* A step that only moves a request disturbs nothing.
LEMMA QuietStep ==
    ASSUME DaysInv, Quiet
    PROVE  Grows /\ (DOMAIN req' = Requests => Tables') /\ \A d \in Days : FrozenOK(d)'
<1>1. /\ now' = now /\ fee' = fee /\ entryMatt' = entryMatt /\ status' = status
      /\ winners' = winners /\ row' = row /\ settlement' = settlement /\ ranking' = ranking
  BY DEF Quiet, vars, books, takings, payouts
<1>2. \A d \in Days : entryMatt[d] \in Nat
  BY DEF DaysInv, Tables
<1>3. Grows
  <2>1. \A d \in Days : RowOK(d)' = RowOK(d)
    BY <1>1 DEF RowOK
  <2>2. \A d \in Days : row[d] # NoRow => row[d].pool >= row[d].pool
    BY <1>2 DEF DaysInv, RowOK
  <2> QED
    BY <1>1, <1>2, <2>1, <2>2 DEF Grows, DaysInv, Tables
<1>4. \A d \in Days : FrozenOK(d)'
  BY <1>1 DEF FrozenOK, DaysInv, Over, Promised, DayEnd
<1> QED
  BY <1>1, <1>3, <1>4 DEF DaysInv, Tables

\* So only the request that moves has to be looked at.
LEMMA RequestOnly ==
    ASSUME DaysInv, Quiet, NEW r \in Requests, NEW x, req' = [req EXCEPT ![r] = x], ReqOK(x)
    PROVE  DaysInv'
BY QuietStep, RequestStep, RequestKept DEF DaysInv, Tables

\* An idle request relies on nothing.
LEMMA EndOK == ReqOK(Idle)
BY DEF ReqOK, Idle

\* A settlement begins after the day's end.
LEMMA BeginInv ==
    ASSUME DaysInv, NEW r \in Requests, NEW kind \in Kinds, NEW d \in Days, NEW arg,
           Begin(r, kind, d, arg)
    PROVE  DaysInv'
<1> DEFINE x == [Idle EXCEPT !.at = FirstStep(kind), !.kind = kind, !.day = d,
                  !.arg = arg, !.early = (d > Today),
                  !.closed = (kind = "board" /\ now >= DayEnd(d))]
<1>1. Quiet /\ req' = [req EXCEPT ![r] = x] /\ Timely(kind, d)
  BY DEF Begin, Quiet, drafts
<1>2. /\ x.at = FirstStep(kind) /\ x.kind = kind /\ x.day = d /\ x.again = FALSE
      /\ DOMAIN x = DOMAIN Idle
  BY DEF Idle
<1>3. kind = "settle" => Over(d)
  BY <1>1 DEF Timely, Over
<1>4. /\ FirstStep(kind) \in {"drafted", "read", "row"}
      /\ FirstStep(kind) = "drafted" => kind = "prepare"
      /\ FirstStep(kind) = "read" => kind = "topUp"
  BY DEF FirstStep
<1> HIDE DEF x
<1>5. ReqOK(x)
  BY <1>2, <1>3, <1>4 DEF ReqOK
<1> QED
  BY <1>1, <1>5, RequestOnly

\* An error leaves the tables alone.
LEMMA FailInv == ASSUME DaysInv, NEW r \in Requests, Fail(r) PROVE DaysInv'
<1>1. Quiet /\ req' = [req EXCEPT ![r] = Idle]
  BY DEF Fail, End, Quiet, drafts
<1> QED
  BY <1>1, EndOK, RequestOnly

\* The row that was read stays.
LEMMA GetRowInv == ASSUME DaysInv, NEW r \in Requests, GetRow(r) PROVE DaysInv'
<1> DEFINE known == row[req[r].day]
           old == IF known = NoRow THEN NoRow
                  ELSE [fee |-> known.fee, confirmed |-> known.confirmed]
           x == [req[r] EXCEPT !.at = "chain", !.old = old]
<1>1. Quiet /\ req' = [req EXCEPT ![r] = x] /\ req[r].at = "row" /\ ReqOK(req[r])
  BY DEF GetRow, Quiet, drafts, At, DaysInv
<1>2. /\ x.at = "chain" /\ x.old = old /\ x.day = req[r].day /\ x.kind = req[r].kind
      /\ x.again = req[r].again /\ DOMAIN x = DOMAIN Idle
  BY <1>1 DEF ReqOK, Idle
<1>3. old # NoRow => row[x.day] # NoRow
  BY <1>2
<1>4. x.day \in Days /\ (x.kind = "settle" => Over(x.day))
  BY <1>1, <1>2 DEF ReqOK
<1> HIDE DEF x, old
<1>5. ReqOK(x)
  BY <1>1, <1>2, <1>3, <1>4 DEF ReqOK
<1> QED
  BY <1>1, <1>5, RequestOnly

\* #ensureDay returns with a row in the table.
LEMMA EnsuredOK ==
    ASSUME NEW q, ReqOK(q), q.at # "idle", row[q.day] # NoRow
    PROVE  ReqOK(Ensured(q))
<1> DEFINE x == [Idle EXCEPT !.at = "read", !.kind = q.kind, !.day = q.day, !.arg = q.arg]
<1>1. x.at = "read" /\ x.kind = q.kind /\ x.day = q.day /\ DOMAIN x = DOMAIN Idle
  BY DEF Idle
<1>2. Ensured(q) = Idle \/ Ensured(q) = x
  BY DEF Ensured
<1> HIDE DEF x
<1>3. ReqOK(x)
  BY <1>1 DEF ReqOK
<1> QED
  BY <1>2, <1>3, EndOK

\* What is read of Ronin is not more than Ronin has from then on.
LEMMA GetChainInv == ASSUME DaysInv, NEW r \in Requests, GetChain(r) PROVE DaysInv'
<1> DEFINE q == req[r]
           s == DayStatus(q.day)
           y == [q EXCEPT !.at = IF q.old = NoRow THEN "insert" ELSE "local", !.seen = s,
                          !.old = NoRow]
           z == IF s.status = "Unscheduled"
                THEN IF q.old # NoRow /\ q.early /\ ~q.old.confirmed THEN Ensured(q) ELSE Idle
                ELSE IF q.old # NoRow /\ q.old.fee # s.fee THEN Idle ELSE y
<1>1. Quiet /\ q.at = "chain" /\ ReqOK(q) /\ q.day \in Days
  BY DEF GetChain, Quiet, drafts, At, DaysInv, ReqOK
<1>2. req' = [req EXCEPT ![r] = z]
  BY DEF GetChain
<1>5. z = Idle \/ z = y \/ (z = Ensured(q) /\ q.old # NoRow)
  OBVIOUS
<1>3. q.old # NoRow => ReqOK(Ensured(q))
  BY <1>1, EnsuredOK DEF ReqOK
<1>4. ReqOK(y)
  <2>1. /\ y.at = IF q.old = NoRow THEN "insert" ELSE "local"
        /\ y.seen = s /\ y.day = q.day /\ y.kind = q.kind /\ DOMAIN y = DOMAIN Idle
        /\ y.again = q.again
    BY <1>1 DEF ReqOK, Idle
  <2>2. s.pool \in 0..entryMatt[q.day] /\ s.pool = entryMatt[q.day]
    BY <1>1 DEF DaysInv, Tables, DayStatus
  <2>3. q.old # NoRow => row[q.day] # NoRow
    BY <1>1 DEF ReqOK
  <2> HIDE DEF y, s
  <2> QED
    BY <1>1, <2>1, <2>2, <2>3 DEF ReqOK
<1> HIDE DEF y, z
<1> QED
  BY <1>1, <1>2, <1>3, <1>4, <1>5, EndOK, RequestOnly

\* The local status decides nothing here.
LEMMA GetLocalInv == ASSUME DaysInv, NEW r \in Requests, GetLocal(r) PROVE DaysInv'
<1> DEFINE q == req[r]
           x == [q EXCEPT !.at = "write", !.local = LocalStatus(q)]
<1>1. Quiet /\ req' = [req EXCEPT ![r] = x] /\ q.at = "local" /\ ReqOK(q)
  BY DEF GetLocal, Quiet, drafts, At, DaysInv
<1>2. /\ x.at = "write" /\ x.seen = q.seen /\ x.day = q.day /\ x.kind = q.kind
      /\ x.again = q.again /\ DOMAIN x = DOMAIN Idle
  BY <1>1 DEF ReqOK, Idle
<1> HIDE DEF x
<1>3. ReqOK(x)
  BY <1>1, <1>2 DEF ReqOK
<1> QED
  BY <1>1, <1>3, RequestOnly

\* After the day's end the pool that is read is all of it.
LEMMA ReadChainInv == ASSUME DaysInv, NEW r \in Requests, ReadChain(r) PROVE DaysInv'
<1> DEFINE q == req[r]
           s == DayStatus(q.day)
           seen == IF q.kind = "prepare" THEN NoStatus ELSE s
           x == [q EXCEPT !.at = SecondStep(q.kind), !.again = TRUE, !.seen = seen]
<1>1. Quiet /\ q.at = "read" /\ ReqOK(q) /\ q.day \in Days
  BY DEF ReadChain, Quiet, drafts, At, DaysInv, ReqOK
<1>2. req' = [req EXCEPT ![r] = x] \/ req' = [req EXCEPT ![r] = Idle]
  BY DEF ReadChain, End
<1>3. ReqOK(x)
  <2>1. /\ x.at = SecondStep(q.kind) /\ x.seen = seen /\ x.day = q.day /\ x.kind = q.kind
        /\ x.again = TRUE /\ DOMAIN x = DOMAIN Idle
    BY <1>1 DEF ReqOK, Idle
  <2>2. s.pool \in 0..entryMatt[q.day] /\ s.pool = entryMatt[q.day]
    BY <1>1 DEF DaysInv, Tables, DayStatus
  <2>3. /\ q.kind = "prepare" => SecondStep(q.kind) = "plan"
        /\ q.kind = "topUp" => SecondStep(q.kind) = "save"
        /\ q.kind = "settle" => SecondStep(q.kind) = "drafted"
        /\ q.kind \notin {"prepare", "topUp", "settle"} => SecondStep(q.kind) = "local"
    BY DEF SecondStep
  <2>4. q.kind \notin {"prepare", "topUp"} => row[q.day] # NoRow /\ seen = s
    BY <1>1 DEF ReqOK
  <2> HIDE DEF x, s, seen
  <2> QED
    BY <1>1, <2>1, <2>2, <2>3, <2>4 DEF ReqOK
<1> HIDE DEF x
<1> QED
  BY <1>1, <1>2, <1>3, EndOK, RequestOnly

\* An earlier draft ends the request.
LEMMA DraftedInv == ASSUME DaysInv, NEW r \in Requests, Drafted(r) PROVE DaysInv'
<1> DEFINE q == req[r]
           x(where) == [q EXCEPT !.at = where]
<1>1. /\ Quiet /\ q.at = "drafted" /\ ReqOK(q) /\ q.day \in Days
      /\ q.kind \in {"prepare", "settle"}
  BY DEF Drafted, Quiet, drafts, At, DaysInv, ReqOK
<1>2. \/ req' = [req EXCEPT ![r] = Idle]
      \/ q.kind = "prepare" /\ req' = [req EXCEPT ![r] = x("read")]
      \/ q.kind # "prepare" /\ req' = [req EXCEPT ![r] = x("local")]
  BY DEF Drafted, End, Go
<1>3. ASSUME NEW where \in {"read", "local"}, where = "read" => q.kind = "prepare",
             where = "local" => q.kind = "settle"
      PROVE  ReqOK(x(where))
  <2>1. /\ x(where).at = where /\ x(where).seen = q.seen /\ x(where).day = q.day
        /\ x(where).kind = q.kind /\ DOMAIN x(where) = DOMAIN Idle
    BY <1>1 DEF ReqOK, Idle
  <2>2. q.kind = "settle" => row[q.day] # NoRow /\ q.seen.pool = entryMatt[q.day]
                             /\ q.seen.pool \in 0..entryMatt[q.day]
    BY <1>1 DEF ReqOK, DaysInv, Tables
  <2> HIDE DEF x
  <2> QED
    BY <1>1, <1>3, <2>1, <2>2 DEF ReqOK
<1> HIDE DEF x
<1> QED
  BY <1>1, <1>2, <1>3, EndOK, RequestOnly

\* A row may be written if its pool does not go down.
LEMMA RowStep ==
    ASSUME DaysInv, UNCHANGED <<vars, settlement, ranking>>, DOMAIN req' = Requests,
           NEW d \in Days, NEW new, row' = [row EXCEPT ![d] = new],
           "pool" \in DOMAIN new, new # NoRow, new.pool \in 0..entryMatt[d],
           row[d] # NoRow => new.pool >= row[d].pool
    PROVE  Grows /\ Tables' /\ \A e \in Days : FrozenOK(e)'
<1>1. /\ now' = now /\ fee' = fee /\ entryMatt' = entryMatt /\ status' = status
      /\ winners' = winners /\ settlement' = settlement /\ ranking' = ranking
  BY DEF vars, books, takings, payouts
<1>2. DOMAIN row' = Days /\ row'[d] = new /\ \A e \in Days \ {d} : row'[e] = row[e]
  BY DEF DaysInv, Tables
<1>3. Tables'
  BY <1>1, <1>2 DEF DaysInv, Tables
<1>4. ASSUME NEW e \in Days
      PROVE  RowOK(e)' /\ (row[e] # NoRow => row'[e] # NoRow /\ row'[e].pool >= row[e].pool)
  <2>1. RowOK(e) /\ entryMatt[e] \in Nat
    BY DEF DaysInv, Tables
  <2>2. CASE e = d
    BY <1>1, <1>2, <2>1, <2>2 DEF RowOK
  <2>3. CASE e # d
    BY <1>1, <1>2, <2>1, <2>3 DEF RowOK
  <2> QED
    BY <2>2, <2>3
<1>5. Grows
  BY <1>1, <1>4 DEF DaysInv, Tables, Grows
<1>6. \A e \in Days : FrozenOK(e)'
  BY <1>1 DEF FrozenOK, DaysInv, Over, Promised, DayEnd
<1> QED
  BY <1>3, <1>5, <1>6

\* An inserted row has no pool, and replaces none.
LEMMA InsertInv ==
    ASSUME DaysInv, NEW r \in Requests, NEW q, q = req[r], Insert(r)
    PROVE  DaysInv'
<1> DEFINE d == q.day
           fresh == [fee |-> q.seen.fee, seed |-> q.seen.seed, pool |-> 0,
                     chain |-> q.seen.status, status |-> RowStatus(q), confirmed |-> TRUE]
           new == IF row[d] = NoRow THEN fresh ELSE row[d]
           x == [q EXCEPT !.at = "local"]
<1>1. /\ UNCHANGED <<vars, settlement, ranking>> /\ q.at = "insert" /\ ReqOK(q) /\ d \in Days
      /\ req' = [req EXCEPT ![r] = x] \/ req' = [req EXCEPT ![r] = Idle]
      /\ row' = [row EXCEPT ![d] = new] /\ DOMAIN req' = Requests
  BY DEF Insert, End, Go, drafts, At, DaysInv, Tables, ReqOK
<1>2. entryMatt[d] \in Nat /\ RowOK(d)
  BY <1>1 DEF DaysInv, Tables
<1>3. "pool" \in DOMAIN new /\ new # NoRow /\ new.pool \in 0..entryMatt[d]
      /\ (row[d] # NoRow => new.pool >= row[d].pool)
  <2>1. "pool" \in DOMAIN fresh /\ fresh # NoRow /\ fresh.pool = 0
    BY DEF NoRow
  <2> HIDE DEF fresh
  <2> QED
    BY <1>2, <2>1 DEF RowOK
<1> HIDE DEF new
<1>4. Grows /\ Tables' /\ \A e \in Days : FrozenOK(e)'
  BY <1>1, <1>3, RowStep
<1>5. ReqOK(x)'
  <2>1. /\ x.at = "local" /\ x.seen = q.seen /\ x.day = d /\ x.kind = q.kind
        /\ x.again = q.again /\ DOMAIN x = DOMAIN Idle
    BY <1>1 DEF ReqOK, Idle
  <2> HIDE DEF x
  <2>2. row'[d] # NoRow
    BY <1>1, <1>3 DEF DaysInv, Tables
  <2>3. entryMatt' = entryMatt /\ (q.kind = "settle" => Over(d)')
    BY <1>1 DEF ReqOK, Over, DayEnd, vars, books, takings
  <2> QED
    BY <1>1, <2>1, <2>2, <2>3 DEF ReqOK
<1> HIDE DEF x
<1>6. ReqOK(Idle)'
  BY EndOK, RequestKept, <1>4
<1> QED
  BY <1>1, <1>4, <1>5, <1>6, RequestStep

\* The guard of the update: the pool does not go down, and a settlement's row has
\* the whole of it.
LEMMA ReconcileInv ==
    ASSUME DaysInv, NEW r \in Requests, NEW q, q = req[r], Reconcile(r)
    PROVE  DaysInv'
<1> DEFINE d == q.day
           new == Reconciled(row[d], q)
           f == [q EXCEPT !.at = "finalize"]
<1>1. q.at = "write" /\ ReqOK(q) /\ d \in Days /\ row[d] # NoRow
      /\ q.seen.pool \in 0..entryMatt[d] /\ UNCHANGED <<vars, settlement, ranking>>
  BY DEF Reconcile, drafts, At, DaysInv, ReqOK
<1>2. CASE ~Advances(d, q.seen.pool)
  <2>1. Quiet /\ req' = [req EXCEPT ![r] = Idle]
    BY <1>2 DEF Reconcile, End, Quiet, drafts
  <2> QED
    BY <2>1, EndOK, RequestOnly
<1>3. CASE Advances(d, q.seen.pool)
  <2>1. row' = [row EXCEPT ![d] = new]
    BY <1>3 DEF Reconcile
  <2>2. PICK x : /\ req' = [req EXCEPT ![r] = x]
                 /\ \/ x = Idle \/ x = Ensured(q)
                    \/ q.again /\ q.kind = "settle" /\ x = f
    BY <1>3 DEF Reconcile
  <2>3. "pool" \in DOMAIN new /\ new.pool = q.seen.pool
    BY <1>1 DEF DaysInv, RowOK, Reconciled
  <2>4. new # NoRow /\ new.pool \in 0..entryMatt[d] /\ new.pool >= row[d].pool
    BY <1>1, <1>3, <2>3 DEF Advances, NoRow, DaysInv, Tables, RowOK
  <2> HIDE DEF new
  <2>5. Grows /\ Tables' /\ \A e \in Days : FrozenOK(e)'
    <3>1. DOMAIN req' = Requests
      BY <2>2 DEF DaysInv, Tables
    <3> QED
      BY <1>1, <2>1, <2>3, <2>4, <3>1, RowStep
  <2>6. ReqOK(Idle)' /\ ReqOK(Ensured(q))'
    BY <1>1, <2>5, EndOK, EnsuredOK, RequestKept
  <2>7. ASSUME q.again, q.kind = "settle" PROVE ReqOK(f)'
    <3>1. f.at = "finalize" /\ f.day = d /\ f.kind = "settle" /\ DOMAIN f = DOMAIN Idle
      BY <1>1, <2>7 DEF ReqOK, Idle
    <3>2. row'[d] = new /\ q.seen.pool = entryMatt[d]
      BY <1>1, <2>1, <2>7 DEF ReqOK, DaysInv, Tables
    <3>3. entryMatt' = entryMatt /\ Over(d)'
      BY <1>1, <2>7 DEF ReqOK, Over, DayEnd, vars, books, takings
    <3> HIDE DEF f
    <3> QED
      BY <1>1, <2>3, <2>4, <3>1, <3>2, <3>3 DEF ReqOK
  <2> QED
    BY <2>2, <2>5, <2>6, <2>7, RequestStep
<1> QED
  BY <1>2, <1>3

\* A configuration keeps the pool of the row.
LEMMA PlanInv ==
    ASSUME DaysInv, NEW r \in Requests, NEW q, q = req[r], Plan(r)
    PROVE  DaysInv'
<1> DEFINE d == q.day
           plan == [fee |-> q.arg.price, seed |-> q.arg.seed, pool |-> 0,
                    chain |-> "Unscheduled", status |-> "scheduled", confirmed |-> FALSE]
           new == IF row[d] = NoRow THEN plan
                  ELSE [plan EXCEPT !.pool = row[d].pool, !.status = row[d].status]
           x == [q EXCEPT !.at = "save"]
<1>1. /\ UNCHANGED <<vars, settlement, ranking>> /\ q.at = "plan" /\ ReqOK(q) /\ d \in Days
      /\ req' = [req EXCEPT ![r] = x] /\ row' = [row EXCEPT ![d] = new]
      /\ DOMAIN req' = Requests
  BY DEF Plan, Go, drafts, At, DaysInv, Tables, ReqOK
<1>2. entryMatt[d] \in Nat /\ RowOK(d)
  BY <1>1 DEF DaysInv, Tables
<1>3. "pool" \in DOMAIN new /\ new.pool = IF row[d] = NoRow THEN 0 ELSE row[d].pool
  OBVIOUS
<1> HIDE DEF new
<1>4. new # NoRow /\ new.pool \in 0..entryMatt[d] /\ (row[d] # NoRow => new.pool >= row[d].pool)
  <2>1. NoRow.pool = -1
    BY DEF NoRow
  <2>2. new.pool \in 0..entryMatt[d] /\ (row[d] # NoRow => new.pool >= row[d].pool)
    BY <1>2, <1>3 DEF RowOK
  <2> QED
    BY <1>2, <2>1, <2>2
<1>5. Grows /\ Tables' /\ \A e \in Days : FrozenOK(e)'
  BY <1>1, <1>3, <1>4, RowStep
<1>6. q.kind = "prepare"
  BY <1>1 DEF ReqOK
<1>7. ReqOK(x)
  <2>1. x.at = "save" /\ x.day = d /\ x.kind = q.kind /\ DOMAIN x = DOMAIN Idle
    BY <1>1 DEF ReqOK, Idle
  <2> HIDE DEF x
  <2> QED
    BY <1>1, <1>6, <2>1 DEF ReqOK
<1> HIDE DEF x
<1> QED
  BY <1>1, <1>5, <1>7, RequestKept, RequestStep

\* A ranking is frozen once, over the whole pool of a day that is over.
LEMMA FinalizeInv ==
    ASSUME DaysInv, NEW r \in Requests, NEW q, q = req[r], Finalize(r)
    PROVE  DaysInv'
<1> DEFINE d == q.day
<1>0. PICK board : board = Final(d, q.arg)
  OBVIOUS
<1> DEFINE x == [q EXCEPT !.at = "save", !.board = board]
<1>1. /\ q.at = "finalize" /\ ReqOK(q) /\ d \in Days /\ q.kind = "settle" /\ Over(d)
      /\ row[d] # NoRow /\ row[d].pool = entryMatt[d] /\ entryMatt[d] \in Nat
      /\ UNCHANGED <<vars, settlement>>
  BY DEF Finalize, drafts, At, DaysInv, Tables, ReqOK
<1>2. req' = [req EXCEPT ![r] = x] \/ req' = [req EXCEPT ![r] = Idle]
  BY <1>0 DEF Finalize, End
<1>3. /\ x.at = "save" /\ x.board = board /\ x.day = d /\ x.kind = "settle"
      /\ DOMAIN x = DOMAIN Idle
  BY <1>1 DEF ReqOK, Idle
<1> HIDE DEF x
<1>4. CASE ranking[d] # NoRanking
  <2>1. Quiet /\ board = ranking[d]
    BY <1>0, <1>1, <1>4 DEF Finalize, Quiet, Final
  <2>2. ReqOK(x)
    BY <1>1, <1>3, <1>4, <2>1 DEF ReqOK
  <2> QED
    BY <1>2, <2>1, <2>2, EndOK, RequestOnly
<1>5. CASE ranking[d] = NoRanking
  <2> DEFINE new == [row[d] EXCEPT !.status =
                       IF row[d].chain = "Settled" THEN "settled" ELSE "finalized"]
  <2>1. ranking' = [ranking EXCEPT ![d] = board] /\ row' = [row EXCEPT ![d] = new]
    BY <1>0, <1>5 DEF Finalize
  <2>2. board.pool = entryMatt[d] /\ board # NoRanking
    BY <1>0, <1>1, <1>5 DEF Final, NoRanking
  <2>3. "pool" \in DOMAIN new /\ new.pool = entryMatt[d] /\ new # NoRow
    <3>1. "pool" \in DOMAIN row[d]
      BY <1>1 DEF DaysInv, RowOK
    <3>2. "pool" \in DOMAIN new /\ new.pool = row[d].pool
      BY <3>1
    <3>3. NoRow.pool = -1
      BY DEF NoRow
    <3> QED
      BY <1>1, <3>2, <3>3
  <2> HIDE DEF new
  <2>4. /\ now' = now /\ fee' = fee /\ entryMatt' = entryMatt /\ status' = status
        /\ winners' = winners /\ settlement' = settlement
    BY <1>1 DEF vars, books, takings, payouts
  <2>5. /\ row'[d] = new /\ \A e \in Days \ {d} : row'[e] = row[e]
        /\ ranking'[d] = board /\ \A e \in Days \ {d} : ranking'[e] = ranking[e]
        /\ DOMAIN row' = Days /\ DOMAIN ranking' = Days /\ DOMAIN req' = Requests
    BY <1>1, <1>2, <2>1 DEF DaysInv, Tables
  <2>6. Tables'
    BY <2>4, <2>5 DEF DaysInv, Tables
  <2>7. ASSUME NEW e \in Days
        PROVE  RowOK(e)' /\ (row[e] # NoRow => row'[e] # NoRow /\ row'[e].pool >= row[e].pool)
    <3>1. RowOK(e) /\ entryMatt[e] \in Nat
      BY DEF DaysInv, Tables
    <3>2. CASE e = d
      BY <1>1, <2>3, <2>4, <2>5, <3>1, <3>2 DEF RowOK
    <3>3. CASE e # d
      BY <2>4, <2>5, <3>1, <3>3 DEF RowOK
    <3> QED
      BY <3>2, <3>3
  <2>8. Grows
    BY <1>5, <2>4, <2>5, <2>7 DEF DaysInv, Tables, Grows
  <2>9. ASSUME NEW e \in Days PROVE FrozenOK(e)'
    <3>1. FrozenOK(e) /\ Over(e)' = Over(e)
      BY <2>4 DEF DaysInv, Over, DayEnd
    <3>2. CASE e = d
      BY <1>1, <1>5, <2>2, <2>4, <2>5, <3>1, <3>2 DEF FrozenOK
    <3>3. CASE e # d
      BY <2>4, <2>5, <3>1, <3>3 DEF FrozenOK, Promised
    <3> QED
      BY <3>2, <3>3
  <2>10. ReqOK(x)'
    <3>1. Over(d)' /\ ranking'[d] # NoRanking /\ ranking'[d] = x.board
      BY <1>1, <1>3, <2>2, <2>4, <2>5 DEF Over, DayEnd
    <3> QED
      BY <1>1, <1>3, <3>1 DEF ReqOK
  <2> QED
    BY <1>2, <2>6, <2>8, <2>9, <2>10, EndOK, RequestKept, RequestStep
<1> QED
  BY <1>4, <1>5

\* The draft is made of the ranking that was frozen.
LEMMA SaveInv ==
    ASSUME DaysInv, NEW r \in Requests, NEW q, q = req[r], Save(r)
    PROVE  DaysInv'
<1> DEFINE d == q.day
           new == IF settlement[d] = NoDraft
                  THEN [wallets |-> q.board.wallets,
                        shares |-> Allocation(q.board.wallets, q.board.pool + q.board.seed)]
                  ELSE settlement[d]
<1>1. /\ q.at = "save" /\ ReqOK(q) /\ d \in Days
      /\ UNCHANGED <<vars, row, ranking>> /\ req' = [req EXCEPT ![r] = Idle]
  BY DEF Save, End, At, DaysInv, ReqOK
<1>2. CASE q.kind # "settle"
  BY <1>1, <1>2, EndOK, RequestOnly DEF Save, Quiet
<1>3. CASE q.kind = "settle"
  <2>1. settlement' = [settlement EXCEPT ![d] = new]
    BY <1>3 DEF Save
  <2>2. ranking[d] # NoRanking /\ q.board = ranking[d]
    BY <1>1, <1>3 DEF ReqOK
  <2>3. new # NoDraft => new.shares = Promised(d)
    BY <1>1, <2>2 DEF Promised, DaysInv, FrozenOK
  <2> HIDE DEF new
  <2>4. /\ now' = now /\ fee' = fee /\ entryMatt' = entryMatt /\ status' = status
        /\ winners' = winners /\ row' = row /\ ranking' = ranking
    BY <1>1 DEF vars, books, takings, payouts
  <2>5. Tables'
    BY <1>1, <2>1, <2>4 DEF DaysInv, Tables
  <2>6. ASSUME NEW e \in Days PROVE FrozenOK(e)'
    <3>1. FrozenOK(e) /\ Over(e)' = Over(e) /\ Promised(e)' = Promised(e)
      BY <2>4 DEF DaysInv, Over, DayEnd, Promised
    <3>2. settlement'[e] = IF e = d THEN new ELSE settlement[e]
      BY <2>1 DEF DaysInv, Tables
    <3> QED
      BY <2>2, <2>3, <2>4, <3>1, <3>2 DEF FrozenOK
  <2>7. Grows
    <3>1. \A e \in Days : RowOK(e)' = RowOK(e)
      BY <2>4 DEF RowOK
    <3>2. \A e \in Days : entryMatt[e] \in Nat
                          /\ (row[e] # NoRow => row[e].pool >= row[e].pool)
      BY DEF DaysInv, Tables, RowOK
    <3> QED
      BY <2>4, <3>1, <3>2 DEF Grows, DaysInv, Tables
  <2> QED
    BY <1>1, <2>5, <2>6, <2>7, EndOK, RequestKept, RequestStep
<1> QED
  BY <1>2, <1>3

\* A step of the contract leaves every request what it relies on.
LEMMA WorldStep ==
    ASSUME DaysInv, Grows, UNCHANGED req, Tables', \A d \in Days : FrozenOK(d)'
    PROVE  DaysInv'
<1>1. \A r \in Requests : ReqOK(req[r])'
  BY RequestKept DEF DaysInv
<1> QED
  BY <1>1 DEF DaysInv, Grows

\* What such a step may do: add entries to days that are not over, and settle by a
\* draft.
LEMMA ContractKept ==
    ASSUME DaysInv, UNCHANGED server,
           now' \in Nat, now' >= now, fee' \in Amounts, entryMatt' \in Amounts,
           DOMAIN status' = Days, DOMAIN winners' = Days,
           \A e \in Days :
              /\ entryMatt'[e] >= entryMatt[e]
              /\ Over(e) => entryMatt'[e] = entryMatt[e]
              /\ status'[e] = "Settled" =>
                    \/ status[e] = "Settled" /\ winners'[e] = winners[e]
                    \/ settlement[e] # NoDraft /\ winners'[e] = settlement[e].shares
    PROVE  DaysInv'
<1>1. row' = row /\ ranking' = ranking /\ settlement' = settlement /\ req' = req
  BY DEF server, drafts
<1>2. Tables'
  BY <1>1 DEF DaysInv, Tables
<1>3. Grows
  <2>1. ASSUME NEW e \in Days
        PROVE  RowOK(e)' /\ (row[e] # NoRow => row[e].pool >= row[e].pool)
    <3>1. RowOK(e) /\ entryMatt[e] \in Nat /\ entryMatt'[e] \in Nat
          /\ entryMatt'[e] >= entryMatt[e]
      BY DEF DaysInv, Tables
    <3> QED
      BY <1>1, <3>1 DEF RowOK
  <2> QED
    BY <1>1, <2>1 DEF Grows
<1>4. ASSUME NEW e \in Days PROVE FrozenOK(e)'
  <2>1. FrozenOK(e) /\ Promised(e)' = Promised(e) /\ (Over(e) => Over(e)')
    BY <1>1, OverStays DEF DaysInv, Promised, Tables
  <2> QED
    BY <1>1, <2>1 DEF FrozenOK
<1> QED
  BY <1>1, <1>2, <1>3, <1>4, WorldStep

\* A step that neither enters nor settles.
LEMMA ContractQuiet ==
    ASSUME DaysInv, UNCHANGED server, now' = now, UNCHANGED <<entryMatt, winners>>,
           fee' \in Amounts, DOMAIN status' = Days,
           \A e \in Days : status'[e] = "Settled" => status[e] = "Settled"
    PROVE  DaysInv'
<1>1. now \in Nat /\ entryMatt' \in Amounts /\ DOMAIN winners' = Days
  BY DEF DaysInv, Tables
<1>2. \A e \in Days : entryMatt'[e] >= entryMatt[e] /\ entryMatt'[e] = entryMatt[e]
  BY DEF DaysInv, Tables
<1> QED
  BY <1>1, <1>2, ContractKept

\* An entry counts for a day that is not over.
LEMMA EnterKept ==
    ASSUME DaysInv, UNCHANGED server, NEW d \in Days, NEW w \in Wallets, Enter(d, w)
    PROVE  DaysInv'
<1>1. /\ now \in Nat /\ DayDuration \in Nat \ {0} /\ d = Today
      /\ fee[d] \in Nat /\ entryMatt[d] \in Nat /\ fee \in Amounts
      /\ entryMatt' = [entryMatt EXCEPT ![d] = @ + fee[d]]
      /\ UNCHANGED <<now, status, fee, winners>>
  BY DEF Enter, DaysInv, Tables, payouts
<1>2. ~Over(d)
  BY <1>1 DEF Over, DayEnd, Today
<1>3. \A e \in Days : /\ entryMatt'[e] >= entryMatt[e]
                      /\ Over(e) => entryMatt'[e] = entryMatt[e]
  BY <1>1, <1>2 DEF DaysInv, Tables
<1>4. entryMatt' \in Amounts
  BY <1>1 DEF DaysInv, Tables
<1> QED
  BY <1>1, <1>3, <1>4, ContractKept, SMTT(30) DEF DaysInv, Tables

\* The Safe settles by the draft it was given.
LEMMA SettleKept ==
    ASSUME DaysInv, UNCHANGED server, NEW d \in Days, SafeSettle(d)
    PROVE  DaysInv'
<1>1. /\ settlement[d] # NoDraft
      /\ status' = [status EXCEPT ![d] = "Settled"]
      /\ winners' = [winners EXCEPT ![d] = settlement[d].shares]
      /\ UNCHANGED <<now, fee, entryMatt>>
  BY DEF SafeSettle, SettleDay, takings
<1>2. \A e \in Days : entryMatt[e] \in Nat
  BY DEF DaysInv, Tables
<1>3. \A e \in Days : status'[e] = "Settled" =>
         \/ status[e] = "Settled" /\ winners'[e] = winners[e]
         \/ settlement[e] # NoDraft /\ winners'[e] = settlement[e].shares
  BY <1>1 DEF DaysInv, Tables
<1>4. DOMAIN status' = Days /\ DOMAIN winners' = Days
  BY <1>1 DEF DaysInv, Tables
<1> QED
  BY <1>1, <1>2, <1>3, <1>4, ContractKept DEF DaysInv, Tables

\* Every transaction keeps the server's invariant.
LEMMA RoninKept ==
    ASSUME DaysInv, UNCHANGED server, Tick \/ \E d \in Days : OnRonin(d)
    PROVE  DaysInv'
<1>1. CASE Tick
  <2>1. now' = now + 1 /\ UNCHANGED <<fee, entryMatt, status, winners>>
    BY <1>1 DEF Tick, books, takings, payouts
  <2> QED
    BY <2>1, ContractKept DEF DaysInv, Tables
<1>2. ASSUME NEW d \in Days, SafeConfigure(d) PROVE DaysInv'
  <2>1. /\ now' = now /\ UNCHANGED <<entryMatt, winners>>
        /\ status' = [status EXCEPT ![d] = "Scheduled"]
        /\ fee' = [fee EXCEPT ![d] = planned[d].price]
        /\ planned[d].price \in MinEntryFee..MaxEntryFee
    BY <1>2 DEF SafeConfigure, payouts
  <2>2. fee' \in Amounts /\ DOMAIN status' = Days
        /\ \A e \in Days : status'[e] = "Settled" => status[e] = "Settled"
    BY <2>1 DEF DaysInv, Tables
  <2> QED
    BY <2>1, <2>2, ContractQuiet
<1>3. ASSUME NEW d \in Days, SafeSeed(d) PROVE DaysInv'
  <2>1. now' = now /\ UNCHANGED <<entryMatt, winners, fee, status>>
    BY <1>3 DEF SafeSeed, SeedDay, payouts
  <2> QED
    BY <2>1, ContractQuiet DEF DaysInv, Tables
<1>4. ASSUME NEW d \in Days, CancelDay(d) PROVE DaysInv'
  <2>1. /\ now' = now /\ UNCHANGED <<entryMatt, winners, fee>>
        /\ status' = [status EXCEPT ![d] = "Cancelled"]
    BY <1>4 DEF CancelDay, payouts, takings
  <2>2. DOMAIN status' = Days /\ \A e \in Days : status'[e] = "Settled" => status[e] = "Settled"
    BY <2>1 DEF DaysInv, Tables
  <2> QED
    BY <2>1, <2>2, ContractQuiet DEF DaysInv, Tables
<1>5. CASE SetEntriesPaused(FALSE)
  <2>1. now' = now /\ UNCHANGED <<entryMatt, winners, fee, status>>
    BY <1>5 DEF SetEntriesPaused, books, takings, payouts
  <2> QED
    BY <2>1, ContractQuiet DEF DaysInv, Tables
<1> QED
  BY <1>1, <1>2, <1>3, <1>4, <1>5, SettleKept, EnterKept DEF OnRonin

\* A late score changes nothing that was frozen.
LEMMA ScoreKept ==
    ASSUME DaysInv, UNCHANGED <<vars, row, drafts, ranking, req>>
    PROVE  DaysInv'
<1>1. Quiet /\ req' = req
  BY DEF Quiet, drafts
<1> QED
  BY <1>1, QuietStep, WorldStep DEF DaysInv, Tables

\* Every step keeps the invariant.
LEMMA DaysNextInv == DaysInv /\ [DaysNext]_dayVars => DaysInv'
<1> SUFFICES ASSUME DaysInv, [DaysNext]_dayVars PROVE DaysInv'
  OBVIOUS
<1>1. CASE UNCHANGED dayVars
  BY <1>1, ScoreKept DEF dayVars, server
<1>2. CASE DaysNext
  <2>1. ASSUME NEW r \in Requests, Serve(r) PROVE DaysInv'
    <3>1. ASSUME NEW kind \in Kinds, NEW d \in Days, NEW arg, Begin(r, kind, d, arg)
          PROVE  DaysInv'
      BY <3>1, BeginInv
    <3> QED
      BY <2>1, <3>1, FailInv, GetRowInv, GetChainInv, InsertInv, GetLocalInv, ReconcileInv,
         ReadChainInv, DraftedInv, PlanInv, FinalizeInv, SaveInv DEF Serve
  <2>2. ASSUME NEW d \in Days, NEW w \in Wallets, NEW score \in 1..MaxScore, Score(d, w, score)
        PROVE  DaysInv'
    BY <2>2, ScoreKept DEF Score
  <2> QED
    BY <1>2, <2>1, <2>2, RoninKept DEF DaysNext
<1> QED
  BY <1>1, <1>2

\* A new contract and empty tables.
LEMMA DaysInitInv == DaysInit => DaysInv
<1> SUFFICES ASSUME DaysInit PROVE DaysInv
  OBVIOUS
<1>1. Tables
  BY DEF DaysInit, Init, Tables, NoMatt
<1>2. \A d \in Days : RowOK(d) /\ FrozenOK(d)
  BY DEF DaysInit, Init, RowOK, FrozenOK, NoRow
<1>3. \A r \in Requests : ReqOK(req[r])
  BY EndOK DEF DaysInit
<1> QED
  BY <1>1, <1>2, <1>3 DEF DaysInv

\* Whatever the requests, files, failures and pauses of a day do, the frozen
\* ranking counts every entry and is what a settled day paid.
THEOREM FrozenRankingPaid == DaysSpec => []FrozenIsPaid
<1>1. DaysInv => FrozenIsPaid
  BY DEF DaysInv, FrozenOK, FrozenIsPaid
<1> QED
  BY <1>1, DaysInitInv, DaysNextInv, PTL DEF DaysSpec

-----------------------------------------------------------------------------
(* The prizes add up to what was taken.                                     *)

\* A prize list gives the whole pool away, for any wallets in any order.
LEMMA AllocationFillsPool ==
    ASSUME NEW wallets \in Seq(Wallets), wallets # << >>, Len(wallets) <= MaxWinners,
           NEW pool \in Nat
    PROVE  /\ \A w \in Wallets : Allocation(wallets, pool)[w] \in Nat
           /\ SumFunctionOnSet(Allocation(wallets, pool), Wallets) = pool
<1>1. PICK n \in Nat : n = Len(wallets) /\ n >= 1 /\ n <= MaxWinners
  OBVIOUS
<1>2. \A i \in 1..n : Weights[i] \in Nat \ {0} /\ wallets[i] \in Wallets
  BY <1>1, DayConstants
<1>3. IsFiniteSet(1..n) /\ IsFiniteSet(Wallets)
  BY <1>1, FS_Interval
<1> DEFINE share == Shares(pool, n)
           left == pool - SumFunctionOnSet(share, 1..n)
           amount == ByRank(pool, n)
<1>4. DOMAIN share = 1..n /\ amount = [share EXCEPT ![1] = @ + left]
  <2>1. DOMAIN share = 1..n
    BY DEF Shares
  <2> DEFINE total == SumFunctionOnSet(share, 1..n)
  <2>2. SumFunction(share) = total
    BY <2>1 DEF SumFunction
  <2> HIDE DEF share, total
  <2>3. amount = [share EXCEPT ![1] = @ + pool - total]
    BY <2>2 DEF ByRank, share
  <2>4. share[1] \in Int /\ total \in Int
    <3>1. \A i \in 1..n : share[i] \in Int
      <4>1. SumFunctionOnSet(Weights, 1..n) \in Nat
            /\ Weights[1] <= SumFunctionOnSet(Weights, 1..n)
        BY <1>1, <1>2, <1>3, SumOfNats
      <4>2. WeightOf(n) \in Nat /\ WeightOf(n) > 0
        BY <1>1, <1>2, <4>1 DEF WeightOf
      <4> QED
        BY <1>2, <4>2 DEF share, Shares
    <3>2. total \in Int
      BY <1>3, <3>1, SumOfAny DEF total
    <3> QED
      BY <1>1, <3>1, <3>2
  <2>5. share[1] + pool - total = share[1] + (pool - total)
    BY <2>4
  <2> QED
    BY <2>1, <2>3, <2>5 DEF total
<1>5. IsSplit(amount, share, Weights, n, pool)
  <2>1. \A i \in 1..n : share[i] = (pool * Weights[i]) \div SumFunctionOnSet(Weights, 1..n)
    BY DEF Shares, WeightOf
  <2> HIDE DEF left
  <2>2. /\ amount[1] = share[1] + left
        /\ \A i \in 1..n : i > 1 => amount[i] = share[i]
    BY <1>1, <1>4 DEF Shares
  <2> QED
    BY <2>1, <2>2 DEF IsSplit, left
<1> HIDE DEF share, left, amount
<1>6. (\A i \in 1..n : amount[i] \in Nat) /\ SumFunctionOnSet(amount, 1..n) = pool
  BY <1>1, <1>2, <1>5, SplitFillsPool
<1> DEFINE prize == Allocation(wallets, pool)
           places == 1..n
           of(w) == {i \in places : wallets[i] = w}
<1>7. \A w \in Wallets : prize[w] = SumFunctionOnSet(amount, of(w))
  BY <1>1 DEF Allocation, amount
<1>8. ASSUME NEW w \in Wallets PROVE prize[w] \in Nat
  <2>1. IsFiniteSet(of(w)) /\ \A i \in of(w) : amount[i] \in Nat
    BY <1>3, <1>6, FS_Subset
  <2> HIDE DEF of
  <2>2. SumFunctionOnSet(amount, of(w)) \in Nat
    BY <2>1, SumOfNats
  <2> QED
    BY <1>7, <2>2
<1>9. IsTally(prize, Wallets, amount, places, wallets)
  BY <1>7 DEF IsTally
<1>10. /\ \A i \in places : amount[i] \in Int
       /\ \A i \in places : wallets[i] \in Wallets
       /\ IsFiniteSet(places)
  BY <1>2, <1>3, <1>6
<1> DEFINE all == Wallets
<1>11. IsTally(prize, all, amount, places, wallets) /\ IsFiniteSet(all)
       /\ \A i \in places : wallets[i] \in all
  BY <1>3, <1>9, <1>10
<1> HIDE DEF places, prize, all
<1>12. SumFunctionOnSet(prize, all) = SumFunctionOnSet(amount, places)
  BY <1>10, <1>11, SumByClass
<1> QED
  BY <1>6, <1>8, <1>12 DEF places, prize, all

\* By score, then by wallet: whoever is above one that is above another is above
\* the other.
LEMMA Lexicographic ==
    ASSUME NEW a \in Nat, NEW b \in Nat, NEW c \in Nat, NEW u \in Nat, NEW x \in Nat, NEW y \in Nat,
           a > b \/ (a = b /\ u < x), b > c \/ (b = c /\ x < y)
    PROVE  a > c \/ (a = c /\ u < y)
OBVIOUS

\* Every place of a ranking has a wallet: no two share one, so none stays empty.
LEMMA RankedIsList ==
    ASSUME NEW d \in Days, best[d] \in [Wallets -> Nat], NEW suspended
    PROVE  /\ Ranked(d, suspended) \in Seq(Wallets)
           /\ Len(Ranked(d, suspended)) <= MaxWinners
<1> DEFINE on == {w \in Wallets \ suspended : best[d][w] > 0}
           above(w) == {v \in on : Above(d, v, w)}
           rank == [w \in on |-> 1 + Cardinality(above(w))]
           size == Cardinality(on)
<1>1. IsFiniteSet(on) /\ size \in Nat
  <2>1. IsFiniteSet(Wallets)
    BY FS_Interval
  <2>2. IsFiniteSet(on)
    BY <2>1, FS_Subset
  <2> QED
    BY <2>2, FS_CardinalityType
<1>2. \A w \in on : best[d][w] \in Nat /\ w \in Nat
  OBVIOUS
<1>3. ASSUME NEW w \in on
      PROVE  /\ IsFiniteSet(above(w)) /\ Cardinality(above(w)) \in Nat
             /\ Cardinality(above(w)) < size
  <2>1. w \notin above(w) /\ above(w) \subseteq on /\ above(w) # on
    BY <1>2 DEF Above
  <2> HIDE DEF above, on
  <2> QED
    BY <1>1, <2>1, FS_Subset, FS_CardinalityType
<1>4. ASSUME NEW v \in on, NEW w \in on, v # w PROVE rank[v] # rank[w]
  <2>1. ASSUME NEW x \in on, NEW y \in on, Above(d, x, y) PROVE rank[x] < rank[y]
    <3>1. ASSUME NEW u \in on, Above(d, u, x) PROVE Above(d, u, y)
      <4>1. /\ best[d][u] \in Nat /\ best[d][x] \in Nat /\ best[d][y] \in Nat
            /\ u \in Nat /\ x \in Nat /\ y \in Nat
        BY <1>2
      <4>2. /\ best[d][u] > best[d][x] \/ (best[d][u] = best[d][x] /\ u < x)
            /\ best[d][x] > best[d][y] \/ (best[d][x] = best[d][y] /\ x < y)
        BY <2>1, <3>1, Zenon DEF Above
      <4>3. best[d][u] > best[d][y] \/ (best[d][u] = best[d][y] /\ u < y)
        BY ONLY <4>1, <4>2, Lexicographic
      <4> QED
        BY <4>3, Zenon DEF Above
    <3>5. above(x) \subseteq above(y)
      BY <3>1
    <3>6. x \in above(y) /\ x \notin above(x)
      BY <1>2, <2>1 DEF Above
    <3>2. IsFiniteSet(above(y)) /\ IsFiniteSet(above(x))
      BY <1>3
    <3>3. above(x) # above(y)
      BY <3>6
    <3>4. Cardinality(above(x)) \in Nat /\ Cardinality(above(y)) \in Nat
      BY <1>3
    <3>7. Cardinality(above(x)) < Cardinality(above(y))
      <4> HIDE DEF above
      <4> QED
        BY ONLY <3>2, <3>3, <3>4, <3>5, FS_Subset
    <3> HIDE DEF above, on
    <3> QED
      BY <3>4, <3>7
  <2>2. Above(d, v, w) \/ Above(d, w, v)
    BY <1>2, <1>4 DEF Above
  <2>3. \A x \in on : rank[x] \in Nat
    <3> HIDE DEF on, above
    <3> QED
      BY <1>3
  <2> HIDE DEF rank, on
  <2> QED
    BY <2>1, <2>2, <2>3
<1>5. rank \in [on -> 1..size]
  <2> HIDE DEF above, on
  <2> QED
    BY <1>1, <1>3
<1>6. \A i \in 1..size : \E w \in on : rank[w] = i
  <2> HIDE DEF rank, on
  <2>1. rank \in Injection(on, 1..size)
    BY <1>4, <1>5 DEF Injection, IsInjective
  <2>2. IsFiniteSet(1..size) /\ Cardinality(1..size) = size
    BY <1>1, FS_Interval
  <2>3. rank \in Surjection(on, 1..size)
    BY <2>1, <2>2, FS_Injection
  <2> QED
    BY <2>3 DEF Surjection
<1> DEFINE places == {i \in 1..MaxWinners : i <= size}
           ranked(i) == CHOOSE w \in on : rank[w] = i
<1>7. PICK n \in Nat : n <= MaxWinners /\ places = 1..n
  <2> HIDE DEF on
  <2>1. CASE size <= MaxWinners
    <3>1. places = 1..size
      BY <1>1, <2>1
    <3> QED
      BY <1>1, <2>1, <3>1
  <2>2. CASE ~(size <= MaxWinners)
    <3>1. places = 1..MaxWinners
      BY <1>1, <2>2
    <3> QED
      BY <3>1
  <2> QED
    BY <2>1, <2>2
<1>8. Ranked(d, suspended) = [i \in places |-> ranked(i)]
  BY DEF Ranked
<1>9. \A i \in places : ranked(i) \in Wallets
  <2>1. \A i \in places : ranked(i) \in on
    <3> HIDE DEF rank, on
    <3> QED
      BY <1>1, <1>6
  <2> HIDE DEF rank, ranked
  <2> QED
    BY <2>1
<1> HIDE DEF rank, on, places, ranked
<1>10. Ranked(d, suspended) \in [1..n -> Wallets]
  BY <1>7, <1>8, <1>9
<1> QED
  BY <1>7, <1>10

\* What the server reads, files and ranks is numbers and wallets.
Numbers ==
    /\ seededMatt \in Amounts /\ best \in [Days -> [Wallets -> Nat]]
    /\ DOMAIN planned = Days /\ DOMAIN topUps = Days

FilesOK(d) ==
    /\ "seed" \in DOMAIN row[d] /\ row[d].seed \in Nat
    /\ planned[d] # NoDraft => planned[d].seed \in Nat
    /\ \A file \in topUps[d] : file.amount \in Nat

\* A prize list is drafted of a ranking that has a winner, and pays the whole pool.
PaidOK(d) ==
    /\ ranking[d] # NoRanking =>
          /\ ranking[d].seed \in Nat
          /\ ranking[d].wallets \in Seq(Wallets) /\ Len(ranking[d].wallets) <= MaxWinners
    /\ settlement[d] # NoDraft => ranking[d].wallets # << >>
    /\ status[d] = "Settled" =>
          ranking[d].wallets # << >> /\ IsSum(winners[d], MaxWallet, Pool(d))

\* What a request carries from one of its steps to a later one.
CarriedOK(q) ==
    /\ q.seen.seed \in Nat
    /\ q.kind = "prepare" => q.arg.seed \in Nat
    /\ q.kind = "topUp" => q.arg \in Nat
    /\ q.at = "save" /\ q.kind = "settle" => q.board.wallets # << >>

PaidInv ==
    /\ DaysInv /\ Numbers
    /\ \A d \in Days : FilesOK(d) /\ PaidOK(d)
    /\ \A r \in Requests : CarriedOK(req[r])

LEMMA IdleCarried == CarriedOK(Idle)
BY DEF CarriedOK, Idle, NoStatus

\* A step that only moves a request.
LEMMA MovePaid ==
    ASSUME PaidInv, DaysInv', UNCHANGED <<vars, row, drafts, ranking, best>>,
           NEW r \in Requests, NEW x, req' = [req EXCEPT ![r] = x], CarriedOK(x)
    PROVE  PaidInv'
<1>1. /\ row' = row /\ planned' = planned /\ topUps' = topUps /\ settlement' = settlement
      /\ ranking' = ranking /\ best' = best /\ seededMatt' = seededMatt
      /\ status' = status /\ winners' = winners /\ entryMatt' = entryMatt
  BY DEF vars, drafts, books, takings, payouts
<1>2. Numbers'
  BY <1>1 DEF PaidInv, Numbers
<1>3. \A d \in Days : FilesOK(d)' /\ PaidOK(d)'
  BY <1>1 DEF PaidInv, FilesOK, PaidOK, Pool
<1>4. \A s \in Requests : CarriedOK(req'[s])
  BY DEF PaidInv, DaysInv, Tables
<1> QED
  BY <1>2, <1>3, <1>4 DEF PaidInv

\* A step that writes a row.
LEMMA RowPaid ==
    ASSUME PaidInv, DaysInv', UNCHANGED <<vars, drafts, ranking, best>>,
           NEW d \in Days, NEW new, row' = [row EXCEPT ![d] = new],
           "seed" \in DOMAIN new, new.seed \in Nat,
           NEW r \in Requests, NEW x, req' = [req EXCEPT ![r] = x], CarriedOK(x)
    PROVE  PaidInv'
<1>1. /\ planned' = planned /\ topUps' = topUps /\ settlement' = settlement
      /\ ranking' = ranking /\ best' = best /\ seededMatt' = seededMatt
      /\ status' = status /\ winners' = winners /\ entryMatt' = entryMatt
  BY DEF vars, drafts, books, takings, payouts
<1>2. Numbers'
  BY <1>1 DEF PaidInv, Numbers
<1>3. \A e \in Days : PaidOK(e)'
  BY <1>1 DEF PaidInv, PaidOK, Pool
<1>4. \A e \in Days : row'[e] = IF e = d THEN new ELSE row[e]
  BY DEF PaidInv, DaysInv, Tables
<1>5. \A e \in Days : FilesOK(e)'
  BY <1>1, <1>4 DEF PaidInv, FilesOK
<1>6. \A s \in Requests : CarriedOK(req'[s])
  BY DEF PaidInv, DaysInv, Tables
<1> QED
  BY <1>2, <1>3, <1>5, <1>6 DEF PaidInv

\* A step of the contract, which settles a day only by a draft and by all it took.
LEMMA ContractPaid ==
    ASSUME PaidInv, DaysInv', UNCHANGED server, seededMatt' \in Amounts,
           \A d \in Days : status'[d] = "Settled" =>
              \/ /\ status[d] = "Settled" /\ winners'[d] = winners[d]
                 /\ entryMatt'[d] = entryMatt[d] /\ seededMatt'[d] = seededMatt[d]
              \/ settlement[d] # NoDraft /\ IsSum(winners'[d], MaxWallet, Pool(d)')
    PROVE  PaidInv'
<1>1. /\ row' = row /\ planned' = planned /\ topUps' = topUps /\ settlement' = settlement
      /\ ranking' = ranking /\ best' = best /\ req' = req
  BY DEF server, drafts
<1>2. Numbers' /\ (\A d \in Days : FilesOK(d)') /\ \A r \in Requests : CarriedOK(req'[r])
  BY <1>1 DEF PaidInv, Numbers, FilesOK
<1>3. ASSUME NEW d \in Days PROVE PaidOK(d)'
  <2>1. CASE status'[d] = "Settled" /\ ~(status[d] = "Settled" /\ winners'[d] = winners[d]
             /\ entryMatt'[d] = entryMatt[d] /\ seededMatt'[d] = seededMatt[d])
    BY <1>1, <2>1 DEF PaidInv, PaidOK
  <2>2. CASE status'[d] = "Settled" /\ status[d] = "Settled" /\ winners'[d] = winners[d]
             /\ entryMatt'[d] = entryMatt[d] /\ seededMatt'[d] = seededMatt[d]
    BY <1>1, <2>2 DEF PaidInv, PaidOK, Pool
  <2>3. CASE status'[d] # "Settled"
    BY <1>1, <2>3 DEF PaidInv, PaidOK
  <2> QED
    BY <2>1, <2>2, <2>3
<1> QED
  BY <1>2, <1>3 DEF PaidInv

\* A request begins with amounts that the operator chose.
LEMMA BeginPaid ==
    ASSUME PaidInv, DaysInv', NEW r \in Requests, NEW kind \in Kinds, NEW d \in Days,
           NEW arg \in Chosen(kind, d), Begin(r, kind, d, arg)
    PROVE  PaidInv'
<1> DEFINE x == [Idle EXCEPT !.at = FirstStep(kind), !.kind = kind, !.day = d,
                  !.arg = arg, !.early = (d > Today),
                  !.closed = (kind = "board" /\ now >= DayEnd(d))]
<1>1. UNCHANGED <<vars, row, drafts, ranking, best>> /\ req' = [req EXCEPT ![r] = x]
  BY DEF Begin
<1>2. x.at = FirstStep(kind) /\ x.kind = kind /\ x.arg = arg /\ x.seen = NoStatus
  BY DEF Idle
<1>3. FirstStep(kind) # "save"
  BY DEF FirstStep
<1>4. kind = "prepare" => arg \in [price : Prices, seed : Seeds]
  BY DEF Chosen
<1>5. kind = "topUp" => arg \in TopUps
  BY DEF Chosen
<1> HIDE DEF x
<1>6. (kind = "prepare" => arg.seed \in Nat) /\ (kind = "topUp" => arg \in Nat)
  <2>1. Seeds \subseteq Nat /\ TopUps \subseteq Nat
    BY DayConstants
  <2> QED
    BY <1>4, <1>5, <2>1
<1>7. CarriedOK(x)
  BY <1>2, <1>3, <1>6 DEF CarriedOK, NoStatus
<1> QED
  BY <1>1, <1>7, MovePaid

\* A request that goes on carries what it carried.
LEMMA GoPaid ==
    ASSUME PaidInv, DaysInv', UNCHANGED <<vars, row, drafts, ranking, best>>,
           NEW r \in Requests, NEW x, req' = [req EXCEPT ![r] = x],
           x.kind = req[r].kind, x.arg = req[r].arg, x.seen.seed \in Nat, x.at # "save"
    PROVE  PaidInv'
<1>1. CarriedOK(x)
  BY DEF PaidInv, CarriedOK
<1> QED
  BY <1>1, MovePaid

LEMMA EndPaid ==
    ASSUME PaidInv, DaysInv', UNCHANGED <<vars, row, drafts, ranking, best>>,
           NEW r \in Requests, req' = [req EXCEPT ![r] = Idle]
    PROVE  PaidInv'
BY IdleCarried, MovePaid

\* What #ensureDay returns to carries no more than its request did.
LEMMA EnsuredCarried ==
    ASSUME NEW q, CarriedOK(q)
    PROVE  CarriedOK(Ensured(q))
<1> DEFINE x == [Idle EXCEPT !.at = "read", !.kind = q.kind, !.day = q.day, !.arg = q.arg]
<1>1. x.at = "read" /\ x.kind = q.kind /\ x.arg = q.arg /\ x.seen = NoStatus
  BY DEF Idle
<1>2. Ensured(q) = Idle \/ Ensured(q) = x
  BY DEF Ensured
<1> HIDE DEF x
<1>3. CarriedOK(x)
  BY <1>1 DEF CarriedOK, NoStatus
<1> QED
  BY <1>2, <1>3, IdleCarried

\* Steps that read and write nothing.
LEMMA ReadPaid ==
    ASSUME PaidInv, DaysInv', NEW r \in Requests,
           Fail(r) \/ GetRow(r) \/ GetChain(r) \/ GetLocal(r) \/ ReadChain(r) \/ Drafted(r)
    PROVE  PaidInv'
<1>0. UNCHANGED <<vars, row, drafts, ranking, best>>
  BY DEF Fail, GetRow, GetChain, GetLocal, ReadChain, Drafted
<1> DEFINE q == req[r]
<1>1. DOMAIN q = DOMAIN Idle /\ CarriedOK(q) /\ (q.at # "idle" => q.day \in Days)
  BY DEF PaidInv, DaysInv, ReqOK
<1>2. q.seen.seed \in Nat
  BY <1>1 DEF CarriedOK
<1>3. CASE Fail(r)
  BY <1>0, <1>3, EndPaid DEF Fail, End
<1>4. CASE GetRow(r)
  <2> DEFINE old == IF row[q.day] = NoRow THEN NoRow
                    ELSE [fee |-> row[q.day].fee, confirmed |-> row[q.day].confirmed]
             x == [q EXCEPT !.at = "chain", !.old = old]
  <2>1. req' = [req EXCEPT ![r] = x]
    BY <1>4 DEF GetRow
  <2>2. x.at = "chain" /\ x.kind = q.kind /\ x.arg = q.arg /\ x.seen = q.seen
    BY <1>1 DEF Idle
  <2> HIDE DEF x
  <2> QED
    BY <1>0, <1>2, <2>1, <2>2, GoPaid
<1>5. CASE GetChain(r)
  <2> DEFINE s == DayStatus(q.day)
             y == [q EXCEPT !.at = IF q.old = NoRow THEN "insert" ELSE "local", !.seen = s,
                            !.old = NoRow]
  <2>1. \E x \in {Idle, y, Ensured(q)} : req' = [req EXCEPT ![r] = x]
    <3> HIDE DEF y, s
    <3>1. req' = [req EXCEPT ![r] =
                    IF s.status = "Unscheduled"
                    THEN IF q.old # NoRow /\ q.early /\ ~q.old.confirmed THEN Ensured(q) ELSE Idle
                    ELSE IF q.old # NoRow /\ q.old.fee # s.fee THEN Idle ELSE y]
      BY <1>5 DEF GetChain, y, s
    <3> QED
      BY <3>1
  <2>2. /\ y.at = IF q.old = NoRow THEN "insert" ELSE "local"
        /\ y.kind = q.kind /\ y.arg = q.arg /\ y.seen = s
    BY <1>1 DEF Idle
  <2>3. s.seed \in Nat
    BY <1>1, <1>5 DEF GetChain, At, DayStatus, PaidInv, Numbers
  <2> HIDE DEF y, s
  <2>4. CarriedOK(y)
    BY <1>1, <2>2, <2>3 DEF CarriedOK
  <2>5. CarriedOK(Ensured(q)) /\ CarriedOK(Idle)
    BY <1>1, EnsuredCarried, IdleCarried
  <2> QED
    BY <1>0, <2>1, <2>4, <2>5, MovePaid
<1>6. CASE GetLocal(r)
  <2> DEFINE x == [q EXCEPT !.at = "write", !.local = LocalStatus(q)]
  <2>1. req' = [req EXCEPT ![r] = x]
    BY <1>6 DEF GetLocal
  <2>2. x.at = "write" /\ x.kind = q.kind /\ x.arg = q.arg /\ x.seen = q.seen
    BY <1>1 DEF Idle
  <2> HIDE DEF x
  <2> QED
    BY <1>0, <1>2, <2>1, <2>2, GoPaid
<1>7. CASE ReadChain(r)
  <2> DEFINE s == DayStatus(q.day)
             seen == IF q.kind = "prepare" THEN NoStatus ELSE s
             x == [q EXCEPT !.at = SecondStep(q.kind), !.again = TRUE, !.seen = seen]
  <2>1. req' = [req EXCEPT ![r] = x] \/ req' = [req EXCEPT ![r] = Idle]
    BY <1>7 DEF ReadChain, End
  <2>2. x.at = SecondStep(q.kind) /\ x.kind = q.kind /\ x.arg = q.arg /\ x.seen = seen
    BY <1>1 DEF Idle
  <2>3. seen.seed \in Nat
    <3>1. s.seed \in Nat
      BY <1>1, <1>7 DEF ReadChain, At, DayStatus, PaidInv, Numbers
    <3> QED
      BY <3>1 DEF NoStatus
  <2>4. q.kind = "settle" => SecondStep(q.kind) = "drafted"
    BY DEF SecondStep
  <2> HIDE DEF x, seen
  <2>5. CarriedOK(x)
    BY <1>1, <2>2, <2>3, <2>4 DEF CarriedOK
  <2> QED
    BY <1>0, <2>1, <2>5, IdleCarried, MovePaid
<1>8. CASE Drafted(r)
  <2> DEFINE x(where) == [q EXCEPT !.at = where]
  <2>1. \/ req' = [req EXCEPT ![r] = Idle]
        \/ \E where \in {"read", "local"} : req' = [req EXCEPT ![r] = x(where)]
    BY <1>8 DEF Drafted, End, Go
  <2>2. \A where \in {"read", "local"} : /\ x(where).at = where /\ x(where).kind = q.kind
                                         /\ x(where).arg = q.arg /\ x(where).seen = q.seen
    BY <1>1 DEF Idle
  <2> HIDE DEF x
  <2>3. \A where \in {"read", "local"} : x(where).at # "save"
    BY <2>2
  <2> QED
    BY <1>0, <1>2, <2>1, <2>2, <2>3, EndPaid, GoPaid
<1> QED
  BY <1>3, <1>4, <1>5, <1>6, <1>7, <1>8

\* Steps that write a row: with the seed that was read, or that is planned.
LEMMA WritePaid ==
    ASSUME PaidInv, DaysInv', NEW r \in Requests, Insert(r) \/ Reconcile(r) \/ Plan(r)
    PROVE  PaidInv'
<1> DEFINE q == req[r]
           d == q.day
<1>1. /\ UNCHANGED <<vars, drafts, ranking, best>> /\ d \in Days /\ DOMAIN q = DOMAIN Idle
      /\ CarriedOK(q) /\ q.seen.seed \in Nat /\ ReqOK(q)
  BY DEF Insert, Reconcile, Plan, At, PaidInv, DaysInv, ReqOK, CarriedOK
<1>2. "seed" \in DOMAIN row[d] /\ row[d].seed \in Nat
  BY <1>1 DEF PaidInv, FilesOK
<1>3. CASE Insert(r)
  <2> DEFINE fresh == [fee |-> q.seen.fee, seed |-> q.seen.seed, pool |-> 0,
                       chain |-> q.seen.status, status |-> RowStatus(q), confirmed |-> TRUE]
             new == IF row[d] = NoRow THEN fresh ELSE row[d]
             x == [q EXCEPT !.at = "local"]
  <2>1. /\ row' = [row EXCEPT ![d] = new]
        /\ req' = [req EXCEPT ![r] = x] \/ req' = [req EXCEPT ![r] = Idle]
    BY <1>3 DEF Insert, Go, End
  <2>2. "seed" \in DOMAIN new /\ new.seed \in Nat
    BY <1>1, <1>2
  <2>3. x.at = "local" /\ x.kind = q.kind /\ x.arg = q.arg /\ x.seen = q.seen
    BY <1>1 DEF Idle
  <2> HIDE DEF new, x
  <2>4. CarriedOK(x) /\ CarriedOK(Idle)
    BY <1>1, <2>3, IdleCarried DEF CarriedOK
  <2> QED
    BY <1>1, <2>1, <2>2, <2>4, RowPaid
<1>4. CASE Reconcile(r) /\ Advances(d, q.seen.pool)
  <2> DEFINE new == Reconciled(row[d], q)
             f == [q EXCEPT !.at = "finalize"]
  <2>1. /\ row' = [row EXCEPT ![d] = new]
        /\ \E x \in {Idle, Ensured(q), f} : req' = [req EXCEPT ![r] = x]
    BY <1>4 DEF Reconcile
  <2>2. "seed" \in DOMAIN new /\ new.seed \in Nat
    BY <1>1, <1>2 DEF Reconciled
  <2>3. f.at = "finalize" /\ f.kind = q.kind /\ f.arg = q.arg /\ f.seen = q.seen
    BY <1>1 DEF Idle
  <2> HIDE DEF new, f
  <2>4. CarriedOK(f) /\ CarriedOK(Idle) /\ CarriedOK(Ensured(q))
    BY <1>1, <2>3, IdleCarried, EnsuredCarried DEF CarriedOK
  <2> QED
    BY <1>1, <2>1, <2>2, <2>4, RowPaid
<1>5. CASE Reconcile(r) /\ ~Advances(d, q.seen.pool)
  BY <1>1, <1>5, EndPaid DEF Reconcile, End
<1>6. CASE Plan(r)
  <2> DEFINE plan == [fee |-> q.arg.price, seed |-> q.arg.seed, pool |-> 0,
                      chain |-> "Unscheduled", status |-> "scheduled", confirmed |-> FALSE]
             new == IF row[d] = NoRow THEN plan
                    ELSE [plan EXCEPT !.pool = row[d].pool, !.status = row[d].status]
             x == [q EXCEPT !.at = "save"]
  <2>1. row' = [row EXCEPT ![d] = new] /\ req' = [req EXCEPT ![r] = x]
    BY <1>6 DEF Plan, Go
  <2>2. q.kind = "prepare" /\ q.arg.seed \in Nat
    BY <1>1, <1>6 DEF Plan, At, ReqOK, CarriedOK
  <2>3. "seed" \in DOMAIN new /\ new.seed = q.arg.seed
    OBVIOUS
  <2>4. x.at = "save" /\ x.kind = q.kind /\ x.arg = q.arg /\ x.seen = q.seen
    BY <1>1 DEF Idle
  <2> HIDE DEF new, x
  <2>5. CarriedOK(x)
    BY <1>1, <2>2, <2>4 DEF CarriedOK
  <2> QED
    BY <1>1, <2>1, <2>2, <2>3, <2>5, RowPaid
<1> QED
  BY <1>3, <1>4, <1>5, <1>6

\* The ranking that is frozen is a list of wallets; an empty one goes no further.
LEMMA FinalizePaid ==
    ASSUME PaidInv, DaysInv', NEW r \in Requests, Finalize(r)
    PROVE  PaidInv'
<1> DEFINE q == req[r]
           d == q.day
<1>0. PICK board : board = Final(d, q.arg)
  OBVIOUS
<1> DEFINE x == [q EXCEPT !.at = "save", !.board = board]
<1>1. /\ d \in Days /\ DOMAIN q = DOMAIN Idle /\ CarriedOK(q) /\ q.kind = "settle"
      /\ UNCHANGED <<vars, drafts, best>>
  BY DEF Finalize, At, PaidInv, DaysInv, ReqOK
<1>2. \/ req' = [req EXCEPT ![r] = Idle]
      \/ req' = [req EXCEPT ![r] = x] /\ board.wallets # << >>
  BY <1>0 DEF Finalize, End
<1>3. x.at = "save" /\ x.kind = q.kind /\ x.arg = q.arg /\ x.seen = q.seen /\ x.board = board
  BY <1>1 DEF Idle
<1> HIDE DEF x
<1>4. board.wallets # << >> => CarriedOK(x)
  BY <1>1, <1>3 DEF CarriedOK
<1>5. CASE ranking[d] # NoRanking
  <2>1. UNCHANGED <<row, ranking>>
    BY <1>5 DEF Finalize
  <2> QED
    BY <1>1, <1>2, <1>4, <2>1, IdleCarried, MovePaid
<1>6. CASE ranking[d] = NoRanking
  <2> DEFINE new == [row[d] EXCEPT !.status =
                       IF row[d].chain = "Settled" THEN "settled" ELSE "finalized"]
  <2>1. ranking' = [ranking EXCEPT ![d] = board] /\ row' = [row EXCEPT ![d] = new]
    BY <1>0, <1>6 DEF Finalize
  <2>2. "seed" \in DOMAIN row[d] /\ row[d].seed \in Nat
    BY <1>1 DEF PaidInv, FilesOK
  <2>3. "seed" \in DOMAIN new /\ new.seed \in Nat
    BY <2>2
  <2> HIDE DEF new
  <2>4. board = [wallets |-> Ranked(d, q.arg), pool |-> row[d].pool, seed |-> row[d].seed]
    BY <1>0, <1>6 DEF Final
  <2>5. Ranked(d, q.arg) \in Seq(Wallets) /\ Len(Ranked(d, q.arg)) <= MaxWinners
    <3>1. best[d] \in [Wallets -> Nat]
      BY <1>1 DEF PaidInv, Numbers
    <3> QED
      BY <1>1, <3>1, RankedIsList
  <2>6. /\ planned' = planned /\ topUps' = topUps /\ settlement' = settlement
        /\ best' = best /\ seededMatt' = seededMatt
        /\ status' = status /\ winners' = winners /\ entryMatt' = entryMatt
    BY <1>1 DEF vars, drafts, books, takings, payouts
  <2>7. /\ \A e \in Days : row'[e] = IF e = d THEN new ELSE row[e]
        /\ \A e \in Days : ranking'[e] = IF e = d THEN board ELSE ranking[e]
    BY <2>1 DEF PaidInv, DaysInv, Tables
  <2>8. Numbers' /\ \A e \in Days : FilesOK(e)'
    BY <2>3, <2>6, <2>7 DEF PaidInv, Numbers, FilesOK
  <2>9. settlement[d] = NoDraft /\ status[d] # "Settled"
    BY <1>1, <1>6 DEF PaidInv, DaysInv, FrozenOK
  <2>10. ASSUME NEW e \in Days PROVE PaidOK(e)'
    <3>1. CASE e = d
      <4>1. ranking'[d].seed \in Nat /\ ranking'[d].wallets \in Seq(Wallets)
            /\ Len(ranking'[d].wallets) <= MaxWinners
        BY <1>1, <2>2, <2>4, <2>5, <2>7
      <4> QED
        BY <2>6, <2>9, <3>1, <4>1 DEF PaidOK
    <3>2. CASE e # d
      BY <2>6, <2>7, <3>2 DEF PaidInv, PaidOK, Pool
    <3> QED
      BY <3>1, <3>2
  <2>11. \A s \in Requests : CarriedOK(req'[s])
    BY <1>2, <1>4, IdleCarried DEF PaidInv, DaysInv, Tables
  <2> QED
    BY <2>8, <2>10, <2>11 DEF PaidInv
<1> QED
  BY <1>5, <1>6

\* What is filed is what the request carried.
LEMMA SavePaid ==
    ASSUME PaidInv, DaysInv', NEW r \in Requests, Save(r)
    PROVE  PaidInv'
<1> DEFINE q == req[r]
           d == q.day
<1>1. /\ d \in Days /\ CarriedOK(q) /\ q.at = "save" /\ ReqOK(q)
      /\ UNCHANGED <<vars, row, ranking, best>> /\ req' = [req EXCEPT ![r] = Idle]
  BY DEF Save, End, At, PaidInv, DaysInv, ReqOK
<1>2. /\ row' = row /\ ranking' = ranking /\ best' = best /\ seededMatt' = seededMatt
      /\ status' = status /\ winners' = winners /\ entryMatt' = entryMatt
  BY <1>1 DEF vars, books, takings, payouts
<1>3. ASSUME NEW e \in Days
      PROVE  planned'[e] # NoDraft => planned'[e].seed \in Nat
  <2>1. planned[e] # NoDraft => planned[e].seed \in Nat
    BY DEF PaidInv, FilesOK
  <2>2. \/ planned'[e] = planned[e]
        \/ q.kind = "prepare" /\ planned'[e] = q.arg
    BY DEF Save, PaidInv, Numbers
  <2> QED
    BY <1>1, <2>1, <2>2 DEF CarriedOK
<1>4. DOMAIN planned' = Days /\ DOMAIN topUps' = Days
  BY DEF Save, PaidInv, Numbers
<1>5. ASSUME NEW e \in Days, NEW file \in topUps'[e] PROVE file.amount \in Nat
  <2>1. \A old \in topUps[e] : old.amount \in Nat
    BY DEF PaidInv, FilesOK
  <2> DEFINE made == [at |-> q.seen.seed, amount |-> q.arg]
  <2>2. \/ file \in topUps[e]
        \/ q.kind = "topUp" /\ file = made
    <3>1. topUps' = topUps \/ (q.kind = "topUp" /\ topUps' = [topUps EXCEPT ![d] = @ \cup {made}])
      BY DEF Save
    <3>2. DOMAIN topUps = Days
      BY DEF PaidInv, Numbers
    <3> HIDE DEF made
    <3> QED
      BY <1>5, <3>1, <3>2
  <2>3. made.amount = q.arg
    OBVIOUS
  <2> HIDE DEF made
  <2> QED
    BY <1>1, <2>1, <2>2, <2>3 DEF CarriedOK
<1>6. Numbers' /\ \A e \in Days : FilesOK(e)'
  BY <1>2, <1>3, <1>4, <1>5 DEF PaidInv, Numbers, FilesOK
<1>7. ASSUME NEW e \in Days PROVE settlement'[e] # NoDraft => ranking[e].wallets # << >>
  <2>1. settlement[e] # NoDraft => ranking[e].wallets # << >>
    BY DEF PaidInv, PaidOK
  <2>2. settlement'[e] = settlement[e] \/ (q.kind = "settle" /\ e = d)
    <3>1. \/ settlement' = settlement
          \/ q.kind = "settle" /\ \E new : settlement' = [settlement EXCEPT ![d] = new]
      BY DEF Save
    <3> QED
      BY <3>1 DEF PaidInv, DaysInv, Tables
  <2> QED
    BY <1>1, <2>1, <2>2 DEF ReqOK, CarriedOK
<1>8. \A e \in Days : PaidOK(e)'
  BY <1>2, <1>7 DEF PaidInv, PaidOK, Pool
<1>9. \A s \in Requests : CarriedOK(req'[s])
  BY <1>1, IdleCarried DEF PaidInv, DaysInv, Tables
<1> QED
  BY <1>6, <1>8, <1>9 DEF PaidInv

\* A score is a number.
LEMMA ScorePaid ==
    ASSUME PaidInv, DaysInv', NEW d \in Days, NEW w \in Wallets, NEW score \in 1..MaxScore,
           Score(d, w, score)
    PROVE  PaidInv'
<1>1. /\ row' = row /\ planned' = planned /\ topUps' = topUps /\ settlement' = settlement
      /\ ranking' = ranking /\ req' = req /\ seededMatt' = seededMatt
      /\ status' = status /\ winners' = winners /\ entryMatt' = entryMatt
  BY DEF Score, vars, drafts, books, takings, payouts
<1>2. best' \in [Days -> [Wallets -> Nat]]
  <2>1. best \in [Days -> [Wallets -> Nat]] /\ score \in Nat
    <3>1. best \in [Days -> [Wallets -> Nat]]
      BY Zenon DEF PaidInv, Numbers
    <3>2. score \in Nat
      OBVIOUS
    <3> QED
      BY <3>1, <3>2
  <2> DEFINE new == [best[d] EXCEPT ![w] = score]
  <2>2. best' = [best EXCEPT ![d] = new] /\ new \in [Wallets -> Nat]
    BY <2>1 DEF Score
  <2> HIDE DEF new
  <2> QED
    BY <2>1, <2>2
<1>3. Numbers' /\ \A e \in Days : FilesOK(e)' /\ PaidOK(e)'
  BY <1>1, <1>2 DEF PaidInv, Numbers, FilesOK, PaidOK, Pool
<1> QED
  BY <1>1, <1>3 DEF PaidInv

\* Only a draft settles, by as much as the contract took; a settled day takes nothing.
LEMMA RoninPaid ==
    ASSUME PaidInv, DaysInv', UNCHANGED server, Tick \/ \E d \in Days : OnRonin(d)
    PROVE  PaidInv'
<1>0. /\ seededMatt \in Amounts /\ DOMAIN status = Days /\ DOMAIN winners = Days
      /\ DOMAIN seededMatt = Days /\ DOMAIN entryMatt = Days /\ entryMatt \in Amounts
  BY DEF PaidInv, Numbers, DaysInv, Tables
<1>1. CASE Tick \/ SetEntriesPaused(FALSE)
  <2>1. UNCHANGED <<seededMatt, entryMatt, status, winners>>
    BY <1>1 DEF Tick, SetEntriesPaused, books, takings, payouts
  <2> QED
    BY <1>0, <2>1, ContractPaid
<1>2. ASSUME NEW d \in Days, SafeConfigure(d) PROVE PaidInv'
  <2>1. /\ UNCHANGED <<entryMatt, winners>> /\ planned[d].seed \in Nat
        /\ status' = [status EXCEPT ![d] = "Scheduled"] /\ status[d] = "Unscheduled"
        /\ seededMatt' = [seededMatt EXCEPT ![d] = @ + planned[d].seed]
    BY <1>2 DEF SafeConfigure, Unpriced, payouts, PaidInv, FilesOK
  <2>2. seededMatt' \in Amounts
    BY <1>0, <2>1
  <2>3. \A e \in Days : status'[e] = "Settled" =>
           status[e] = "Settled" /\ winners'[e] = winners[e]
           /\ entryMatt'[e] = entryMatt[e] /\ seededMatt'[e] = seededMatt[e]
    BY <1>0, <2>1
  <2> QED
    BY <2>2, <2>3, ContractPaid
<1>3. ASSUME NEW d \in Days, SafeSeed(d) PROVE PaidInv'
  <2>1. PICK file \in topUps[d] : SeedDay(d, file.amount)
    BY <1>3 DEF SafeSeed
  <2>2. /\ UNCHANGED <<entryMatt, winners, status>> /\ file.amount \in Nat
        /\ status[d] = "Scheduled"
        /\ seededMatt' = [seededMatt EXCEPT ![d] = @ + file.amount]
    BY <2>1 DEF SeedDay, Scheduled, payouts, PaidInv, FilesOK
  <2>3. seededMatt' \in Amounts
    BY <1>0, <2>2
  <2>4. \A e \in Days : status'[e] = "Settled" =>
           status[e] = "Settled" /\ winners'[e] = winners[e]
           /\ entryMatt'[e] = entryMatt[e] /\ seededMatt'[e] = seededMatt[e]
    BY <1>0, <2>2
  <2> QED
    BY <2>3, <2>4, ContractPaid
<1>4. ASSUME NEW d \in Days, CancelDay(d) PROVE PaidInv'
  <2>1. /\ UNCHANGED <<entryMatt, winners, seededMatt>>
        /\ status' = [status EXCEPT ![d] = "Cancelled"]
    BY <1>4 DEF CancelDay, payouts, takings
  <2>2. \A e \in Days : status'[e] = "Settled" =>
           status[e] = "Settled" /\ winners'[e] = winners[e]
           /\ entryMatt'[e] = entryMatt[e] /\ seededMatt'[e] = seededMatt[e]
    BY <1>0, <2>1
  <2> QED
    BY <1>0, <2>1, <2>2, ContractPaid
<1>5. ASSUME NEW d \in Days, NEW w \in Wallets, Enter(d, w) PROVE PaidInv'
  <2>1. /\ UNCHANGED <<winners, seededMatt, status>> /\ status[d] = "Scheduled"
        /\ entryMatt' = [entryMatt EXCEPT ![d] = @ + fee[d]]
    BY <1>5 DEF Enter, Scheduled, payouts
  <2>2. \A e \in Days : status'[e] = "Settled" =>
           status[e] = "Settled" /\ winners'[e] = winners[e]
           /\ entryMatt'[e] = entryMatt[e] /\ seededMatt'[e] = seededMatt[e]
    BY <1>0, <2>1
  <2> QED
    BY <1>0, <2>1, <2>2, ContractPaid
<1>6. ASSUME NEW d \in Days, SafeSettle(d) PROVE PaidInv'
  <2> DEFINE prizes == settlement[d].shares
  <2>1. /\ UNCHANGED <<entryMatt, seededMatt>> /\ settlement[d] # NoDraft
        /\ IsSum(prizes, MaxWallet, Pool(d))
        /\ status' = [status EXCEPT ![d] = "Settled"]
        /\ winners' = [winners EXCEPT ![d] = prizes]
    BY <1>6 DEF SafeSettle, SettleDay, ValidPrizes, takings
  <2>2. ASSUME NEW e \in Days, status'[e] = "Settled"
        PROVE  \/ /\ status[e] = "Settled" /\ winners'[e] = winners[e]
                  /\ entryMatt'[e] = entryMatt[e] /\ seededMatt'[e] = seededMatt[e]
               \/ settlement[e] # NoDraft /\ IsSum(winners'[e], MaxWallet, Pool(e)')
    <3>1. Pool(e)' = Pool(e)
      BY <2>1 DEF Pool
    <3> HIDE DEF prizes
    <3>2. CASE e = d
      BY <1>0, <2>1, <3>1, <3>2
    <3>3. CASE e # d
      BY <1>0, <2>1, <2>2, <3>3
    <3> QED
      BY <3>2, <3>3
  <2> QED
    BY <1>0, <2>1, <2>2, ContractPaid
<1> QED
  BY <1>1, <1>2, <1>3, <1>4, <1>5, <1>6 DEF OnRonin

LEMMA PaidNextInv == PaidInv /\ [DaysNext]_dayVars => PaidInv'
<1> SUFFICES ASSUME PaidInv, [DaysNext]_dayVars PROVE PaidInv'
  OBVIOUS
<1>0. DaysInv'
  BY DaysNextInv DEF PaidInv
<1>1. CASE UNCHANGED dayVars
  <2>1. /\ UNCHANGED server /\ UNCHANGED <<seededMatt, entryMatt, status, winners>>
    BY <1>1 DEF dayVars, vars, books, takings, payouts
  <2> QED
    BY <1>0, <2>1, ContractPaid DEF PaidInv, Numbers
<1>2. CASE DaysNext
  <2>1. ASSUME NEW r \in Requests, Serve(r) PROVE PaidInv'
    <3>1. ASSUME NEW kind \in Kinds, NEW d \in Days, NEW arg \in Chosen(kind, d),
                 Begin(r, kind, d, arg)
          PROVE  PaidInv'
      BY <1>0, <3>1, BeginPaid
    <3> QED
      BY <1>0, <2>1, <3>1, ReadPaid, WritePaid, FinalizePaid, SavePaid DEF Serve
  <2> QED
    BY <1>0, <1>2, <2>1, ScorePaid, RoninPaid DEF DaysNext
<1> QED
  BY <1>1, <1>2

LEMMA PaidInitInv == DaysInit => PaidInv
<1> SUFFICES ASSUME DaysInit PROVE PaidInv
  OBVIOUS
<1>1. DaysInv
  BY DaysInitInv
<1>2. Numbers
  BY DEF DaysInit, Init, Numbers, NoMatt, NoWallet
<1>3. \A d \in Days : FilesOK(d) /\ PaidOK(d)
  BY DEF DaysInit, Init, FilesOK, PaidOK, NoRow
<1>4. \A r \in Requests : CarriedOK(req[r])
  BY IdleCarried DEF DaysInit
<1> QED
  BY <1>1, <1>2, <1>3, <1>4 DEF PaidInv

\* A settled day was settled by the ranking that the server froze, and over every
\* entry and seed that the contract took, top-ups after the freeze included: the
\* prizes add up to both, so they are the same.
LEMMA SettledWhole == PaidInv => SettledByRanking
<1> SUFFICES ASSUME PaidInv PROVE SettledByRanking
  OBVIOUS
<1>1. FrozenIsPaid
  BY DEF PaidInv, DaysInv, FrozenOK, FrozenIsPaid
<1>2. ASSUME NEW d \in Days, status[d] = "Settled"
      PROVE  ranking[d].pool + ranking[d].seed = Pool(d)
  <2> DEFINE wallets == ranking[d].wallets
             pool == ranking[d].pool + ranking[d].seed
  <2>1. /\ ranking[d] # NoRanking /\ wallets \in Seq(Wallets) /\ Len(wallets) <= MaxWinners
        /\ wallets # << >> /\ ranking[d].seed \in Nat /\ ranking[d].pool = entryMatt[d]
        /\ IsSum(winners[d], MaxWallet, Pool(d)) /\ winners[d] = Promised(d)
    BY <1>2 DEF PaidInv, PaidOK, DaysInv, FrozenOK
  <2>2. entryMatt[d] \in Nat /\ Pool(d) \in Nat
    BY DEF PaidInv, Numbers, DaysInv, Tables, Pool
  <2>3. winners[d] = Allocation(wallets, pool) /\ pool \in Nat
    BY <2>1, <2>2 DEF Promised
  <2> HIDE DEF wallets, pool
  <2>4. /\ \A w \in Wallets : winners[d][w] \in Nat
        /\ SumFunctionOnSet(winners[d], Wallets) = pool
    BY <2>1, <2>3, AllocationFillsPool
  <2>5. SumFunctionOnSet(winners[d], 1..MaxWallet) = Pool(d)
    <3>1. \A w \in 1..MaxWallet : winners[d][w] \in Int
      BY <2>4
    <3> QED
      BY <2>1, <2>2, <3>1, SumIsTotal
  <2> QED
    BY <2>4, <2>5 DEF pool
<1> QED
  BY <1>1, <1>2 DEF SettledByRanking

\* A day is settled by the one ranking that was frozen after it was over, over every
\* entry, and its prizes are all that the contract took in (createSettlement).
THEOREM SettledByFrozenRanking == DaysSpec => []SettledByRanking
BY PaidInitInv, PaidNextInv, SettledWhole, PTL DEF DaysSpec
=============================================================================

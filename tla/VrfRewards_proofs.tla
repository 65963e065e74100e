-------------------------- MODULE VrfRewards_proofs --------------------------
(***************************************************************************)
(* VrfRewards for every number of requests, adapters, buyers, prices and     *)
(* versions: chests and adapters agree on what is open, the contract holds   *)
(* the MATT of exactly the open chests, and an item is rolled from what the  *)
(* buyer saw.                                                                *)
(*                                                                          *)
(* The invariant adds what the agreement rests on: a consumer only ever uses *)
(* an adapter of its own, a delivered word has come, and the version of an   *)
(* open chest is frozen, so its pools are still those the buyer saw.         *)
(*                                                                          *)
(* The second half is about what a Miner earns.  EarnInv relates a Miner's   *)
(* stored intervals to the plays they stand for and its stored owners to     *)
(* those it had: the intervals are in order and apart and cover the active   *)
(* seconds of every play, the owners' checkpoints are in order and the last  *)
(* one is in force.  So a day that is over pays for those seconds, and the   *)
(* calls that come later cannot change whom or how much it pays.             *)
(***************************************************************************)
EXTENDS VrfRewards, SumsTheorems, TLAPS

(* Intervals of time.                                                       *)

Intervals == [start : Nat, end : Nat]

\* Intervals as recordActivity keeps them: in order, apart, begun, and no longer
\* than the window allows.
Apart(is) ==
    /\ \A i \in 1..Len(is) : is[i].start < is[i].end
    /\ \A i, j \in 1..Len(is) : i < j => is[i].end < is[j].start

Recent(is, t) ==
    \A i \in 1..Len(is) : is[i].start <= t /\ is[i].end <= t + ActivityWindow

\* The seconds from a time until before another.
Seconds(from, to) == from..(to - 1)

Covered(is) == UNION {Seconds(is[i].start, is[i].end) : i \in 1..Len(is)}

ActivePlays(P) == UNION {Seconds(t, t + ActivityWindow) : t \in P}

\* Sequences that get a new last element, or one more.
LEMMA LastWritten ==
    ASSUME NEW S, NEW q \in Seq(S), NEW k \in 1..Len(q), NEW x \in S
    PROVE  /\ [q EXCEPT ![k] = x] \in Seq(S) /\ Len([q EXCEPT ![k] = x]) = Len(q)
           /\ [q EXCEPT ![k] = x][k] = x
           /\ \A i \in 1..Len(q) : i # k => [q EXCEPT ![k] = x][i] = q[i]
OBVIOUS

LEMMA Appended ==
    ASSUME NEW S, NEW q \in Seq(S), NEW x \in S, NEW r, r = Append(q, x)
    PROVE  /\ r \in Seq(S) /\ Len(r) = Len(q) + 1 /\ r[Len(q) + 1] = x
           /\ \A i \in 1..Len(q) : r[i] = q[i]
OBVIOUS

LEMMA Prolonged ==
    ASSUME NEW r \in Intervals, NEW v \in Nat
    PROVE  [r EXCEPT !.end = v] = [start |-> r.start, end |-> v]
BY DEF Intervals

\* The last interval goes on until a later time, or another begins after it.
GoesOn(is, new, t, until) ==
    /\ is \in Seq(Intervals) /\ Apart(is) /\ t \in Nat /\ until \in Nat /\ t < until
    /\ Len(is) >= 1 /\ is[Len(is)].end >= t
    /\ \A i \in 1..Len(is) : is[i].start <= t /\ is[i].end <= until
    /\ new \in Seq(Intervals) /\ Len(new) = Len(is)
    /\ new[Len(is)].start = is[Len(is)].start /\ new[Len(is)].end = until
    /\ \A i \in 1..Len(is) : i # Len(is) => new[i] = is[i]

Begins(is, new, t, until) ==
    /\ is \in Seq(Intervals) /\ Apart(is) /\ t \in Nat /\ until \in Nat /\ t < until
    /\ Len(is) >= 1 => is[Len(is)].end < t
    /\ new \in Seq(Intervals) /\ Len(new) = Len(is) + 1
    /\ new[Len(is) + 1].start = t /\ new[Len(is) + 1].end = until
    /\ \A i \in 1..Len(is) : new[i] = is[i]

LEMMA Longer ==
    ASSUME NEW is, NEW new, NEW t, NEW until, GoesOn(is, new, t, until)
    PROVE  /\ Apart(new)
           /\ \A i \in 1..Len(is) : new[i].start = is[i].start /\ new[i].end <= until
           /\ Covered(new) = Covered(is) \cup Seconds(t, until)
<1> DEFINE n == Len(is)
<1>0. /\ is \in Seq(Intervals) /\ Apart(is) /\ t \in Nat /\ until \in Nat /\ t < until
      /\ n >= 1 /\ is[n].end >= t
      /\ \A i \in 1..n : is[i].start <= t /\ is[i].end <= until
      /\ new \in Seq(Intervals) /\ Len(new) = n
      /\ new[n].start = is[n].start /\ new[n].end = until
      /\ \A i \in 1..n : i # n => new[i] = is[i]
  BY DEF GoesOn
<1> USE <1>0
<1>1. n \in Nat /\ n \in 1..n
  OBVIOUS
<1>2. \A i \in 1..n : is[i] \in Intervals /\ new[i] \in Intervals
  OBVIOUS
<1>3. \A i \in 1..n : /\ is[i].start \in Nat /\ is[i].end \in Nat /\ is[i].start < is[i].end
                      /\ new[i].start \in Nat /\ new[i].end \in Nat
  BY <1>2 DEF Intervals, Apart
<1>4. ASSUME NEW i \in 1..n
      PROVE  /\ new[i].start = is[i].start /\ is[i].end <= new[i].end /\ new[i].end <= until
             /\ new[i].end = is[i].end \/ (i = n /\ new[i].end = until)
  <2>1. CASE i = n
    BY <1>1, <1>3, <2>1
  <2>2. CASE i # n
    BY <1>3, <2>2
  <2> QED
    BY <2>1, <2>2
<1>5. Apart(new)
  <2>1. \A i \in 1..n : new[i].start < new[i].end
    <3> TAKE i \in 1..n
    <3> QED
      BY <1>3, <1>4
  <2>2. ASSUME NEW i \in 1..n, NEW j \in 1..n, i < j PROVE new[i].end < new[j].start
    <3>1. new[i].end = is[i].end /\ new[j].start = is[j].start
      BY <1>1, <1>4, <2>2
    <3>2. is[i].end < is[j].start
      BY <2>2 DEF Apart
    <3> QED
      BY <3>1, <3>2
  <2> QED
    BY <2>1, <2>2 DEF Apart
<1>6. Covered(new) = Covered(is) \cup Seconds(t, until)
  <2>1. ASSUME NEW x \in Covered(new) PROVE x \in Covered(is) \cup Seconds(t, until)
    <3>1. PICK i \in 1..n : x \in Seconds(new[i].start, new[i].end)
      BY DEF Covered
    <3>2. x \in Seconds(is[i].start, is[i].end) \/ x \in Seconds(t, until)
      BY <1>3, <1>4, <3>1 DEF Seconds
    <3> QED
      BY <3>2 DEF Covered
  <2>2. ASSUME NEW x \in Covered(is) PROVE x \in Covered(new)
    <3>1. PICK i \in 1..n : x \in Seconds(is[i].start, is[i].end)
      BY DEF Covered
    <3>2. x \in Seconds(new[i].start, new[i].end)
      BY <1>3, <1>4, <3>1 DEF Seconds
    <3> QED
      BY <3>2 DEF Covered
  <2>3. ASSUME NEW x \in Seconds(t, until) PROVE x \in Covered(new)
    <3>1. x \in Seconds(new[n].start, new[n].end)
      BY <1>1, <1>3 DEF Seconds
    <3> QED
      BY <1>1, <3>1 DEF Covered
  <2> QED
    BY <2>1, <2>2, <2>3
<1>7. \A i \in 1..n : new[i].start = is[i].start /\ new[i].end <= until
  <2> TAKE i \in 1..n
  <2> QED
    BY <1>3, <1>4
<1> QED
  BY <1>5, <1>6, <1>7

LEMMA Another ==
    ASSUME NEW is, NEW new, NEW t, NEW until, Begins(is, new, t, until)
    PROVE  Apart(new) /\ Covered(new) = Covered(is) \cup Seconds(t, until)
<1> DEFINE n == Len(is)
<1>0. /\ is \in Seq(Intervals) /\ Apart(is) /\ t \in Nat /\ until \in Nat /\ t < until
      /\ n >= 1 => is[n].end < t
      /\ new \in Seq(Intervals) /\ Len(new) = n + 1
      /\ new[n + 1].start = t /\ new[n + 1].end = until
      /\ \A i \in 1..n : new[i] = is[i]
  BY DEF Begins
<1> USE <1>0
<1>1. n \in Nat /\ 1..(n + 1) = (1..n) \cup {n + 1} /\ n + 1 \notin 1..n
  OBVIOUS
<1>2. \A i \in 1..n : is[i] \in Intervals
  OBVIOUS
<1>3. \A i \in 1..n : is[i].start \in Nat /\ is[i].end \in Nat /\ is[i].start < is[i].end
  BY <1>2 DEF Intervals, Apart
<1>4. \A i \in 1..n : is[i].end < t
  <2> TAKE i \in 1..n
  <2>1. n \in 1..n /\ (i = n \/ i < n)
    BY <1>1
  <2>2. i < n => is[i].end < is[n].start
    BY <2>1 DEF Apart
  <2> QED
    BY <1>3, <2>1, <2>2
<1>5. Apart(new)
  <2>1. \A i \in 1..(n + 1) : new[i].start < new[i].end
    BY <1>1, <1>3
  <2>2. ASSUME NEW i \in 1..(n + 1), NEW j \in 1..(n + 1), i < j
        PROVE  new[i].end < new[j].start
    <3>1. i \in 1..n /\ new[i] = is[i]
      BY <1>1, <2>2
    <3>2. CASE j = n + 1
      BY <1>4, <3>1, <3>2
    <3>3. CASE j \in 1..n
      <4>1. is[i].end < is[j].start /\ new[j] = is[j]
        BY <2>2, <3>1, <3>3 DEF Apart
      <4> QED
        BY <3>1, <4>1
    <3> QED
      BY <1>1, <3>2, <3>3
  <2> QED
    BY <2>1, <2>2 DEF Apart
<1>6. Covered(new) = Covered(is) \cup Seconds(t, until)
  <2>1. Covered(new) = UNION {Seconds(new[i].start, new[i].end) : i \in (1..n) \cup {n + 1}}
    BY <1>1 DEF Covered
  <2>2. ASSUME NEW i \in 1..n
        PROVE  Seconds(new[i].start, new[i].end) = Seconds(is[i].start, is[i].end)
    <3>1. new[i] = is[i]
      OBVIOUS
    <3> QED
      BY <3>1
  <2>3. Seconds(new[n + 1].start, new[n + 1].end) = Seconds(t, until)
    OBVIOUS
  <2>4. Covered(is) = UNION {Seconds(is[i].start, is[i].end) : i \in 1..n}
    BY DEF Covered
  <2> QED
    BY ONLY <2>1, <2>2, <2>3, <2>4
<1> QED
  BY <1>5, <1>6

-----------------------------------------------------------------------------
USE AdapterAssumption, ChestAssumption, PassiveAssumption, DeploymentAssumption

OwnAdapters == \A c \in Consumers : ConsumerOf[provider[c]] = c

DeliveredHasCome == \A n \in Asked : requests[n].delivered => Answered(n)

PinnedPending ==
    /\ activeVersion \in frozen
    /\ \A v \in frozen : pools[v] # NoPool
    /\ \A n \in Ids : pending[n] # NoChest =>
          pending[n].version \in frozen /\ pending[n].seen = pools[pending[n].version]

Inv ==
    /\ TypeOK
    /\ OwnAdapters /\ DeliveredHasCome /\ PinnedPending
    /\ RollIsPinned /\ EscrowMatchesRequests

-----------------------------------------------------------------------------
(* What the adapters count.                                                 *)

LEMMA RequestTypes ==
    ASSUME Inv
    PROVE  /\ Len(requests) \in Nat /\ Len(requests) <= MaxRequests
           /\ Asked = 1..Len(requests) /\ Asked \subseteq Ids
           /\ \A n \in Asked : requests[n] \in WordRequests
           /\ \A a \in Adapters : outstanding[a] \in Nat /\ Counts(a) \in [1..MaxRequests -> Nat]
<1>1. requests \in Seq(WordRequests) /\ Len(requests) <= MaxRequests
  BY DEF Inv, TypeOK, AdapterTypeOK
<1>2. Len(requests) \in Nat /\ Asked = 1..Len(requests)
  BY <1>1 DEF Asked
<1>3. \A n \in Asked : requests[n] \in WordRequests
  BY <1>1, <1>2
<1>4. \A a \in Adapters : Counts(a) \in [1..MaxRequests -> Nat]
  BY DEF Counts, Ids
<1>5. \A a \in Adapters : outstanding[a] \in Nat
  BY DEF Inv, TypeOK, AdapterTypeOK
<1>6. Asked \subseteq Ids
  BY <1>1, <1>2 DEF Ids
<1> QED
  BY <1>1, <1>2, <1>3, <1>4, <1>5, <1>6

\* The adapters agree with the requests after a step.
AdaptersAgree ==
    /\ requests \in Seq(WordRequests) /\ Len(requests) <= MaxRequests
    /\ outstanding \in [Adapters -> Nat]
    /\ DeliveredHasCome
    /\ \A a \in Adapters : IsSum(Counts(a), MaxRequests, outstanding[a])

LEMMA RequestsGrow ==
    ASSUME Inv, NEW a \in Adapters, NEW k \in Nat, RequestWords(a, k)
    PROVE  /\ AdaptersAgree'
           /\ Len(requests') = Len(requests) + k
           /\ Asked' = 1..(Len(requests) + k)
           /\ \A n \in Asked : requests'[n] = requests[n]
           /\ \A n \in Asked' \ Asked : requests'[n].adapter = a /\ Waiting(n)'
<1> DEFINE fresh == [adapter |-> a, word |-> NoWord, delivered |-> FALSE, cancelled |-> FALSE]
<1>1. fresh \in WordRequests
  BY DEF WordRequests
<1>2. requests \in Seq(WordRequests) /\ Len(requests) \in Nat /\ Asked = 1..Len(requests)
  BY RequestTypes DEF Inv, TypeOK, AdapterTypeOK
<1>3. [i \in 1..k |-> fresh] \in Seq(WordRequests) /\ Len([i \in 1..k |-> fresh]) = k
  <2> HIDE DEF fresh
  <2> QED
    BY <1>1
<1>4. requests' = requests \o [i \in 1..k |-> fresh] /\ Len(requests) + k <= MaxRequests
  BY DEF RequestWords
<1> HIDE DEF fresh
<1>5. /\ requests' \in Seq(WordRequests)
      /\ Len(requests') = Len(requests) + k /\ Len(requests') <= MaxRequests
  BY <1>2, <1>3, <1>4
<1>6. Asked' = 1..(Len(requests) + k)
  BY <1>5 DEF Asked
<1>7. /\ \A n \in Asked : requests'[n] = requests[n]
      /\ \A n \in Asked' \ Asked : requests'[n] = fresh
  BY <1>2, <1>3, <1>4, <1>6
<1>8. \A n \in Asked' \ Asked : requests'[n].adapter = a /\ Waiting(n)'
  BY <1>7 DEF fresh, Waiting
<1>9. DeliveredHasCome'
  BY <1>7, <1>8 DEF Inv, DeliveredHasCome, Answered, Waiting
<1>10. outstanding' = [outstanding EXCEPT ![a] = @ + k] /\ outstanding \in [Adapters -> Nat]
  BY DEF RequestWords, Inv, TypeOK, AdapterTypeOK
<1>11. ASSUME NEW b \in Adapters PROVE IsSum(Counts(b)', MaxRequests, outstanding'[b])
  <2>1. Counts(b) \in [1..MaxRequests -> Nat] /\ IsSum(Counts(b), MaxRequests, outstanding[b])
    BY RequestTypes DEF Inv, EscrowMatchesRequests
  <2>2. ASSUME NEW n \in 1..MaxRequests
        PROVE  Counts(b)'[n] = IF b = a /\ n > Len(requests) /\ n <= Len(requests) + k
                               THEN Counts(b)[n] + 1 ELSE Counts(b)[n]
    <3>1. CASE n \in Asked
      BY <3>1, <1>2, <1>6, <1>7 DEF Counts, Ids, Waiting
    <3>2. CASE n \in Asked' \ Asked
      BY <3>2, <1>2, <1>6, <1>8 DEF Counts, Ids
    <3>3. CASE n \notin Asked'
      BY <3>3, <1>2, <1>6 DEF Counts, Ids
    <3> QED
      BY <3>1, <3>2, <3>3
  <2>3. CASE b = a
    <3>1. outstanding[b] \in Nat /\ 1 \in Nat /\ MaxRequests \in Nat
      BY <1>10
    <3>2. \A n \in 1..MaxRequests : Counts(b)'[n] =
            IF n > Len(requests) /\ n <= Len(requests) + k THEN Counts(b)[n] + 1 ELSE Counts(b)[n]
      BY <2>2, <2>3
    <3> DEFINE g == Counts(b)'
               f == Counts(b)
               low == Len(requests)
               total == outstanding[b]
               each == 1
    <3>5. /\ f \in [1..MaxRequests -> Nat] /\ IsSum(f, MaxRequests, total)
          /\ total \in Nat /\ low \in Nat /\ low + k <= MaxRequests
          /\ Raises(g, f, MaxRequests, low, k, each)
          /\ each \in Nat /\ k = each * k
      BY <1>2, <1>4, <2>1, <3>1, <3>2 DEF Raises
    <3> HIDE DEF g, f, low, total, each
    <3>6. IsSum(g, MaxRequests, total + k)
      BY <3>1, <3>5, SumBlock
    <3>3. IsSum(g, MaxRequests, outstanding[b] + k)
      BY <3>6 DEF total
    <3>4. outstanding'[b] = outstanding[b] + k
      BY <1>10, <2>3, <3>1
    <3> QED
      BY <3>3, <3>4 DEF g
  <2>4. CASE b # a
    <3>1. IsSum(Counts(b)', MaxRequests, outstanding[b])
      BY <2>1, <2>2, <2>4, SumEqual
    <3> QED
      BY <1>10, <2>4, <3>1
  <2> QED
    BY <2>3, <2>4
<1> QED
  BY <1>5, <1>6, <1>7, <1>8, <1>9, <1>10, <1>11 DEF AdaptersAgree

LEMMA RequestChanges ==
    ASSUME Inv, NEW n \in Asked, NEW r \in WordRequests, NEW ends \in BOOLEAN,
           r.adapter = requests[n].adapter, r.delivered => r.word # NoWord,
           ends => Waiting(n),
           (~r.delivered /\ ~r.cancelled) <=> Waiting(n) /\ ~ends,
           requests' = [requests EXCEPT ![n] = r],
           outstanding' = [outstanding EXCEPT ![r.adapter] = IF ends THEN @ - 1 ELSE @]
    PROVE  /\ AdaptersAgree'
           /\ Asked' = Asked
           /\ \A m \in Asked : requests'[m].adapter = requests[m].adapter
           /\ \A m \in Asked : Waiting(m)' <=> Waiting(m) /\ ~(m = n /\ ends)
<1>1. requests \in Seq(WordRequests) /\ Asked = 1..Len(requests) /\ n \in Ids
  BY RequestTypes DEF Inv, TypeOK, AdapterTypeOK
<1>2. /\ requests' \in Seq(WordRequests) /\ Len(requests') = Len(requests)
      /\ Len(requests') <= MaxRequests /\ Asked' = Asked
  BY <1>1 DEF Asked, Inv, TypeOK, AdapterTypeOK
<1>3. \A m \in Asked : requests'[m] = IF m = n THEN r ELSE requests[m]
  BY <1>1
<1>4. \A m \in Asked : Waiting(m)' <=> Waiting(m) /\ ~(m = n /\ ends)
  BY <1>3 DEF Waiting
<1>5. \A m \in Asked : requests'[m].adapter = requests[m].adapter
  BY <1>3
<1>6. DeliveredHasCome'
  BY <1>2, <1>3 DEF Inv, DeliveredHasCome, Answered
<1>7. r.adapter \in Adapters /\ outstanding \in [Adapters -> Nat]
  BY DEF WordRequests, Inv, TypeOK, AdapterTypeOK
<1>8. ASSUME NEW b \in Adapters
      PROVE  outstanding'[b] \in Nat /\ IsSum(Counts(b)', MaxRequests, outstanding'[b])
  <2>1. /\ Counts(b) \in [1..MaxRequests -> Nat] /\ IsSum(Counts(b), MaxRequests, outstanding[b])
        /\ outstanding[b] \in Nat
    BY RequestTypes DEF Inv, EscrowMatchesRequests
  <2>2. \A m \in 1..MaxRequests \ {n} : Counts(b)'[m] = Counts(b)[m]
    BY <1>2, <1>4, <1>5 DEF Counts, Ids
  <2>3. Counts(b)' \in [1..MaxRequests -> Nat]
    BY DEF Counts, Ids
  <2>4. CASE ends /\ b = r.adapter
    <3>1. Counts(b)[n] = 1 /\ Counts(b)'[n] = 0
      BY <1>1, <1>2, <1>4, <1>5, <2>4 DEF Counts
    <3>2. outstanding[b] - Counts(b)[n] + Counts(b)'[n] \in Nat
          /\ IsSum(Counts(b)', MaxRequests, outstanding[b] - Counts(b)[n] + Counts(b)'[n])
      BY <1>1, <2>1, <2>2, <2>3, SumUpdate DEF Ids
    <3>3. outstanding'[b] = outstanding[b] - Counts(b)[n] + Counts(b)'[n]
      BY <1>7, <2>1, <2>4, <3>1
    <3> QED
      BY <3>2, <3>3
  <2>5. CASE ~(ends /\ b = r.adapter)
    <3>1. Counts(b)'[n] = Counts(b)[n]
      BY <1>1, <1>2, <1>3, <1>4, <2>5 DEF Counts
    <3>2. IsSum(Counts(b)', MaxRequests, outstanding[b])
      BY <2>1, <2>2, <3>1, SumEqual
    <3>3. outstanding'[b] = outstanding[b]
      BY <1>7, <2>5
    <3> QED
      BY <2>1, <3>2, <3>3
  <2> QED
    BY <2>4, <2>5
<1>9. outstanding' \in [Adapters -> Nat]
  BY <1>7, <1>8
<1> QED
  BY <1>2, <1>4, <1>5, <1>6, <1>8, <1>9 DEF AdaptersAgree

-----------------------------------------------------------------------------
(* What the contract holds.                                                 *)

LEMMA HeldTypes ==
    ASSUME Inv
    PROVE  /\ Held \in [1..MaxRequests -> Nat] /\ Prices \subseteq Nat
           /\ matt \in [Holders -> Nat] /\ Escrow \in Holders
           /\ \A n \in Ids : pending[n] # NoChest => pending[n] \in PendingChests
           /\ IsSum(Held, MaxRequests, matt[Escrow])
<1>1. /\ pending \in [Ids -> {NoChest} \cup PendingChests] /\ matt \in [Holders -> Nat]
      /\ IsSum(Held, MaxRequests, matt[Escrow])
  BY DEF Inv, TypeOK, ChestTypeOK, EscrowMatchesRequests
<1>2. \A n \in Ids : pending[n] # NoChest => pending[n] \in PendingChests
  BY <1>1
<1>3. Prices \subseteq Nat
  OBVIOUS
<1>4. Held \in [1..MaxRequests -> Nat]
  BY <1>2, <1>3 DEF Held, Ids, PendingChests
<1> QED
  BY <1>1, <1>2, <1>3, <1>4 DEF Holders

LEMMA EscrowTakes ==
    ASSUME Inv, NEW b \in Buyers, NEW k \in 1..MaxBatch, OpenChests(b, k)
    PROVE  /\ pending' \in [Ids -> {NoChest} \cup PendingChests]
           /\ matt' \in [Holders -> Nat]
           /\ IsSum(Held, MaxRequests, matt[Escrow])'
           /\ PinnedPending'
           /\ \A n \in Ids : pending'[n] # NoChest <=>
                 pending[n] # NoChest \/ n \in (Len(requests) + 1)..(Len(requests) + k)
<1> DEFINE chest == [buyer |-> b, price |-> price, requestedAt |-> now, version |-> activeVersion,
                     seen |-> pools[activeVersion]]
           low == Len(requests)
<1>1. low \in Nat /\ k \in Nat /\ low + k <= MaxRequests /\ MaxRequests \in Nat
  BY RequestTypes DEF OpenChests, RequestWords
<1>2. chest \in PendingChests /\ chest # NoChest /\ chest.price = price /\ price \in Nat
  <2>1. /\ price \in Prices /\ now \in 0..MaxTime /\ activeVersion \in Versions /\ activeVersion \in frozen
        /\ pools[activeVersion] \in AllPools
    BY DEF Inv, TypeOK, AdapterTypeOK, ChestTypeOK, PinnedPending
  <2>2. chest \in PendingChests
    BY <2>1 DEF PendingChests
  <2> QED
    BY <2>1, <2>2
<1>3. pending' = [n \in Ids |-> IF n \in (low + 1)..(low + k) THEN chest ELSE pending[n]]
  BY DEF OpenChests
<1>4. \A n \in Ids : n > low => pending[n] = NoChest
  BY <1>1, RequestTypes DEF Inv, EscrowMatchesRequests, Ids
<1>5. pending \in [Ids -> {NoChest} \cup PendingChests]
  BY DEF Inv, TypeOK, ChestTypeOK
<1>6. PinnedPending'
  <2>1. UNCHANGED <<pools, frozen, activeVersion>> /\ PinnedPending
    BY DEF OpenChests, Inv
  <2>2. chest.version = activeVersion /\ chest.seen = pools[activeVersion]
    OBVIOUS
  <2> HIDE DEF chest, low
  <2> QED
    BY <1>3, <2>1, <2>2 DEF PinnedPending
<1> HIDE DEF chest
<1>7. pending' \in [Ids -> {NoChest} \cup PendingChests]
  BY <1>2, <1>3, <1>5
<1>8. \A n \in Ids : pending'[n] # NoChest <=> pending[n] # NoChest \/ n \in (low + 1)..(low + k)
  BY <1>2, <1>3
<1>9. Raises(Held', Held, MaxRequests, low, k, price)
  <2> SUFFICES ASSUME NEW n \in 1..MaxRequests
               PROVE  Held'[n] = IF n > low /\ n <= low + k THEN Held[n] + price ELSE Held[n]
    BY DEF Raises
  <2>1. CASE n \in (low + 1)..(low + k)
    BY <1>1, <1>2, <1>3, <1>4, <2>1 DEF Held, Ids
  <2>2. CASE n \notin (low + 1)..(low + k)
    <3>1. pending'[n] = pending[n] /\ n \in Ids
      BY <1>3, <2>2 DEF Ids
    <3>2. Held'[n] = Held[n]
      BY <3>1 DEF Held
    <3> QED
      BY <1>1, <2>2, <3>2
  <2> QED
    BY <2>1, <2>2
<1> DEFINE held == Held
           after == Held'
           total == matt[Escrow]
<1>10. /\ held \in [1..MaxRequests -> Nat] /\ IsSum(held, MaxRequests, total) /\ total \in Nat
       /\ Raises(after, held, MaxRequests, low, k, price)
  BY <1>9, HeldTypes
<1> HIDE DEF held, after, total, low
<1>11. total + price * k \in Nat /\ IsSum(after, MaxRequests, total + price * k)
  BY <1>1, <1>2, <1>10, SumBlock
<1>12. /\ matt' = [matt EXCEPT ![b] = @ - price * k, ![Escrow] = @ + price * k]
       /\ price * k <= matt[b] /\ b # Escrow /\ b \in Holders
  BY DEF OpenChests, Pay, Holders
<1>13. matt \in [Holders -> Nat] /\ Escrow \in Holders /\ price * k \in Nat
  <2>1. price * k \in Nat
    BY <1>1, <1>2
  <2> QED
    BY <2>1, HeldTypes
<1> DEFINE cost == price * k
<1>14. matt'[Escrow] = total + cost /\ matt' \in [Holders -> Nat]
  <2>1. cost \in Nat /\ cost <= matt[b] /\ matt' = [matt EXCEPT ![b] = @ - cost, ![Escrow] = @ + cost]
    BY <1>12, <1>13
  <2> HIDE DEF cost
  <2> QED
    BY <1>12, <1>13, <2>1 DEF total
<1>15. IsSum(Held, MaxRequests, matt[Escrow])'
  BY <1>11, <1>14 DEF after
<1> QED
  BY <1>6, <1>7, <1>8, <1>14, <1>15 DEF low

LEMMA EscrowPays ==
    ASSUME Inv, NEW n \in Ids, pending[n] # NoChest, NEW to \in Buyers \cup Treasuries,
           Pay(Escrow, to, pending[n].price), pending' = [pending EXCEPT ![n] = NoChest]
    PROVE  /\ pending' \in [Ids -> {NoChest} \cup PendingChests]
           /\ matt' \in [Holders -> Nat]
           /\ IsSum(Held, MaxRequests, matt[Escrow])'
           /\ \A m \in Ids : pending'[m] # NoChest <=> pending[m] # NoChest /\ m # n
           /\ \A m \in Ids : pending'[m] # NoChest => pending'[m] = pending[m]
<1>1. /\ Held \in [1..MaxRequests -> Nat] /\ IsSum(Held, MaxRequests, matt[Escrow])
      /\ matt \in [Holders -> Nat] /\ pending[n].price \in Nat
  BY HeldTypes DEF PendingChests
<1>2. pending \in [Ids -> {NoChest} \cup PendingChests]
  BY DEF Inv, TypeOK, ChestTypeOK
<1>3. pending' \in [Ids -> {NoChest} \cup PendingChests]
  BY <1>2
<1>4. \A m \in Ids : pending'[m] = IF m = n THEN NoChest ELSE pending[m]
  BY <1>2
<1>5. Held' \in [1..MaxRequests -> Nat]
  BY <1>1, <1>4 DEF Held, Ids
<1>6. Held[n] = pending[n].price /\ Held'[n] = 0 /\ \A m \in 1..MaxRequests \ {n} : Held'[m] = Held[m]
  BY <1>4 DEF Held, Ids
<1>7. n \in 1..MaxRequests /\ MaxRequests \in Nat /\ Escrow \in Holders /\ to \in Holders /\ to # Escrow
  BY DEF Ids, Holders
<1>8. matt[Escrow] \in Nat
  BY <1>1, <1>7
<1>9. /\ matt[Escrow] - Held[n] + Held'[n] \in Nat
      /\ IsSum(Held', MaxRequests, matt[Escrow] - Held[n] + Held'[n])
  BY <1>1, <1>5, <1>6, <1>7, <1>8, SumUpdate
<1>10. matt[Escrow] - pending[n].price \in Nat /\ IsSum(Held', MaxRequests, matt[Escrow] - pending[n].price)
  <2>1. matt[Escrow] - Held[n] + Held'[n] = matt[Escrow] - pending[n].price
    BY <1>1, <1>6, <1>8
  <2> QED
    BY <1>9, <2>1
<1>11. matt' = [matt EXCEPT ![Escrow] = @ - pending[n].price, ![to] = @ + pending[n].price]
  BY DEF Pay
<1>12. matt' \in [Holders -> Nat] /\ matt'[Escrow] = matt[Escrow] - pending[n].price
  <2> DEFINE x == pending[n].price
  <2>1. /\ x \in Nat /\ matt[Escrow] - x \in Nat
        /\ matt' = [matt EXCEPT ![Escrow] = @ - x, ![to] = @ + x]
    BY <1>1, <1>10, <1>11
  <2> HIDE DEF x
  <2>2. matt[to] + x \in Nat
    BY <1>1, <1>7, <2>1
  <2>3. \A h \in Holders : matt'[h] = IF h = to THEN matt[to] + x
                                    ELSE IF h = Escrow THEN matt[Escrow] - x ELSE matt[h]
    BY <1>1, <1>7, <2>1
  <2>4. matt' \in [Holders -> Nat]
    BY <1>1, <2>1, <2>2, <2>3
  <2> QED
    BY <1>7, <2>3, <2>4 DEF x
<1> QED
  BY <1>3, <1>4, <1>10, <1>12

-----------------------------------------------------------------------------
(* The steps.                                                               *)

\* Chests and requests agree on what is open.
ChestsMatch ==
    \A n \in Ids : pending[n] # NoChest <=>
        n \in Asked /\ ConsumerOfRequest(n) = "chest" /\ Waiting(n)

\* The invariant after a step, from its parts.
LEMMA Assembled ==
    ASSUME deployed' \in Deployments, now' \in 0..MaxTime, paused' \subseteq Pausable,
           provider' \in [Consumers -> Adapters], OwnAdapters', AdaptersAgree',
           ChestTypeOK', PassiveTypeOK', PinnedPending', RollIsPinned', ChestsMatch',
           IsSum(Held, MaxRequests, matt[Escrow])'
    PROVE  Inv'
BY DEF Inv, TypeOK, AdapterTypeOK, AdaptersAgree, ChestsMatch, EscrowMatchesRequests

LEMMA AdaptersHold == ASSUME Inv PROVE AdaptersAgree /\ ChestsMatch
BY DEF Inv, TypeOK, AdapterTypeOK, AdaptersAgree, ChestsMatch, EscrowMatchesRequests

LEMMA AdaptersUnchanged ==
    ASSUME Inv, UNCHANGED adapterVars
    PROVE  AdaptersAgree' /\ (UNCHANGED pending => ChestsMatch')
<1>1. UNCHANGED <<requests, outstanding>>
  BY DEF adapterVars
<1>2. Asked' = Asked /\ \A n \in Asked : Waiting(n)' = Waiting(n) /\ Answered(n)' = Answered(n)
  BY <1>1 DEF Asked, Waiting, Answered
<1>3. \A a \in Adapters : Counts(a)' = Counts(a)
  BY <1>1 DEF Counts, Asked, Waiting
<1>4. AdaptersAgree'
  BY <1>1, <1>2, <1>3, AdaptersHold DEF AdaptersAgree, DeliveredHasCome
<1>5. UNCHANGED pending => ChestsMatch'
  BY <1>1, <1>2, AdaptersHold DEF ChestsMatch, ConsumerOfRequest
<1> QED
  BY <1>4, <1>5

LEMMA ChestsUnchanged ==
    ASSUME Inv, UNCHANGED chestVars
    PROVE  /\ ChestTypeOK' /\ PinnedPending' /\ RollIsPinned'
           /\ IsSum(Held, MaxRequests, matt[Escrow])'
<1>1. UNCHANGED <<price, treasury, pools, frozen, activeVersion, pending, items, matt>>
  BY DEF chestVars
<1>2. Held' = Held
  BY <1>1 DEF Held
<1> QED
  BY <1>1, <1>2 DEF Inv, TypeOK, ChestTypeOK, PinnedPending, RollIsPinned, EscrowMatchesRequests

LEMMA PassiveUnchanged ==
    ASSUME Inv, UNCHANGED passiveVars
    PROVE  PassiveTypeOK'
BY DEF Inv, TypeOK, PassiveTypeOK, passiveVars

LEMMA ModulesUnchanged ==
    ASSUME Inv, UNCHANGED <<paused, provider, deployed>>
    PROVE  /\ deployed' \in Deployments /\ paused' \subseteq Pausable
           /\ provider' \in [Consumers -> Adapters] /\ OwnAdapters'
BY DEF Inv, TypeOK, AdapterTypeOK, OwnAdapters

LEMMA OpenStep ==
    ASSUME Inv, NEW b \in Buyers, NEW k \in 1..MaxBatch, OpenChests(b, k), OnlyChest
    PROVE  Inv'
<1>1. provider["chest"] \in Adapters /\ ConsumerOf[provider["chest"]] = "chest" /\ k \in Nat
  BY DEF Inv, TypeOK, AdapterTypeOK, OwnAdapters
<1>2. RequestWords(provider["chest"], k)
  BY DEF OpenChests
<1>3. /\ AdaptersAgree' /\ Asked' = 1..(Len(requests) + k)
      /\ \A n \in Asked : requests'[n] = requests[n]
      /\ \A n \in Asked' \ Asked : requests'[n].adapter = provider["chest"] /\ Waiting(n)'
  BY <1>1, <1>2, RequestsGrow
<1>4. Len(requests) \in Nat /\ Asked = 1..Len(requests)
  BY RequestTypes
<1>5. ASSUME NEW n \in Ids
      PROVE  (pending'[n] # NoChest) <=> (n \in Asked' /\ ConsumerOfRequest(n)' = "chest" /\ Waiting(n)')
  <2>1. (pending'[n] # NoChest) <=> (pending[n] # NoChest \/ n \in (Len(requests) + 1)..(Len(requests) + k))
    BY EscrowTakes
  <2>2. (pending[n] # NoChest) <=> (n \in Asked /\ ConsumerOfRequest(n) = "chest" /\ Waiting(n))
    BY AdaptersHold DEF ChestsMatch
  <2>3. CASE n \in Asked
    BY <1>1, <1>3, <1>4, <2>1, <2>2, <2>3 DEF ConsumerOfRequest, Waiting
  <2>4. CASE n \in Asked' \ Asked
    BY <1>1, <1>3, <1>4, <2>1, <2>4 DEF ConsumerOfRequest
  <2>5. CASE n \notin Asked'
    BY <1>1, <1>3, <1>4, <2>1, <2>2, <2>5
  <2> QED
    BY <2>3, <2>4, <2>5
<1>6. ChestsMatch'
  BY <1>5 DEF ChestsMatch, Ids
<1>7. UNCHANGED <<price, treasury, pools, frozen, activeVersion, items, now, paused, provider, passiveVars, deployed>>
  BY DEF OpenChests, OnlyChest
<1>8. ChestTypeOK' /\ PinnedPending' /\ IsSum(Held, MaxRequests, matt[Escrow])'
  BY <1>7, EscrowTakes DEF Inv, TypeOK, ChestTypeOK
<1>9. RollIsPinned'
  BY <1>7 DEF Inv, RollIsPinned
<1>10. now' \in 0..MaxTime /\ PassiveTypeOK'
  BY <1>7, PassiveUnchanged DEF Inv, TypeOK, AdapterTypeOK
<1> QED
  BY <1>3, <1>6, <1>7, <1>8, <1>9, <1>10, ModulesUnchanged, Assembled

LEMMA RefundStep ==
    ASSUME Inv, NEW n \in Asked, Refund(n)
    PROVE  Inv'
<1>1. /\ n \in Ids /\ pending[n] # NoChest /\ Waiting(n) /\ requests[n] \in WordRequests
      /\ ConsumerOfRequest(n) = "chest" /\ pending[n].buyer \in Buyers
  BY RequestTypes, AdaptersHold, HeldTypes DEF Refund, RefundExpiredRequest, ChestsMatch, PendingChests
<1> DEFINE r == [requests[n] EXCEPT !.cancelled = TRUE]
<1>2. r \in WordRequests /\ r.adapter = requests[n].adapter /\ r.delivered = requests[n].delivered
      /\ r.word = requests[n].word /\ r.cancelled = TRUE
  BY <1>1 DEF WordRequests
<1>3. requests' = [requests EXCEPT ![n] = r]
      /\ outstanding' = [outstanding EXCEPT ![r.adapter] = IF TRUE THEN @ - 1 ELSE @]
  BY <1>2 DEF Refund, RefundExpiredRequest, Withdrawn, CancelRequest
<1>4. r.delivered => r.word # NoWord
  BY <1>2 DEF Inv, DeliveredHasCome, Answered
<1> HIDE DEF r
<1>5. /\ AdaptersAgree' /\ Asked' = Asked
      /\ \A m \in Asked : requests'[m].adapter = requests[m].adapter
      /\ \A m \in Asked : Waiting(m)' <=> Waiting(m) /\ m # n
  <2>1. (~r.delivered /\ ~r.cancelled) <=> Waiting(n) /\ ~TRUE
    BY <1>2
  <2> QED
    BY <1>1, <1>2, <1>3, <1>4, <2>1, RequestChanges
<1>6. /\ pending' \in [Ids -> {NoChest} \cup PendingChests]
      /\ matt' \in [Holders -> Nat]
      /\ IsSum(Held, MaxRequests, matt[Escrow])'
      /\ \A m \in Ids : pending'[m] # NoChest <=> pending[m] # NoChest /\ m # n
      /\ \A m \in Ids : pending'[m] # NoChest => pending'[m] = pending[m]
  BY <1>1, EscrowPays DEF Refund, RefundExpiredRequest
<1>7. ChestsMatch'
  BY <1>5, <1>6, AdaptersHold DEF ChestsMatch, ConsumerOfRequest, Ids
<1>8. UNCHANGED <<price, treasury, pools, frozen, activeVersion, items, now, paused, provider, passiveVars, deployed>>
  BY DEF Refund, RefundExpiredRequest, OnlyChest
<1>9. ChestTypeOK' /\ PinnedPending' /\ RollIsPinned'
  BY <1>6, <1>8 DEF Inv, TypeOK, ChestTypeOK, PinnedPending, RollIsPinned
<1>10. now' \in 0..MaxTime /\ PassiveTypeOK'
  BY <1>8, PassiveUnchanged DEF Inv, TypeOK, AdapterTypeOK
<1> QED
  BY <1>5, <1>6, <1>7, <1>8, <1>9, <1>10, ModulesUnchanged, Assembled

LEMMA ConfigurationStep ==
    ASSUME Inv, UNCHANGED adapterVars, OnlyChest,
           \/ \E x \in Prices : SetChestPrice(x)
           \/ \E v \in Versions, pool \in Pools : ConfigureDefinitionPool(v, pool)
           \/ \E v \in Versions : ActivateDefinitionVersion(v)
           \/ \E t \in Treasuries : SetTreasury(t)
    PROVE  Inv'
<1>1. UNCHANGED <<pending, items, matt, now, paused, provider, passiveVars, deployed>>
  BY DEF OnlyChest, SetChestPrice, ConfigureDefinitionPool, ActivateDefinitionVersion, SetTreasury
<1>2. ChestTypeOK /\ PinnedPending /\ RollIsPinned /\ IsSum(Held, MaxRequests, matt[Escrow])
  BY DEF Inv, TypeOK, EscrowMatchesRequests
<1>3. ChestTypeOK' /\ PinnedPending'
  <2>1. CASE \E x \in Prices : SetChestPrice(x)
    BY <1>2, <2>1 DEF SetChestPrice, ChestTypeOK, PinnedPending
  <2>2. ASSUME NEW v \in Versions, NEW pool \in Pools, ConfigureDefinitionPool(v, pool)
        PROVE  ChestTypeOK' /\ PinnedPending'
    <3>1. /\ v \notin frozen /\ pools' = [pools EXCEPT ![v] = pool] /\ pool \in AllPools
          /\ UNCHANGED <<price, treasury, frozen, activeVersion, pending, items, matt>>
      BY <2>2 DEF ConfigureDefinitionPool, AllPools
    <3>2. pools \in [Versions -> AllPools \cup {NoPool}] /\ frozen \subseteq Versions
      BY <1>2 DEF ChestTypeOK
    <3>3. \A u \in frozen : pools'[u] = pools[u]
      BY <3>1, <3>2
    <3>4. ChestTypeOK'
      BY <1>2, <3>1, <3>2 DEF ChestTypeOK
    <3> QED
      BY <1>2, <3>1, <3>3, <3>4 DEF PinnedPending
  <2>3. CASE \E v \in Versions : ActivateDefinitionVersion(v)
    BY <1>2, <2>3 DEF ActivateDefinitionVersion, ChestTypeOK, PinnedPending
  <2>4. CASE \E t \in Treasuries : SetTreasury(t)
    BY <1>2, <2>4 DEF SetTreasury, ChestTypeOK, PinnedPending
  <2> QED
    BY <2>1, <2>2, <2>3, <2>4
<1>4. RollIsPinned' /\ IsSum(Held, MaxRequests, matt[Escrow])'
  <2>1. Held' = Held
    BY <1>1 DEF Held
  <2> QED
    BY <1>1, <1>2, <2>1 DEF RollIsPinned
<1>5. AdaptersAgree' /\ ChestsMatch'
  BY <1>1, AdaptersUnchanged
<1>6. now' \in 0..MaxTime /\ PassiveTypeOK'
  BY <1>1, PassiveUnchanged DEF Inv, TypeOK, AdapterTypeOK
<1> QED
  BY <1>1, <1>3, <1>4, <1>5, <1>6, ModulesUnchanged, Assembled

\* A word is delivered: by the coordinator or by a retry.
LEMMA DeliveryStep ==
    ASSUME Inv, NEW n \in Asked, NEW w \in Words, Takes(n), Waiting(n), Consume(n, w),
           NEW r \in WordRequests,
           r.adapter = requests[n].adapter, r.word = w, r.delivered,
           requests' = [requests EXCEPT ![n] = r],
           outstanding' = [outstanding EXCEPT ![r.adapter] = @ - 1]
    PROVE  Inv'
<1>1. /\ AdaptersAgree' /\ Asked' = Asked
      /\ \A m \in Asked : requests'[m].adapter = requests[m].adapter
      /\ \A m \in Asked : Waiting(m)' <=> Waiting(m) /\ m # n
  <2>1. /\ r.adapter = requests[n].adapter /\ r.delivered /\ r.word # NoWord
        /\ (~r.delivered /\ ~r.cancelled) <=> Waiting(n) /\ ~TRUE
        /\ outstanding' = [outstanding EXCEPT ![r.adapter] = IF TRUE THEN @ - 1 ELSE @]
    OBVIOUS
  <2> QED
    BY <2>1, RequestChanges
<1>2. n \in Ids
  BY RequestTypes
<1>3. CASE ConsumerOfRequest(n) = "chest"
  <2>1. OpenItem(n, w) /\ OnlyChest /\ pending[n] # NoChest
    BY <1>3 DEF Consume, Takes, ChestTakes
  <2>2. pending[n] \in PendingChests /\ treasury \in Treasuries
    BY <1>2, <2>1, HeldTypes DEF Inv, TypeOK, ChestTypeOK
  <2>3. /\ pending' \in [Ids -> {NoChest} \cup PendingChests]
        /\ matt' \in [Holders -> Nat]
        /\ IsSum(Held, MaxRequests, matt[Escrow])'
        /\ \A m \in Ids : pending'[m] # NoChest <=> pending[m] # NoChest /\ m # n
        /\ \A m \in Ids : pending'[m] # NoChest => pending'[m] = pending[m]
    BY <1>2, <2>1, <2>2, EscrowPays DEF OpenItem
  <2>4. ChestsMatch'
    BY <1>1, <2>3, AdaptersHold DEF ChestsMatch, ConsumerOfRequest, Ids
  <2>5. UNCHANGED <<price, treasury, pools, frozen, activeVersion, now, paused, provider, passiveVars, deployed>>
    BY <2>1 DEF OpenItem, OnlyChest
  <2> DEFINE item == [owner |-> pending[n].buyer, pool |-> pools[pending[n].version],
                      seen |-> pending[n].seen, word |-> w]
  <2>6. items' = [items EXCEPT ![n] = item]
    BY <2>1 DEF OpenItem
  <2>7. /\ pending[n].version \in frozen /\ pools[pending[n].version] = pending[n].seen
        /\ pending[n].seen \in AllPools /\ pending[n].buyer \in Buyers
    BY <1>2, <2>1, <2>2 DEF Inv, PinnedPending, PendingChests
  <2>8. /\ item \in [owner : Buyers, pool : AllPools, seen : AllPools, word : Words]
        /\ item.pool = item.seen
    BY <2>7
  <2> HIDE DEF item
  <2>9. items \in [Ids -> {NoItem} \cup [owner : Buyers, pool : AllPools, seen : AllPools, word : Words]]
    BY DEF Inv, TypeOK, ChestTypeOK
  <2>10. /\ items' \in [Ids -> {NoItem} \cup [owner : Buyers, pool : AllPools, seen : AllPools, word : Words]]
         /\ RollIsPinned'
    BY <1>2, <2>6, <2>8, <2>9 DEF Inv, RollIsPinned
  <2>11. ChestTypeOK' /\ PinnedPending'
    BY <2>3, <2>5, <2>10 DEF Inv, TypeOK, ChestTypeOK, PinnedPending
  <2>12. now' \in 0..MaxTime /\ PassiveTypeOK'
    BY <2>5, PassiveUnchanged DEF Inv, TypeOK, AdapterTypeOK
  <2> QED
    BY <1>1, <2>3, <2>4, <2>5, <2>10, <2>11, <2>12, ModulesUnchanged, Assembled
<1>4. CASE ConsumerOfRequest(n) # "chest"
  <2>1. AssignPassiveRate(n, w) /\ OnlyPassive /\ PassiveTakes(n)
    BY <1>4 DEF Consume, Takes
  <2>2. UNCHANGED <<now, paused, provider, chestVars, deployed>> /\ UNCHANGED pending
    BY <2>1 DEF OnlyPassive, chestVars
  <2>3. ChestsMatch'
    BY <1>1, <1>4, <2>2, AdaptersHold DEF ChestsMatch, ConsumerOfRequest, Ids
  <2>4. PassiveTypeOK /\ now \in 0..MaxTime
    BY DEF Inv, TypeOK, AdapterTypeOK
  <2>5. requestMiner[n] \in Miners /\ RateOf[w] \in Nat
    BY <1>2, <2>1, <2>4 DEF PassiveTakes, PassiveTypeOK
  <2>6. PassiveTypeOK'
    BY <2>1, <2>4, <2>5 DEF PassiveTypeOK, AssignPassiveRate
  <2> QED
    BY <1>1, <2>2, <2>3, <2>4, <2>6, ChestsUnchanged, ModulesUnchanged, Assembled
<1> QED
  BY <1>3, <1>4

LEMMA AnswerStep ==
    ASSUME Inv, NEW n \in Asked, NEW w \in Words, Answer(n, w)
    PROVE  Inv'
<1>1. /\ ~Answered(n) /\ ~requests[n].delivered /\ requests[n] \in WordRequests
  BY RequestTypes DEF Answer, Receive, Inv, DeliveredHasCome
<1>2. CASE ~requests[n].cancelled /\ Takes(n) /\ Receive(n, w, TRUE) /\ Consume(n, w)
  <2> DEFINE r == [requests[n] EXCEPT !.word = w, !.delivered = TRUE]
  <2>1. /\ r \in WordRequests /\ Waiting(n)
        /\ r.adapter = requests[n].adapter /\ r.word = w /\ r.delivered
    BY <1>1, <1>2 DEF WordRequests, Waiting
  <2>2. requests' = [requests EXCEPT ![n] = r] /\ outstanding' = [outstanding EXCEPT ![r.adapter] = @ - 1]
    BY <1>2, <2>1 DEF Receive
  <2> HIDE DEF r
  <2> QED
    BY <1>2, <2>1, <2>2, DeliveryStep
<1>3. CASE /\ Receive(n, w, FALSE)
           /\ UNCHANGED <<now, paused, provider, chestVars, passiveVars, deployed>>
  <2> DEFINE r == [requests[n] EXCEPT !.word = w, !.delivered = FALSE]
  <2>1. /\ r \in WordRequests /\ r.adapter = requests[n].adapter /\ r.word = w
        /\ r.delivered = FALSE /\ r.cancelled = requests[n].cancelled
    BY <1>1 DEF WordRequests
  <2>3. requests' = [requests EXCEPT ![n] = r]
        /\ outstanding' = [outstanding EXCEPT ![r.adapter] = IF FALSE THEN @ - 1 ELSE @]
    BY <1>3, <2>1 DEF Receive
  <2>4. (~r.delivered /\ ~r.cancelled) <=> Waiting(n) /\ ~FALSE
    BY <1>1, <2>1 DEF Waiting
  <2> HIDE DEF r
  <2>5. /\ AdaptersAgree' /\ Asked' = Asked
        /\ \A m \in Asked : requests'[m].adapter = requests[m].adapter
        /\ \A m \in Asked : Waiting(m)' <=> Waiting(m)
    BY <2>1, <2>3, <2>4, RequestChanges
  <2>6. UNCHANGED pending /\ UNCHANGED <<now, paused, provider, deployed>>
    BY <1>3 DEF chestVars
  <2>7. ChestsMatch'
    BY <2>5, <2>6, AdaptersHold DEF ChestsMatch, ConsumerOfRequest, Ids
  <2>8. now' \in 0..MaxTime /\ PassiveTypeOK'
    BY <1>3, <2>6, PassiveUnchanged DEF Inv, TypeOK, AdapterTypeOK
  <2> QED
    BY <1>3, <2>5, <2>6, <2>7, <2>8, ChestsUnchanged, ModulesUnchanged, Assembled
<1> QED
  BY <1>2, <1>3 DEF Answer

LEMMA RetryStep ==
    ASSUME Inv, NEW n \in Asked, RetryFulfillment(n)
    PROVE  Inv'
<1> DEFINE w == requests[n].word
           r == [requests[n] EXCEPT !.delivered = TRUE]
<1>1. requests[n] \in WordRequests /\ Waiting(n) /\ Answered(n) /\ Takes(n) /\ Consume(n, w)
  BY RequestTypes DEF RetryFulfillment, Redeliver
<1>2. w \in Words
  BY <1>1 DEF WordRequests, Answered
<1>3. r \in WordRequests /\ r.adapter = requests[n].adapter /\ r.word = w /\ r.delivered
  BY <1>1, <1>2 DEF WordRequests
<1>4. requests' = [requests EXCEPT ![n] = r] /\ outstanding' = [outstanding EXCEPT ![r.adapter] = @ - 1]
  BY <1>3 DEF RetryFulfillment, Redeliver
<1> HIDE DEF r
<1> QED
  BY <1>1, <1>2, <1>3, <1>4, DeliveryStep

\* A request of the passive rewards, or none, opens no chest.
LEMMA RateStep ==
    ASSUME Inv, UNCHANGED <<chestVars, paused, provider, deployed>>,
           now' \in 0..MaxTime, PassiveTypeOK',
           RequestWords(provider["passive"], 1) \/ UNCHANGED adapterVars
    PROVE  Inv'
<1>1. UNCHANGED pending
  BY DEF chestVars
<1>2. AdaptersAgree' /\ ChestsMatch'
  <2>1. CASE UNCHANGED adapterVars
    BY <1>1, <2>1, AdaptersUnchanged
  <2>2. CASE RequestWords(provider["passive"], 1)
    <3>1. provider["passive"] \in Adapters /\ ConsumerOf[provider["passive"]] = "passive" /\ 1 \in Nat
      BY DEF Inv, TypeOK, AdapterTypeOK, OwnAdapters
    <3>2. /\ AdaptersAgree' /\ Asked' = 1..(Len(requests) + 1)
          /\ \A n \in Asked : requests'[n] = requests[n]
          /\ \A n \in Asked' \ Asked : requests'[n].adapter = provider["passive"]
      BY <2>2, <3>1, RequestsGrow
    <3>3. Len(requests) \in Nat /\ Asked = 1..Len(requests)
      BY RequestTypes
    <3>4. ASSUME NEW n \in Ids
          PROVE  (pending'[n] # NoChest) <=> (n \in Asked' /\ ConsumerOfRequest(n)' = "chest" /\ Waiting(n)')
      <4>1. (pending'[n] # NoChest) <=> (n \in Asked /\ ConsumerOfRequest(n) = "chest" /\ Waiting(n))
        BY <1>1, AdaptersHold DEF ChestsMatch
      <4>2. CASE n \in Asked
        BY <3>2, <3>3, <4>1, <4>2 DEF ConsumerOfRequest, Waiting
      <4>3. CASE n \in Asked' \ Asked
        BY <3>1, <3>2, <4>1, <4>3 DEF ConsumerOfRequest
      <4>4. CASE n \notin Asked'
        BY <3>2, <3>3, <4>1, <4>4
      <4> QED
        BY <4>2, <4>3, <4>4
    <3> QED
      BY <3>2, <3>4 DEF ChestsMatch, Ids
  <2> QED
    BY <2>1, <2>2
<1> QED
  BY <1>2, ChestsUnchanged, ModulesUnchanged, Assembled

LEMMA RateRequestTypes ==
    ASSUME Inv, NEW m \in Miners, TryRequestRate(m)
    PROVE  /\ rateRequests' \in [Miners -> {"none", "queued", "requested"}]
           /\ requestMiner' \in [Ids -> Miners \cup {NoMiner}]
           /\ RequestWords(provider["passive"], 1) \/ UNCHANGED adapterVars
<1>1. /\ rateRequests \in [Miners -> {"none", "queued", "requested"}]
      /\ requestMiner \in [Ids -> Miners \cup {NoMiner}]
  BY DEF Inv, TypeOK, PassiveTypeOK
<1>2. CASE /\ RequestWords(provider["passive"], 1)
           /\ rateRequests' = [rateRequests EXCEPT ![m] = "requested"]
           /\ requestMiner' = [requestMiner EXCEPT ![Len(requests) + 1] = m]
  <2>1. rateRequests' \in [Miners -> {"none", "queued", "requested"}]
    BY <1>1, <1>2
  <2>2. requestMiner' \in [Ids -> Miners \cup {NoMiner}]
    BY <1>1, <1>2
  <2> QED
    BY <1>2, <2>1, <2>2
<1>3. CASE /\ rateRequests' = [rateRequests EXCEPT ![m] = Deferred]
           /\ UNCHANGED <<requestMiner, adapterVars>>
  BY <1>1, <1>3 DEF Deferred
<1> QED
  BY <1>2, <1>3 DEF TryRequestRate

LEMMA PassiveSteps ==
    ASSUME Inv, PassiveStep
    PROVE  Inv'
<1>1. PassiveTypeOK /\ now \in 0..MaxTime
  BY DEF Inv, TypeOK, AdapterTypeOK
<1>2. ASSUME NEW m \in Miners, NEW w \in Wallets, TransferMiner(m, w), UNCHANGED adapterVars, OnlyPassive
      PROVE  Inv'
  BY <1>1, <1>2, RateStep DEF TransferMiner, OnlyPassive, PassiveTypeOK
<1>3. ASSUME NEW d \in Days, NEW S \in SUBSET Miners, NEW by \in Callers, PayOut(d, S, by)
      PROVE  Inv'
  BY <1>1, <1>3, RateStep DEF PayOut, ProcessPayouts, OnlyPassive, PassiveTypeOK
<1>4. ASSUME NEW m \in Miners, NEW top \in BOOLEAN, SettlePlay(m, top), OnlyPassive
      PROVE  Inv'
  <2>1. /\ played' \in [Miners -> SUBSET (1..MaxTime)]
        /\ UNCHANGED <<rate, assignedAt, now>> /\ topLevel' \subseteq Miners
    BY <1>1, <1>4 DEF SettlePlay, OnlyPassive, PassiveTypeOK
  <2>2. /\ rateRequests' \in [Miners -> {"none", "queued", "requested"}]
        /\ requestMiner' \in [Ids -> Miners \cup {NoMiner}]
        /\ RequestWords(provider["passive"], 1) \/ UNCHANGED adapterVars
    <3>1. CASE QueueLevel100(m)
      <4>1. TryRequestRate(m) \/ UNCHANGED <<rateRequests, requestMiner, adapterVars>>
        BY <3>1 DEF QueueLevel100
      <4> QED
        BY <1>1, <4>1, RateRequestTypes DEF PassiveTypeOK
    <3>2. CASE UNCHANGED <<topLevel, rateRequests, requestMiner, adapterVars>>
      BY <1>1, <3>2 DEF PassiveTypeOK
    <3> QED
      BY <1>4, <3>1, <3>2 DEF SettlePlay
  <2> QED
    BY <1>1, <1>4, <2>1, <2>2, RateStep DEF OnlyPassive, PassiveTypeOK
<1>5. ASSUME NEW m \in Miners, Retry(m)
      PROVE  Inv'
  <2>1. TryRequestRate(m) /\ UNCHANGED <<topLevel, rate, assignedAt, played>> /\ OnlyPassive
    BY <1>5 DEF Retry, RequestQueuedRate
  <2> QED
    BY <1>1, <2>1, RateRequestTypes, RateStep DEF OnlyPassive, PassiveTypeOK
<1> QED
  BY <1>2, <1>3, <1>4, <1>5 DEF PassiveStep

LEMMA GovernanceStep ==
    ASSUME Inv, Governance \/ Tick
    PROVE  Inv'
<1>1. UNCHANGED <<adapterVars, chestVars, passiveVars, deployed>> /\ UNCHANGED pending
  BY DEF Governance, Tick, Pausing, SetPaused, SetRandomnessProvider, chestVars
<1>2. now \in 0..MaxTime /\ paused \subseteq Pausable /\ provider \in [Consumers -> Adapters] /\ OwnAdapters
  BY DEF Inv, TypeOK, AdapterTypeOK
<1>3. now' \in 0..MaxTime
  BY <1>2 DEF Governance, Tick, Pausing
<1>4. paused' \subseteq Pausable
  BY <1>2 DEF Governance, Tick, Pausing, SetPaused, SetRandomnessProvider
<1>5. provider' \in [Consumers -> Adapters] /\ OwnAdapters'
  <2>1. CASE UNCHANGED provider
    BY <1>2, <2>1 DEF OwnAdapters
  <2>2. ASSUME NEW c \in Consumers, NEW a \in Adapters, SetRandomnessProvider(c, a)
        PROVE  provider' \in [Consumers -> Adapters] /\ OwnAdapters'
    BY <1>2, <2>2 DEF SetRandomnessProvider, OwnAdapters
  <2>3. deployed \subseteq Consumers
    BY DEF Inv, TypeOK
  <2> QED
    BY <2>1, <2>2, <2>3 DEF Governance, Tick, Pausing, SetPaused
<1>6. deployed' \in Deployments /\ PassiveTypeOK'
  BY <1>1, PassiveUnchanged DEF Inv, TypeOK
<1> QED
  BY <1>1, <1>3, <1>4, <1>5, <1>6, AdaptersUnchanged, ChestsUnchanged, Assembled

LEMMA ChestSteps ==
    ASSUME Inv, ChestStep
    PROVE  Inv'
BY ConfigurationStep, OpenStep, RefundStep DEF ChestStep

LEMMA InvInit == Init => Inv
<1> SUFFICES ASSUME Init PROVE Inv
  OBVIOUS
<1>1. AdapterTypeOK /\ OwnAdapters /\ DeliveredHasCome
  BY DEF Init, AdapterInit, AdapterTypeOK, OwnAdapters, DeliveredHasCome, Asked
<1>2. ChestTypeOK /\ PinnedPending /\ RollIsPinned
  BY DEF Init, ChestInit, ChestTypeOK, PinnedPending, RollIsPinned, AllPools, Holders
<1>3. PassiveTypeOK
  BY DEF Init, PassiveInit, PassiveTypeOK
<1>4. Asked = {} /\ \A n \in Ids : pending[n] = NoChest
  BY DEF Init, AdapterInit, ChestInit, Asked
<1>5. IsSum(Held, MaxRequests, matt[Escrow])
  <2>1. matt[Escrow] = 0 /\ \A n \in 1..MaxRequests : Held[n] = 0
    BY <1>4 DEF Init, ChestInit, Held, Ids, Holders
  <2> QED
    BY <2>1, SumZero
<1>6. \A a \in Adapters : IsSum(Counts(a), MaxRequests, outstanding[a])
  <2> TAKE a \in Adapters
  <2>1. outstanding[a] = 0 /\ \A n \in 1..MaxRequests : Counts(a)[n] = 0
    BY <1>4 DEF Init, AdapterInit, Counts, Ids
  <2> QED
    BY <2>1, SumZero
<1>7. EscrowMatchesRequests
  BY <1>4, <1>5, <1>6 DEF EscrowMatchesRequests
<1> QED
  BY <1>1, <1>2, <1>3, <1>7 DEF Inv, TypeOK, Init

LEMMA InvNext == Inv /\ [Next]_vars => Inv'
<1> SUFFICES ASSUME Inv, [Next]_vars PROVE Inv'
  OBVIOUS
<1>1. CASE ChestStep
  BY <1>1, ChestSteps
<1>2. CASE PassiveStep
  BY <1>2, PassiveSteps
<1>3. CASE VrfStep
  BY <1>3, AnswerStep, RetryStep DEF VrfStep
<1>4. CASE Governance \/ Tick
  BY <1>4, GovernanceStep
<1>5. CASE UNCHANGED vars
  BY <1>5, RateStep, PassiveUnchanged DEF vars, adapterVars, Inv, TypeOK, AdapterTypeOK
<1> QED
  BY <1>1, <1>2, <1>3, <1>4, <1>5 DEF Next

LEMMA Invariant == Spec => []Inv
BY InvInit, InvNext, PTL DEF Spec

-----------------------------------------------------------------------------
(* Every variable of the chests, the passive rewards and the adapters keeps  *)
(* its type: in particular no balance and no counter of requests goes below  *)
(* zero (matt, outstandingRequests).                                         *)
THEOREM VrfTypeCorrect == Spec => []TypeOK
<1>1. Inv => TypeOK
  BY DEF Inv
<1> QED
  BY Invariant, <1>1, PTL

(* However many requests, adapters and prices there are, the chests and the  *)
(* adapters agree on what is open, and the contract holds exactly the MATT   *)
(* of the open chests (openChests, fulfillRandomness, refundExpiredRequest). *)
THEOREM EscrowAgrees == Spec => []EscrowMatchesRequests
<1>1. Inv => EscrowMatchesRequests
  BY DEF Inv
<1> QED
  BY Invariant, <1>1, PTL

(* An item is rolled from the definitions its buyer could see when paying,   *)
(* because the version of an open chest is frozen (configureDefinitionPool). *)
THEOREM RollsArePinned == Spec => []RollIsPinned
<1>1. Inv => RollIsPinned
  BY DEF Inv
<1> QED
  BY Invariant, <1>1, PTL

-----------------------------------------------------------------------------
(* What a Miner earns.                                                      *)

\* What eligibleSeconds counts in a list of intervals.
SecondsIn(is, from, to) ==
    SumFunctionOnSet([i \in 1..Len(is) |-> Earlier(is[i].end, to) - Later(is[i].start, from)],
                     {i \in 1..Len(is) : is[i].end > from /\ is[i].start < to})

\* The seconds of the period that the intervals cover.
LEMMA SecondsCounted ==
    ASSUME NEW is \in Seq(Intervals), Apart(is), NEW from \in Nat, NEW to \in Nat, from < to
    PROVE  SecondsIn(is, from, to) = Cardinality(Covered(is) \cap Seconds(from, to))
<1> DEFINE within == {i \in 1..Len(is) : is[i].end > from /\ is[i].start < to}
           f == [i \in 1..Len(is) |-> Earlier(is[i].end, to) - Later(is[i].start, from)]
           A == [i \in within |-> Seconds(is[i].start, is[i].end) \cap Seconds(from, to)]
<1>1. Len(is) \in Nat /\ DOMAIN is = 1..Len(is)
  OBVIOUS
<1>2. \A i \in 1..Len(is) : is[i].start \in Nat /\ is[i].end \in Nat /\ is[i].start < is[i].end
  <2>1. \A i \in 1..Len(is) : is[i] \in Intervals
    BY <1>1
  <2> QED
    BY <2>1 DEF Intervals, Apart
<1>3. SecondsIn(is, from, to) = SumFunctionOnSet(f, within)
  BY DEF SecondsIn
<1>4. IsFiniteSet(within)
  <2>1. IsFiniteSet(1..Len(is))
    BY <1>1, FS_Interval
  <2> QED
    BY <2>1, FS_Subset
<1>5. ASSUME NEW i \in within
      PROVE  IsFiniteSet(A[i]) /\ f[i] = Cardinality(A[i])
  <2> DEFINE s == is[i].start
             e == is[i].end
  <2>1. s \in Nat /\ e \in Nat /\ s < e /\ e > from /\ s < to
    BY <1>2
  <2>2. A[i] = Seconds(s, e) \cap Seconds(from, to) /\ f[i] = Earlier(e, to) - Later(s, from)
    OBVIOUS
  <2> HIDE DEF s, e, f, A
  <2> DEFINE a == Later(s, from)
             b == Earlier(e, to) - 1
  <2>3. a \in Int /\ b \in Int /\ a <= b /\ b - a + 1 = Earlier(e, to) - Later(s, from)
    BY <2>1 DEF Later, Earlier
  <2>4. Seconds(s, e) \cap Seconds(from, to) = a..b
    BY <2>1 DEF Later, Earlier, Seconds
  <2> HIDE DEF a, b
  <2>5. IsFiniteSet(a..b) /\ Cardinality(a..b) = IF a > b THEN 0 ELSE b - a + 1
    BY <2>3, FS_Interval, Zenon
  <2>6. Cardinality(a..b) = Earlier(e, to) - Later(s, from)
    BY <2>3, <2>5
  <2> QED
    BY <2>2, <2>4, <2>5, <2>6, Zenon
<1>6. ASSUME NEW i \in within, NEW j \in within, i # j PROVE A[i] \cap A[j] = {}
  <2>1. i \in 1..Len(is) /\ j \in 1..Len(is) /\ (i < j \/ j < i)
    BY <1>1, <1>6
  <2>2. is[i].end < is[j].start \/ is[j].end < is[i].start
    BY <2>1 DEF Apart
  <2> SUFFICES ASSUME NEW x \in A[i], x \in A[j] PROVE FALSE
    OBVIOUS
  <2>3. x \in Seconds(is[i].start, is[i].end) /\ x \in Seconds(is[j].start, is[j].end)
    OBVIOUS
  <2> HIDE DEF within, A
  <2> QED
    BY <1>2, <2>1, <2>2, <2>3 DEF Seconds
<1>7. Together(A, within) = Covered(is) \cap Seconds(from, to)
  <2>1. ASSUME NEW x, x \in Together(A, within)
        PROVE  x \in Covered(is) \cap Seconds(from, to)
    <3>1. PICK i \in within : x \in A[i]
      <4> HIDE DEF A, within
      <4> QED
        BY <2>1 DEF Together
    <3> QED
      BY <3>1 DEF Covered
  <2>2. ASSUME NEW x, x \in Covered(is), x \in Seconds(from, to)
        PROVE  x \in Together(A, within)
    <3>1. PICK i \in 1..Len(is) : x \in Seconds(is[i].start, is[i].end)
      BY <2>2 DEF Covered
    <3>2. i \in within
      BY <1>2, <2>2, <3>1 DEF Seconds
    <3>3. x \in A[i]
      BY <2>2, <3>1, <3>2
    <3> HIDE DEF A, within
    <3> QED
      BY <3>2, <3>3 DEF Together
  <2> QED
    BY <2>1, <2>2
<1>8. /\ \A i \in within : IsFiniteSet(A[i]) /\ f[i] = Cardinality(A[i])
      /\ \A i, j \in within : i # j => A[i] \cap A[j] = {}
  BY <1>5, <1>6
<1> HIDE DEF f, within, A
<1>9. Cardinality(Together(A, within)) = SumFunctionOnSet(f, within)
  BY <1>4, <1>8, UnionOfApart
<1> QED
  BY <1>3, <1>7, <1>9

\* One more play makes the seconds of its window active.
LEMMA PlayAdded ==
    ASSUME NEW P, NEW t
    PROVE  ActivePlays(P \cup {t}) = ActivePlays(P) \cup Seconds(t, t + ActivityWindow)
<1> DEFINE window(u) == Seconds(u, u + ActivityWindow)
<1>1. \A Q, x : x \in ActivePlays(Q) <=> \E u \in Q : x \in window(u)
  BY DEF ActivePlays
<1> HIDE DEF window
<1>2. \A x : x \in ActivePlays(P \cup {t}) <=> x \in ActivePlays(P) \/ x \in window(t)
  <2> SUFFICES ASSUME NEW x
               PROVE  x \in ActivePlays(P \cup {t}) <=> x \in ActivePlays(P) \/ x \in window(t)
    OBVIOUS
  <2>1. x \in ActivePlays(P \cup {t}) <=> \E u \in P \cup {t} : x \in window(u)
    BY <1>1
  <2>2. x \in ActivePlays(P) <=> \E u \in P : x \in window(u)
    BY <1>1
  <2>3. (\E u \in P \cup {t} : x \in window(u)) <=> (\E u \in P : x \in window(u)) \/ x \in window(t)
    OBVIOUS
  <2> QED
    BY <2>1, <2>2, <2>3
<1>3. ActivePlays(P \cup {t}) = ActivePlays(P) \cup window(t)
  BY <1>2, Zenon
<1> QED
  BY <1>3 DEF window

\* A play now: the last interval goes on, or another begins.
LEMMA PlayRecorded ==
    ASSUME NEW is \in Seq(Intervals), Apart(is), Recent(is, now), now \in Nat,
           NEW P, Covered(is) = ActivePlays(P),
           NEW new, new = Recorded(is, now + ActivityWindow)
    PROVE  /\ new \in Seq(Intervals) /\ Apart(new) /\ Recent(new, now)
           /\ Covered(new) = ActivePlays(P \cup {now})
<1>1. PICK n \in Nat : n = Len(is)
  OBVIOUS
<1>2. PICK until \in Nat : until = now + ActivityWindow
  OBVIOUS
<1>3. n \in Nat /\ until \in Nat /\ now < until
  BY <1>2
<1>4. \A i \in 1..n : is[i] \in Intervals /\ is[i].start <= now /\ is[i].end <= until
  BY <1>1, <1>2 DEF Recent
<1>5. ActivePlays(P \cup {now}) = Covered(is) \cup Seconds(now, until)
  BY <1>2, PlayAdded
<1>6. CASE Continues(is)
  <2>1. is # << >> /\ n >= 1 /\ n \in 1..n /\ now <= is[n].end
    BY <1>1, <1>6 DEF Continues, Last
  <2>2. is[n] \in Intervals /\ is[n].start \in Nat /\ is[n].end \in Nat /\ is[n].end <= until
    BY <1>4, <2>1 DEF Intervals
  <2> DEFINE last == [start |-> is[n].start, end |-> until]
  <2>3. last \in Intervals /\ last.start = is[n].start /\ last.end = until
    BY <1>3, <2>2 DEF Intervals
  <2>4. new = [is EXCEPT ![n] = last]
    <3>1. Later(is[n].end, until) = until
      BY <1>3, <2>2 DEF Later
    <3>2. [is[n] EXCEPT !.end = until] = last
      BY <1>3, <2>2, Prolonged
    <3> QED
      BY <1>1, <1>2, <1>6, <3>1, <3>2 DEF Recorded
  <2> HIDE DEF last
  <2>5. /\ new \in Seq(Intervals) /\ Len(new) = n /\ new[n] = last
        /\ \A i \in 1..n : i # n => new[i] = is[i]
    <3>1. n \in 1..Len(is)
      BY <1>1, <2>1
    <3>2. /\ [is EXCEPT ![n] = last] \in Seq(Intervals) /\ Len([is EXCEPT ![n] = last]) = Len(is)
          /\ [is EXCEPT ![n] = last][n] = last
          /\ \A i \in 1..Len(is) : i # n => [is EXCEPT ![n] = last][i] = is[i]
      BY <2>3, <3>1, LastWritten
    <3> QED
      BY ONLY <1>1, <2>4, <3>2
  <2>6. new[n].start = is[n].start /\ new[n].end = until
    BY <2>3, <2>5
  <2>7. /\ Apart(new)
        /\ \A i \in 1..n : new[i].start = is[i].start /\ new[i].end <= until
        /\ Covered(new) = Covered(is) \cup Seconds(now, until)
    <3>1. GoesOn(is, new, now, until)
      BY <1>1, <1>3, <1>4, <2>1, <2>5, <2>6 DEF GoesOn
    <3> QED
      BY <1>1, <3>1, Longer
  <2>8. Recent(new, now)
    BY <1>2, <1>4, <2>5, <2>7 DEF Recent
  <2> QED
    BY <1>5, <2>5, <2>7, <2>8
<1>7. CASE ~Continues(is)
  <2> DEFINE last == [start |-> now, end |-> until]
  <2>1. last \in Intervals /\ last.start = now /\ last.end = until
    BY <1>3 DEF Intervals
  <2>2. new = Append(is, last)
    BY <1>2, <1>7 DEF Recorded
  <2> HIDE DEF last
  <2>3. /\ new \in Seq(Intervals) /\ Len(new) = n + 1 /\ new[n + 1] = last
        /\ \A i \in 1..n : new[i] = is[i]
    BY <1>1, <2>1, <2>2, Appended
  <2>4. new[n + 1].start = now /\ new[n + 1].end = until
    BY <2>1, <2>3
  <2>5. n >= 1 => is[n].end < now
    <3>1. CASE n >= 1
      <4>1. is # << >> /\ is[n] \in Intervals
        BY <1>1, <1>3, <1>4, <3>1
      <4>2. is[n].end \in Nat
        BY <4>1 DEF Intervals
      <4> QED
        BY <1>1, <1>7, <4>1, <4>2 DEF Continues, Last
    <3> QED
      BY <3>1
  <2>6. Apart(new) /\ Covered(new) = Covered(is) \cup Seconds(now, until)
    <3>1. Begins(is, new, now, until)
      BY <1>1, <1>3, <2>3, <2>4, <2>5 DEF Begins
    <3> QED
      BY <3>1, Another
  <2>7. Recent(new, now)
    <3>1. \A i \in 1..(n + 1) : new[i].start <= now /\ new[i].end <= until
      <4> TAKE i \in 1..(n + 1)
      <4>1. i \in 1..n \/ i = n + 1
        BY <1>3
      <4> QED
        BY <1>3, <1>4, <2>3, <2>4, <4>1
    <3> QED
      BY <1>2, <2>3, <3>1 DEF Recent
  <2> QED
    BY <1>5, <2>3, <2>6, <2>7
<1> QED
  BY <1>6, <1>7


\* The seconds of a period are not changed by a play after it.
LEMMA PeriodKept ==
    ASSUME now \in Nat, NEW from \in Nat, NEW to \in Nat, to <= now, NEW P
    PROVE  ActivePlays(P \cup {now}) \cap Seconds(from, to) = ActivePlays(P) \cap Seconds(from, to)
<1>1. ActivePlays(P \cup {now}) = ActivePlays(P) \cup Seconds(now, now + ActivityWindow)
  BY PlayAdded
<1>2. Seconds(now, now + ActivityWindow) \cap Seconds(from, to) = {}
  BY DEF Seconds
<1> QED
  BY <1>1, <1>2

-----------------------------------------------------------------------------
(* Who owned a Miner.                                                       *)

Checkpoints == [at : Nat, owner : Wallets]

\* Checkpoints as _writeOwnershipCheckpoint keeps them.
InOrder(cs, t) ==
    /\ cs # << >> /\ cs[1].at = 0
    /\ \A i \in 1..Len(cs) : cs[i].at <= t
    /\ \A i, j \in 1..Len(cs) : i < j => cs[i].at < cs[j].at

Before(cs, t) == {i \in 1..Len(cs) : cs[i].at <= t}

OwnerIn(cs, t) == cs[Max(Before(cs, t))].owner

\* A transfer keeps the order, and who owned the Miner before now.
LEMMA OwnersWritten ==
    ASSUME NEW cs \in Seq(Checkpoints), InOrder(cs, now), now \in Nat, NEW w \in Wallets,
           NEW new, new = Written(cs, w)
    PROVE  /\ new \in Seq(Checkpoints) /\ InOrder(new, now)
           /\ \A t \in Nat : t < now => OwnerIn(new, t) = OwnerIn(cs, t)
<1>1. PICK n \in Nat : n = Len(cs) /\ n >= 1 /\ Last(cs) = cs[n]
  BY DEF InOrder, Last
<1>2. \A i \in 1..n : cs[i] \in Checkpoints
  BY <1>1
<1>3. \A i \in 1..n : cs[i].at \in Nat /\ cs[i].owner \in Wallets /\ cs[i].at <= now
  BY <1>1, <1>2 DEF Checkpoints, InOrder
<1>4. /\ new \in Seq(Checkpoints) /\ Len(new) >= n
      /\ \A i \in 1..n : new[i].at = cs[i].at /\ (cs[i].at < now => new[i] = cs[i])
      /\ \A i \in 1..Len(new) : i \notin 1..n => i = n + 1 /\ new[i].at = now /\ cs[n].at < now
  <2>1. CASE cs[n].at = now
    <3> DEFINE c == [at |-> now, owner |-> w]
    <3>1. c \in Checkpoints /\ c.at = now
      BY DEF Checkpoints
    <3>6. cs[n] \in Checkpoints
      BY <1>1, <1>2
    <3>7. [cs[n] EXCEPT !.owner = w] = c
      BY ONLY <2>1, <3>6 DEF Checkpoints, c
    <3>2. new = [cs EXCEPT ![n] = c]
      BY <1>1, <2>1, <3>7 DEF Written
    <3> HIDE DEF c
    <3>3. n \in 1..Len(cs)
      BY <1>1
    <3>4. /\ [cs EXCEPT ![n] = c] \in Seq(Checkpoints) /\ Len([cs EXCEPT ![n] = c]) = Len(cs)
          /\ [cs EXCEPT ![n] = c][n] = c
          /\ \A i \in 1..Len(cs) : i # n => [cs EXCEPT ![n] = c][i] = cs[i]
      BY <3>1, <3>3, LastWritten
    <3>5. /\ new \in Seq(Checkpoints) /\ Len(new) = n /\ new[n] = c
          /\ \A i \in 1..n : i # n => new[i] = cs[i]
      BY ONLY <1>1, <3>2, <3>4
    <3>8. new[n].at = cs[n].at /\ ~(cs[n].at < now)
      BY <1>3, <2>1, <3>1, <3>5, <1>1
    <3>9. \A i \in 1..n : new[i].at = cs[i].at /\ (cs[i].at < now => new[i] = cs[i])
      BY ONLY <3>5, <3>8
    <3> QED
      BY ONLY <3>5, <3>9, <1>1
  <2>2. CASE cs[n].at # now
    <3> DEFINE c == [at |-> now, owner |-> w]
    <3>1. c \in Checkpoints /\ c.at = now
      BY DEF Checkpoints
    <3>2. new = Append(cs, c)
      BY <1>1, <2>2 DEF Written
    <3> HIDE DEF c
    <3>3. /\ new \in Seq(Checkpoints) /\ Len(new) = n + 1 /\ new[n + 1] = c
          /\ \A i \in 1..n : new[i] = cs[i]
      BY <1>1, <3>1, <3>2, Appended
    <3>4. cs[n].at < now
      BY <1>1, <1>3, <2>2
    <3> QED
      BY <1>1, <3>1, <3>3, <3>4
  <2> QED
    BY <2>1, <2>2
<1>5. Len(new) \in Nat
  BY <1>4
<1>6. InOrder(new, now)
  <2>1. new # << >> /\ new[1].at = 0
    BY <1>1, <1>4, <1>5 DEF InOrder
  <2>2. \A i \in 1..Len(new) : new[i].at <= now
    <3> TAKE i \in 1..Len(new)
    <3> QED
      BY <1>3, <1>4
  <2>3. ASSUME NEW i \in 1..Len(new), NEW j \in 1..Len(new), i < j PROVE new[i].at < new[j].at
    <3>1. i \in 1..n
      BY <1>1, <1>4, <1>5, <2>3
    <3>2. CASE j \in 1..n
      <4>1. cs[i].at < cs[j].at
        BY <1>1, <2>3, <3>1, <3>2 DEF InOrder
      <4> QED
        BY <1>4, <3>1, <3>2, <4>1
    <3>3. CASE j \notin 1..n
      <4>1. n \in 1..n /\ (i = n \/ i < n)
        BY <1>1, <3>1
      <4>2. i < n => cs[i].at < cs[n].at
        BY <1>1, <3>1, <4>1 DEF InOrder
      <4>3. cs[i].at < now
        BY <1>3, <1>4, <3>1, <3>3, <4>1, <4>2
      <4> QED
        BY <1>4, <3>1, <3>3, <4>3
    <3> QED
      BY <3>2, <3>3
  <2> QED
    BY <2>1, <2>2, <2>3 DEF InOrder
<1>7. ASSUME NEW t \in Nat, t < now PROVE OwnerIn(new, t) = OwnerIn(cs, t)
  <2>1. Before(new, t) = Before(cs, t)
    BY <1>1, <1>3, <1>4, <1>5, <1>7 DEF Before
  <2>2. 1 \in Before(cs, t) /\ Before(cs, t) \in SUBSET (1..n)
    BY <1>1, <1>7 DEF Before, InOrder
  <2>3. \E x \in Before(cs, t) : \A y \in Before(cs, t) : x >= y
    <3>1. Before(cs, t) # {} /\ n \in Nat
      BY <2>2
    <3> QED
      BY ONLY <2>2, <3>1, GreatestOfNumbers
  <2>4. Max(Before(cs, t)) \in Before(cs, t)
    BY <2>3 DEF Max
  <2>5. ASSUME NEW i \in Before(cs, t) PROVE new[i] = cs[i]
    BY <1>1, <1>3, <1>4, <1>7, <2>5 DEF Before
  <2> QED
    BY <2>1, <2>4, <2>5 DEF OwnerIn
<1> QED
  BY <1>4, <1>6, <1>7

-----------------------------------------------------------------------------
(* The invariant of what is earned: activity and owners are kept in order,   *)
(* and a day that was paid is over for a Miner whose rate stands.            *)

ActivityKept ==
    /\ intervals \in [Miners -> Seq(Intervals)] /\ activeUntil \in [Miners -> Nat]
    /\ \A m \in Miners :
          /\ Apart(intervals[m]) /\ Recent(intervals[m], now)
          /\ Covered(intervals[m]) = ActivePlays(played[m])
          /\ activeUntil[m] <= now + ActivityWindow

OwnersKept ==
    /\ checkpoints \in [Miners -> Seq(Checkpoints)]
    /\ \A m \in Miners : InOrder(checkpoints[m], now)

\* What a day earned, in seconds.
SecondsEarned(d, m) == Cardinality(ActivePlays(played[m]) \cap Seconds(EarnsFrom(d, m), Boundary(d)))

DaysOver ==
    /\ paid = [d \in Days |-> [m \in Miners |-> paid[d][m]]]
    /\ \A d \in Days, m \in Miners : paid[d][m] # NotPaid =>
          /\ Boundary(d) <= now /\ rate[m] # 0 /\ assignedAt[m] < Boundary(d)
          /\ paid[d][m].amount = Crystals(m, SecondsEarned(d, m))

EarnInv == ActivityKept /\ OwnersKept /\ DaysOver

LEMMA Boundaries ==
    ASSUME NEW d \in Days
    PROVE  Boundary(d) \in Nat /\ Boundary(d) >= DayLength
<1>1. d \in Nat /\ d >= 1
  BY DEF Days
<1>2. DayLength \in Nat
  OBVIOUS
<1>3. d * DayLength \in Nat /\ d * DayLength >= DayLength
  <2>1. PICK k \in Nat : d = k + 1
    <3>1. d - 1 \in Nat /\ d = (d - 1) + 1
      BY <1>1
    <3> QED
      BY <3>1
  <2>2. d * DayLength = k * DayLength + DayLength
    BY <1>2, <2>1
  <2>3. k * DayLength \in Nat
    BY <1>2, <2>1
  <2> QED
    BY <1>2, <2>2, <2>3
<1> QED
  BY <1>3 DEF Boundary

\* The seconds that a day pays for.
LEMMA EarningPeriod ==
    ASSUME Inv, NEW d \in Days, NEW m \in Miners, assignedAt[m] < Boundary(d)
    PROVE  EarnsFrom(d, m) \in Nat /\ EarnsFrom(d, m) < Boundary(d)
<1>1. assignedAt[m] \in Nat
  BY DEF Inv, TypeOK, PassiveTypeOK
<1>2. Boundary(d) \in Nat /\ Boundary(d) >= DayLength /\ DayLength \in Nat \ {0}
  BY Boundaries
<1>3. PICK b \in Nat : b = Boundary(d)
  BY <1>2
<1>4. CASE b - DayLength > assignedAt[m]
  BY <1>1, <1>2, <1>3, <1>4 DEF EarnsFrom, Later
<1>5. CASE ~(b - DayLength > assignedAt[m])
  BY <1>1, <1>2, <1>3, <1>5 DEF EarnsFrom, Later
<1> QED
  BY <1>4, <1>5

\* The paid days are what the Miners earned.
LEMMA EarnedSeconds ==
    ASSUME Inv
    PROVE  DaysOver => PayoutIsEarned
<1> SUFFICES ASSUME DaysOver, NEW d \in Days, NEW m \in Miners, paid[d][m] # NotPaid
             PROVE  paid[d][m].amount =
                      Crystals(m, Cardinality(ActiveSeconds(m) \cap EarnsFrom(d, m)..(Boundary(d) - 1)))
  BY DEF PayoutIsEarned
<1>1. ActiveSeconds(m) = ActivePlays(played[m])
  <2>1. played[m] \in SUBSET Nat
    BY DEF Inv, TypeOK, PassiveTypeOK
  <2>2. ASSUME NEW t \in played[m], NEW x
        PROVE  x \in t..(t + ActivityWindow - 1) <=> x \in Seconds(t, t + ActivityWindow)
    BY <2>1 DEF Seconds
  <2>3. ASSUME NEW x PROVE x \in ActiveSeconds(m) <=> x \in ActivePlays(played[m])
    <3>1. x \in ActiveSeconds(m) <=> \E t \in played[m] : x \in t..(t + ActivityWindow - 1)
      BY DEF ActiveSeconds
    <3>2. x \in ActivePlays(played[m]) <=> \E t \in played[m] : x \in Seconds(t, t + ActivityWindow)
      BY DEF ActivePlays
    <3> QED
      BY <2>2, <3>1, <3>2, Zenon
  <2> QED
    BY <2>3, Zenon
<1>2. Cardinality(ActiveSeconds(m) \cap EarnsFrom(d, m)..(Boundary(d) - 1)) = SecondsEarned(d, m)
  BY <1>1 DEF SecondsEarned, Seconds
<1> QED
  BY <1>2 DEF DaysOver

\* What processPayouts counts is what was earned.
LEMMA PayoutEarned ==
    ASSUME Inv, ActivityKept, NEW d \in Days, NEW m \in Miners, assignedAt[m] < Boundary(d)
    PROVE  EligibleSeconds(m, EarnsFrom(d, m), Boundary(d)) = SecondsEarned(d, m)
<1> DEFINE from == EarnsFrom(d, m)
           to == Boundary(d)
<1>1. from \in Nat /\ to \in Nat /\ from < to
  BY EarningPeriod, Boundaries
<1> HIDE DEF from, to
<1>2. intervals[m] \in Seq(Intervals) /\ Apart(intervals[m])
  BY DEF ActivityKept
<1>3. EligibleSeconds(m, from, to) = SecondsIn(intervals[m], from, to)
  <2>1. DOMAIN intervals[m] = 1..Len(intervals[m])
    BY <1>2
  <2> QED
    BY <2>1 DEF EligibleSeconds, SecondsIn
<1>4. SecondsIn(intervals[m], from, to) = Cardinality(Covered(intervals[m]) \cap Seconds(from, to))
  BY <1>1, <1>2, SecondsCounted
<1>5. Covered(intervals[m]) = ActivePlays(played[m])
  BY DEF ActivityKept
<1> QED
  BY <1>3, <1>4, <1>5 DEF from, to, SecondsEarned

-----------------------------------------------------------------------------
(* Every step keeps it.                                                     *)

\* What a day earned does not change once the day is over.
LEMMA DaysKept ==
    ASSUME Inv, DaysOver, now' \in Nat, now' >= now, UNCHANGED paid,
           \A m \in Miners : rate[m] # 0 => rate'[m] = rate[m] /\ assignedAt'[m] = assignedAt[m],
           \A m \in Miners : played'[m] = played[m] \/ played'[m] = played[m] \cup {now}
    PROVE  DaysOver'
<1>1. now \in Nat
  BY DEF Inv, TypeOK, AdapterTypeOK
<1>2. ASSUME NEW d \in Days, NEW m \in Miners, paid'[d][m] # NotPaid
      PROVE  /\ Boundary(d) <= now' /\ rate'[m] # 0 /\ assignedAt'[m] < Boundary(d)
             /\ paid'[d][m].amount = Crystals(m, SecondsEarned(d, m))'
  <2>1. paid[d][m] # NotPaid
    BY <1>2
  <2>2. /\ Boundary(d) <= now /\ rate[m] # 0 /\ assignedAt[m] < Boundary(d)
        /\ paid[d][m].amount = Crystals(m, SecondsEarned(d, m))
    BY <2>1 DEF DaysOver
  <2>3. rate'[m] = rate[m] /\ assignedAt'[m] = assignedAt[m]
    BY <2>2
  <2>4. Boundary(d) <= now' /\ rate'[m] # 0 /\ assignedAt'[m] < Boundary(d)
    BY <1>1, <2>2, <2>3, Boundaries
  <2>5. EarnsFrom(d, m) \in Nat /\ Boundary(d) \in Nat /\ EarnsFrom(d, m)' = EarnsFrom(d, m)
    BY <2>2, <2>3, EarningPeriod, Boundaries DEF EarnsFrom
  <2>6. ActivePlays(played'[m]) \cap Seconds(EarnsFrom(d, m), Boundary(d)) =
          ActivePlays(played[m]) \cap Seconds(EarnsFrom(d, m), Boundary(d))
    BY <1>1, <2>2, <2>5, PeriodKept
  <2>7. SecondsEarned(d, m)' = SecondsEarned(d, m)
    BY <2>5, <2>6 DEF SecondsEarned
  <2>8. Crystals(m, SecondsEarned(d, m))' = Crystals(m, SecondsEarned(d, m))
    BY <2>3, <2>7 DEF Crystals
  <2> QED
    BY <2>2, <2>4, <2>8
<1>3. paid' = [d \in Days |-> [m \in Miners |-> paid'[d][m]]]
  BY DEF DaysOver
<1> QED
  BY <1>2, <1>3 DEF DaysOver

LEMMA ActivityStays ==
    ASSUME Inv, ActivityKept, now' \in Nat, now' >= now, UNCHANGED <<intervals, activeUntil, played>>
    PROVE  ActivityKept'
<1>1. now \in Nat
  BY DEF Inv, TypeOK, AdapterTypeOK
<1>2. ASSUME NEW m \in Miners
      PROVE  Recent(intervals[m], now') /\ activeUntil[m] <= now' + ActivityWindow
  <2>1. intervals[m] \in Seq(Intervals) /\ activeUntil[m] \in Nat
    BY DEF ActivityKept
  <2>2. \A i \in 1..Len(intervals[m]) : intervals[m][i] \in Intervals
    BY <2>1
  <2>3. \A i \in 1..Len(intervals[m]) : intervals[m][i].start \in Nat /\ intervals[m][i].end \in Nat
    BY <2>2 DEF Intervals
  <2>4. Recent(intervals[m], now) /\ activeUntil[m] <= now + ActivityWindow
    BY DEF ActivityKept
  <2> QED
    BY <1>1, <2>1, <2>3, <2>4 DEF Recent
<1> QED
  BY <1>2 DEF ActivityKept

LEMMA OwnersStay ==
    ASSUME Inv, OwnersKept, now' \in Nat, now' >= now, UNCHANGED checkpoints
    PROVE  OwnersKept'
<1>1. now \in Nat
  BY DEF Inv, TypeOK, AdapterTypeOK
<1>2. ASSUME NEW m \in Miners PROVE InOrder(checkpoints[m], now')
  <2>1. checkpoints[m] \in Seq(Checkpoints) /\ InOrder(checkpoints[m], now)
    BY DEF OwnersKept
  <2>2. \A i \in 1..Len(checkpoints[m]) : checkpoints[m][i] \in Checkpoints
    BY <2>1
  <2>3. \A i \in 1..Len(checkpoints[m]) : checkpoints[m][i].at \in Nat
    BY <2>2 DEF Checkpoints
  <2> QED
    BY <1>1, <2>1, <2>3 DEF InOrder
<1> QED
  BY <1>2 DEF OwnersKept

LEMMA EarnInit == Init => EarnInv
<1> SUFFICES ASSUME Init PROVE EarnInv
  OBVIOUS
<1>1. ActivityKept
  <2>1. /\ intervals = [m \in Miners |-> << >>] /\ activeUntil = [m \in Miners |-> 0]
        /\ played = [m \in Miners |-> {}] /\ now = 0
    BY DEF Init, PassiveInit, AdapterInit
  <2>2. << >> \in Seq(Intervals) /\ Len(<< >>) = 0 /\ 1..0 = {}
    OBVIOUS
  <2>3. Apart(<< >>) /\ Recent(<< >>, now) /\ Covered(<< >>) = {} /\ ActivePlays({}) = {}
    BY <2>2 DEF Apart, Recent, Covered, ActivePlays
  <2>4. intervals \in [Miners -> Seq(Intervals)] /\ activeUntil \in [Miners -> Nat]
    BY <2>1, <2>2
  <2>5. ASSUME NEW m \in Miners
        PROVE  /\ Apart(intervals[m]) /\ Recent(intervals[m], now)
               /\ Covered(intervals[m]) = ActivePlays(played[m])
               /\ activeUntil[m] <= now + ActivityWindow
    <3>1. intervals[m] = << >> /\ played[m] = {} /\ activeUntil[m] = 0
      BY <2>1
    <3>2. 0 <= now + ActivityWindow
      BY <2>1
    <3> QED
      BY <2>3, <3>1, <3>2
  <2> QED
    BY <2>4, <2>5 DEF ActivityKept
<1>2. OwnersKept
  <2> DEFINE first == [at |-> 0, owner |-> FirstOwner]
  <2>1. checkpoints = [m \in Miners |-> <<first>>] /\ now = 0
    BY DEF Init, PassiveInit, AdapterInit
  <2>2. first \in Checkpoints /\ first.at = 0
    BY DEF Checkpoints
  <2> HIDE DEF first
  <2>3. <<first>> \in Seq(Checkpoints) /\ Len(<<first>>) = 1 /\ <<first>>[1] = first
    BY <2>2
  <2>4. InOrder(<<first>>, 0)
    BY <2>2, <2>3 DEF InOrder
  <2> QED
    BY <2>1, <2>3, <2>4 DEF OwnersKept
<1>3. DaysOver
  BY DEF Init, PassiveInit, DaysOver
<1> QED
  BY <1>1, <1>2, <1>3 DEF EarnInv

\* Time passes, and what else leaves the passive rewards alone.
LEMMA OthersEarnNothing ==
    ASSUME Inv, EarnInv, now' \in Nat, now' >= now, UNCHANGED passiveVars
    PROVE  EarnInv'
<1>1. UNCHANGED <<intervals, activeUntil, played, checkpoints, paid, rate, assignedAt>>
  BY DEF passiveVars
<1>2. ActivityKept'
  BY <1>1, ActivityStays DEF EarnInv
<1>3. OwnersKept'
  BY <1>1, OwnersStay DEF EarnInv
<1>4. DaysOver'
  BY <1>1, DaysKept DEF EarnInv
<1> QED
  BY <1>2, <1>3, <1>4 DEF EarnInv

LEMMA TransferEarns ==
    ASSUME Inv, EarnInv, NEW m \in Miners, NEW w \in Wallets, TransferMiner(m, w), OnlyPassive
    PROVE  /\ EarnInv'
           /\ \A i \in Miners, t \in Nat : t < now => OwnerAt(i, t)' = OwnerAt(i, t)
<1>1. /\ now \in Nat /\ now' = now
      /\ UNCHANGED <<intervals, activeUntil, played, paid, rate, assignedAt>>
      /\ checkpoints' = [checkpoints EXCEPT ![m] = Written(checkpoints[m], w)]
  BY DEF Inv, TypeOK, AdapterTypeOK, TransferMiner, OnlyPassive
<1>2. /\ checkpoints \in [Miners -> Seq(Checkpoints)]
      /\ \A i \in Miners : InOrder(checkpoints[i], now)
  BY DEF EarnInv, OwnersKept
<1>3. ASSUME NEW i \in Miners
      PROVE  /\ checkpoints'[i] \in Seq(Checkpoints) /\ InOrder(checkpoints'[i], now)
             /\ \A t \in Nat : t < now => OwnerIn(checkpoints'[i], t) = OwnerIn(checkpoints[i], t)
  <2>1. CASE i = m
    <3>1. checkpoints'[i] = Written(checkpoints[i], w)
      BY <1>1, <1>2, <2>1
    <3>2. checkpoints[i] \in Seq(Checkpoints) /\ InOrder(checkpoints[i], now)
      BY <1>2
    <3> QED
      BY <1>1, <3>1, <3>2, OwnersWritten, SMTT(30)
  <2>2. CASE i # m
    BY <1>1, <1>2, <2>2
  <2> QED
    BY <2>1, <2>2
<1>4. checkpoints' \in [Miners -> Seq(Checkpoints)]
  BY <1>1, <1>2, <1>3
<1>5. OwnersKept'
  BY <1>1, <1>3, <1>4 DEF OwnersKept
<1>6. ActivityKept' /\ DaysOver'
  BY <1>1, ActivityStays, DaysKept DEF EarnInv
<1>7. ASSUME NEW i \in Miners, NEW t \in Nat, t < now PROVE OwnerAt(i, t)' = OwnerAt(i, t)
  <2>1. DOMAIN checkpoints[i] = 1..Len(checkpoints[i])
    BY <1>2
  <2>2. DOMAIN checkpoints'[i] = 1..Len(checkpoints'[i])
    BY <1>3
  <2>3. OwnerAt(i, t) = OwnerIn(checkpoints[i], t)
    BY <2>1 DEF OwnerAt, OwnerIn, Before
  <2>4. OwnerAt(i, t)' = OwnerIn(checkpoints'[i], t)
    BY <2>2 DEF OwnerAt, OwnerIn, Before
  <2> QED
    BY <1>3, <1>7, <2>3, <2>4
<1> QED
  BY <1>5, <1>6, <1>7 DEF EarnInv

LEMMA RateEarns ==
    ASSUME Inv, EarnInv, NEW n \in Asked, NEW w \in Words, AssignPassiveRate(n, w), PassiveTakes(n),
           OnlyPassive
    PROVE  /\ EarnInv'
           /\ \A m \in Miners : rate[m] # 0 => rate'[m] = rate[m] /\ assignedAt'[m] = assignedAt[m]
<1>1. /\ now \in Nat /\ rate \in [Miners -> Nat] /\ assignedAt \in [Miners -> 0..MaxTime]
      /\ topLevel \subseteq Miners
  BY DEF Inv, TypeOK, AdapterTypeOK, PassiveTypeOK
<1>2. requestMiner[n] \in Miners /\ rate[requestMiner[n]] = 0
  BY <1>1 DEF PassiveTakes
<1>3. /\ UNCHANGED <<intervals, activeUntil, played, checkpoints, paid, now>>
      /\ rate' = [rate EXCEPT ![requestMiner[n]] = RateOf[w]]
      /\ assignedAt' = [assignedAt EXCEPT ![requestMiner[n]] = now]
  BY DEF AssignPassiveRate, OnlyPassive
<1>4. \A m \in Miners : rate[m] # 0 => rate'[m] = rate[m] /\ assignedAt'[m] = assignedAt[m]
  BY <1>1, <1>2, <1>3
<1>5. ActivityKept'
  BY <1>1, <1>3, ActivityStays DEF EarnInv
<1>6. OwnersKept'
  BY <1>1, <1>3, OwnersStay DEF EarnInv
<1>7. DaysOver'
  BY <1>1, <1>3, <1>4, DaysKept DEF EarnInv
<1> QED
  BY <1>4, <1>5, <1>6, <1>7 DEF EarnInv

LEMMA PlayEarns ==
    ASSUME Inv, EarnInv, NEW m \in Miners, NEW top \in BOOLEAN, SettlePlay(m, top), OnlyPassive
    PROVE  /\ EarnInv'
           /\ \A i \in Miners : played'[i] = played[i] \/ played'[i] = played[i] \cup {now}
<1>1. /\ now \in Nat /\ now' = now /\ played \in [Miners -> SUBSET (1..MaxTime)]
      /\ UNCHANGED <<checkpoints, rate, assignedAt, paid>>
  BY DEF Inv, TypeOK, AdapterTypeOK, PassiveTypeOK, SettlePlay, OnlyPassive
<1>2. /\ intervals \in [Miners -> Seq(Intervals)] /\ activeUntil \in [Miners -> Nat]
      /\ \A i \in Miners :
            /\ Apart(intervals[i]) /\ Recent(intervals[i], now)
            /\ Covered(intervals[i]) = ActivePlays(played[i])
            /\ activeUntil[i] <= now + ActivityWindow
  BY DEF EarnInv, ActivityKept
<1>3. Later(now + ActivityWindow, activeUntil[m]) = now + ActivityWindow
  <2>1. activeUntil[m] \in Nat /\ activeUntil[m] <= now + ActivityWindow
    BY <1>2
  <2> QED
    BY <1>1, <2>1 DEF Later
<1>4. /\ activeUntil' = [activeUntil EXCEPT ![m] = now + ActivityWindow]
      /\ intervals' = [intervals EXCEPT ![m] = Recorded(intervals[m], now + ActivityWindow)]
      /\ played' = [played EXCEPT ![m] = played[m] \cup {now}]
  BY <1>3 DEF SettlePlay
<1>5. \A i \in Miners : played'[i] = played[i] \/ played'[i] = played[i] \cup {now}
  BY <1>1, <1>4
<1>6. ASSUME NEW i \in Miners
      PROVE  /\ intervals'[i] \in Seq(Intervals) /\ Apart(intervals'[i]) /\ Recent(intervals'[i], now)
             /\ Covered(intervals'[i]) = ActivePlays(played'[i])
             /\ activeUntil'[i] \in Nat /\ activeUntil'[i] <= now + ActivityWindow
  <2>1. CASE i = m
    <3>1. intervals'[i] = Recorded(intervals[i], now + ActivityWindow) /\ played'[i] = played[i] \cup {now}
      BY <1>1, <1>2, <1>4, <2>1
    <3>2. activeUntil'[i] \in Nat /\ activeUntil'[i] <= now + ActivityWindow
      BY <1>1, <1>2, <1>4, <2>1
    <3>3. /\ intervals[i] \in Seq(Intervals) /\ Apart(intervals[i]) /\ Recent(intervals[i], now)
          /\ Covered(intervals[i]) = ActivePlays(played[i])
      BY <1>2
    <3>4. /\ intervals'[i] \in Seq(Intervals) /\ Apart(intervals'[i]) /\ Recent(intervals'[i], now)
          /\ Covered(intervals'[i]) = ActivePlays(played[i] \cup {now})
      BY <1>1, <3>1, <3>3, PlayRecorded
    <3> QED
      BY <3>1, <3>2, <3>4
  <2>2. CASE i # m
    BY <1>1, <1>2, <1>4, <2>2
  <2> QED
    BY <2>1, <2>2
<1>7. ActivityKept'
  <2>1. intervals' \in [Miners -> Seq(Intervals)] /\ activeUntil' \in [Miners -> Nat]
    BY <1>2, <1>4, <1>6
  <2> QED
    BY <1>1, <1>6, <2>1 DEF ActivityKept
<1>8. OwnersKept'
  BY <1>1, OwnersStay DEF EarnInv
<1>9. DaysOver'
  BY <1>1, <1>5, DaysKept DEF EarnInv
<1> QED
  BY <1>5, <1>7, <1>8, <1>9 DEF EarnInv

LEMMA PayOutEarns ==
    ASSUME Inv, EarnInv, NEW d \in Days, NEW S \in SUBSET Miners, NEW by \in Callers, PayOut(d, S, by)
    PROVE  EarnInv'
<1>1. /\ now \in Nat /\ now' = now /\ now >= Opens(d, by)
      /\ UNCHANGED <<intervals, activeUntil, played, checkpoints, rate, assignedAt>>
      /\ paid' = [paid EXCEPT ![d] =
            [m \in Miners |-> IF m \in S /\ Payable(d, m) THEN Payout(d, m) ELSE paid[d][m]]]
  BY DEF Inv, TypeOK, AdapterTypeOK, PayOut, ProcessPayouts, OnlyPassive
<1>2. Boundary(d) \in Nat /\ Boundary(d) <= now
  <2>1. Boundary(d) \in Nat /\ CatchUpDelay \in Nat
    BY Boundaries
  <2>2. CASE by = "keeper"
    BY <1>1, <2>1, <2>2 DEF Opens
  <2>3. CASE by # "keeper"
    BY <1>1, <2>1, <2>3 DEF Opens
  <2> QED
    BY <2>2, <2>3
<1>3. paid = [e \in Days |-> [m \in Miners |-> paid[e][m]]]
  BY DEF EarnInv, DaysOver
<1>4. ASSUME NEW e \in Days, NEW m \in Miners
      PROVE  paid'[e][m] = IF e = d /\ m \in S /\ Payable(d, m) THEN Payout(d, m) ELSE paid[e][m]
  BY <1>1, <1>3
<1>5. paid' = [e \in Days |-> [m \in Miners |-> paid'[e][m]]]
  BY <1>1, <1>3
<1>6. ASSUME NEW e \in Days, NEW m \in Miners, paid'[e][m] # NotPaid
      PROVE  /\ Boundary(e) <= now /\ rate[m] # 0 /\ assignedAt[m] < Boundary(e)
             /\ paid'[e][m].amount = Crystals(m, SecondsEarned(e, m))
  <2>1. CASE e = d /\ m \in S /\ Payable(d, m)
    <3>1. paid'[e][m] = Payout(d, m) /\ rate[m] # 0 /\ assignedAt[m] < Boundary(d)
      BY <1>4, <2>1 DEF Payable
    <3>2. EligibleSeconds(m, EarnsFrom(d, m), Boundary(d)) = SecondsEarned(d, m)
      BY <3>1, PayoutEarned DEF EarnInv
    <3>3. Payout(d, m).amount = Crystals(m, EligibleSeconds(m, EarnsFrom(d, m), Boundary(d)))
      BY DEF Payout
    <3> QED
      BY <1>2, <2>1, <3>1, <3>2, <3>3
  <2>2. CASE ~(e = d /\ m \in S /\ Payable(d, m))
    <3>1. paid'[e][m] = paid[e][m]
      BY <1>4, <2>2
    <3> QED
      BY <1>6, <3>1 DEF EarnInv, DaysOver
  <2> QED
    BY <2>1, <2>2
<1>7. ASSUME NEW e \in Days, NEW m \in Miners
      PROVE  Crystals(m, SecondsEarned(e, m))' = Crystals(m, SecondsEarned(e, m))
  BY <1>1 DEF Crystals, SecondsEarned, EarnsFrom
<1>8. DaysOver'
  BY <1>1, <1>5, <1>6, <1>7 DEF DaysOver
<1>9. ActivityKept' /\ OwnersKept'
  BY <1>1, ActivityStays, OwnersStay DEF EarnInv
<1> QED
  BY <1>8, <1>9 DEF EarnInv

\* A word that comes, or is tried again, sets a rate or leaves the rewards alone.
LEMMA WordEarns ==
    ASSUME Inv, EarnInv, NEW n \in Asked,
           RetryFulfillment(n) \/ \E w \in Words : Answer(n, w)
    PROVE  \/ UNCHANGED <<now, passiveVars>>
           \/ \E v \in Words : AssignPassiveRate(n, v) /\ PassiveTakes(n) /\ OnlyPassive
<1>1. CASE \E w \in Words : Answer(n, w)
  BY <1>1 DEF Answer, Consume, Takes, OnlyChest
<1>2. CASE RetryFulfillment(n)
  <2>1. requests[n].word \in Words
    <3>1. requests[n] \in WordRequests
      BY RequestTypes
    <3> QED
      BY <1>2, <3>1 DEF RetryFulfillment, Redeliver, Answered, WordRequests
  <2> QED
    BY <1>2, <2>1 DEF RetryFulfillment, Consume, Takes, OnlyChest
<1> QED
  BY <1>1, <1>2

LEMMA EarnNext == Inv /\ EarnInv /\ [Next]_vars => EarnInv'
<1> SUFFICES ASSUME Inv, EarnInv, [Next]_vars PROVE EarnInv'
  OBVIOUS
<1>1. now \in Nat
  BY DEF Inv, TypeOK, AdapterTypeOK
<1>2. CASE ChestStep \/ Governance \/ Tick \/ UNCHANGED vars
  <2>1. UNCHANGED passiveVars /\ (now' = now \/ now' = now + 1)
    BY <1>2 DEF ChestStep, Governance, Tick, Pausing, Refund, OnlyChest, vars
  <2> QED
    BY <1>1, <2>1, OthersEarnNothing
<1>3. CASE PassiveStep
  <2>1. ASSUME NEW m \in Miners, Retry(m) PROVE EarnInv'
    <3>1. /\ now' = now
          /\ UNCHANGED <<intervals, activeUntil, played, checkpoints, paid, rate, assignedAt>>
      BY <2>1 DEF Retry, RequestQueuedRate, OnlyPassive
    <3> QED
      BY <1>1, <3>1, ActivityStays, OwnersStay, DaysKept DEF EarnInv
  <2> QED
    BY <1>3, <2>1, TransferEarns, PayOutEarns, PlayEarns DEF PassiveStep
<1>4. CASE VrfStep
  <2>1. PICK n \in Asked : RetryFulfillment(n) \/ \E w \in Words : Answer(n, w)
    BY <1>4 DEF VrfStep
  <2>2. CASE UNCHANGED <<now, passiveVars>>
    BY <1>1, <2>2, OthersEarnNothing
  <2>3. CASE \E v \in Words : AssignPassiveRate(n, v) /\ PassiveTakes(n) /\ OnlyPassive
    BY <2>3, RateEarns
  <2> QED
    BY <2>1, <2>2, <2>3, WordEarns
<1> QED
  BY <1>2, <1>3, <1>4 DEF Next

\* Whatever day is asked for, the contract counts what was earned.
EarningsCount == \A d \in Days, m \in Miners : assignedAt[m] < Boundary(d) =>
    EligibleSeconds(m, EarnsFrom(d, m), Boundary(d)) = SecondsEarned(d, m)

EarnedInv == Inv /\ EarnInv /\ EarningsCount

LEMMA EarnInvariant == Spec => []EarnedInv
<1>1. Inv /\ EarnInv => EarnedInv
  BY PayoutEarned DEF EarnInv, EarningsCount, EarnedInv
<1> QED
  BY <1>1, Invariant, EarnInit, EarnNext, PTL DEF Spec

(* A day pays the rate for the seconds in which some play was within the     *)
(* activity window, from the later of the start of the day and the time the  *)
(* rate was assigned, each second once, for every Miner, every number of     *)
(* plays and every length of the window (recordActivity, eligibleSeconds,    *)
(* _processOne).                                                             *)
THEOREM PayoutsEarned == Spec => []PayoutIsEarned
<1>1. EarnedInv => PayoutIsEarned
  BY EarnedSeconds DEF EarnedInv, EarnInv
<1> QED
  BY <1>1, EarnInvariant, PTL

-----------------------------------------------------------------------------
(* What is owed stands.                                                     *)

\* What a step may change of what a day pays, once it is over.
Untouched(d, m) ==
    /\ rate'[m] = rate[m] /\ assignedAt'[m] = assignedAt[m]
    /\ played'[m] = played[m] \/ played'[m] = played[m] \cup {now}
    /\ OwnerAt(m, Boundary(d))' = OwnerAt(m, Boundary(d))
    /\ paid'[d][m] = paid[d][m] \/ paid'[d][m] = Payout(d, m)

LEMMA UntouchedStands ==
    ASSUME EarnedInv, EarnedInv', NEW d \in Days, NEW m \in Miners,
           Boundary(d) < now, Payable(d, m), Untouched(d, m)
    PROVE  Payout(d, m)' = Payout(d, m) /\ (Payable(d, m)' \/ paid'[d][m] = Payout(d, m))
<1>1. Inv /\ now \in Nat /\ Boundary(d) \in Nat
  <2>1. Inv
    BY DEF EarnedInv
  <2>2. now \in Nat
    BY <2>1 DEF Inv, TypeOK, AdapterTypeOK
  <2> QED
    BY <2>1, <2>2, Boundaries
<1>2. paid[d][m] = NotPaid /\ rate[m] # 0 /\ assignedAt[m] < Boundary(d)
  BY DEF Payable
<1>3. EarnsFrom(d, m) \in Nat /\ EarnsFrom(d, m)' = EarnsFrom(d, m)
  BY <1>1, <1>2, EarningPeriod DEF EarnsFrom, Untouched
<1>4. ActivePlays(played'[m]) \cap Seconds(EarnsFrom(d, m), Boundary(d)) =
        ActivePlays(played[m]) \cap Seconds(EarnsFrom(d, m), Boundary(d))
  BY <1>1, <1>3, PeriodKept DEF Untouched
<1>5. SecondsEarned(d, m)' = SecondsEarned(d, m)
  BY <1>3, <1>4 DEF SecondsEarned
<1>6. EligibleSeconds(m, EarnsFrom(d, m), Boundary(d)) = SecondsEarned(d, m)
  BY <1>2 DEF EarnedInv, EarningsCount
<1>7. EligibleSeconds(m, EarnsFrom(d, m), Boundary(d))' = SecondsEarned(d, m)'
  <2>1. assignedAt'[m] < Boundary(d)
    BY <1>2 DEF Untouched
  <2> QED
    BY <2>1 DEF EarnedInv, EarningsCount
<1>8. Payout(d, m)' = Payout(d, m)
  BY <1>5, <1>6, <1>7 DEF Payout, Crystals, Untouched
<1>9. Payable(d, m)' \/ paid'[d][m] = Payout(d, m)
  BY <1>2 DEF Payable, Untouched
<1> QED
  BY <1>8, <1>9

LEMMA StepsLeaveOwed ==
    ASSUME EarnedInv, [Next]_vars, NEW d \in Days, NEW m \in Miners,
           Boundary(d) < now, Payable(d, m)
    PROVE  Untouched(d, m)
<1>1. Inv /\ EarnInv /\ now \in Nat /\ Boundary(d) \in Nat /\ rate[m] # 0
  BY Boundaries, SMTT(30) DEF EarnedInv, Inv, TypeOK, AdapterTypeOK, Payable
<1>2. CASE UNCHANGED passiveVars
  BY <1>2 DEF passiveVars, Untouched, OwnerAt
<1>3. CASE PassiveStep
  <2>1. ASSUME NEW i \in Miners, NEW w \in Wallets, TransferMiner(i, w), OnlyPassive
        PROVE  Untouched(d, m)
    <3>1. UNCHANGED <<rate, assignedAt, played, paid>>
      BY <2>1 DEF TransferMiner
    <3>2. OwnerAt(m, Boundary(d))' = OwnerAt(m, Boundary(d))
      BY <1>1, <2>1, TransferEarns
    <3> QED
      BY <3>1, <3>2 DEF Untouched
  <2>2. ASSUME NEW e \in Days, NEW S \in SUBSET Miners, NEW by \in Callers, PayOut(e, S, by)
        PROVE  Untouched(d, m)
    <3>1. /\ UNCHANGED <<rate, assignedAt, played, checkpoints>>
          /\ paid' = [paid EXCEPT ![e] =
                [i \in Miners |-> IF i \in S /\ Payable(e, i) THEN Payout(e, i) ELSE paid[e][i]]]
      BY <2>2 DEF PayOut, ProcessPayouts
    <3>2. paid = [c \in Days |-> [i \in Miners |-> paid[c][i]]]
      BY <1>1 DEF EarnInv, DaysOver
    <3>3. paid'[d][m] = paid[d][m] \/ paid'[d][m] = Payout(d, m)
      BY <3>1, <3>2
    <3> QED
      BY <3>1, <3>3 DEF Untouched, OwnerAt
  <2>3. ASSUME NEW i \in Miners, NEW top \in BOOLEAN, SettlePlay(i, top), OnlyPassive
        PROVE  Untouched(d, m)
    <3>1. UNCHANGED <<rate, assignedAt, paid, checkpoints>>
      BY <2>3 DEF SettlePlay
    <3>2. played'[m] = played[m] \/ played'[m] = played[m] \cup {now}
      BY <1>1, <2>3, PlayEarns
    <3> QED
      BY <3>1, <3>2 DEF Untouched, OwnerAt
  <2>4. ASSUME NEW i \in Miners, Retry(i) PROVE Untouched(d, m)
    BY <2>4 DEF Retry, RequestQueuedRate, Untouched, OwnerAt
  <2> QED
    BY <1>3, <2>1, <2>2, <2>3, <2>4 DEF PassiveStep
<1>4. CASE VrfStep
  <2>1. PICK n \in Asked : RetryFulfillment(n) \/ \E w \in Words : Answer(n, w)
    BY <1>4 DEF VrfStep
  <2>2. ASSUME NEW v \in Words, AssignPassiveRate(n, v), PassiveTakes(n), OnlyPassive
        PROVE  Untouched(d, m)
    <3>1. rate'[m] = rate[m] /\ assignedAt'[m] = assignedAt[m]
      BY <1>1, <2>2, RateEarns
    <3>2. UNCHANGED <<played, paid, checkpoints>>
      BY <2>2 DEF AssignPassiveRate
    <3> QED
      BY <3>1, <3>2 DEF Untouched, OwnerAt
  <2> QED
    BY <1>1, <1>2, <2>1, <2>2, WordEarns
<1>5. CASE ChestStep \/ Governance \/ Tick \/ UNCHANGED vars
  <2>1. UNCHANGED passiveVars
    BY <1>5 DEF ChestStep, Governance, Tick, Pausing, Refund, OnlyChest, vars
  <2> QED
    BY <1>2, <2>1
<1> QED
  BY <1>3, <1>4, <1>5 DEF Next

OwedStandsInStep ==
    \A d \in Days, m \in Miners : Boundary(d) < now /\ Payable(d, m) =>
        /\ Payout(d, m)' = Payout(d, m)
        /\ Payable(d, m)' \/ paid'[d][m] = Payout(d, m)

(* Once a day is over, what it pays for a Miner and to whom does not change  *)
(* until it is paid, and it is paid as owed: no play, no transfer, no rate   *)
(* and no payout of another day reaches back (ownerAt, eligibleSeconds,      *)
(* assignPassiveRate).                                                       *)
THEOREM OwedPayoutsStand == Spec => OwedStands
<1>1. EarnedInv /\ EarnedInv' /\ [Next]_vars => OwedStandsInStep
  BY StepsLeaveOwed, UntouchedStands DEF OwedStandsInStep
<1>2. OwedStandsInStep =>
        \A d \in Days, m \in Miners : Boundary(d) < now /\ Payable(d, m) =>
            /\ Payout(d, m)' = Payout(d, m)
            /\ Payable(d, m)' \/ paid'[d][m] = Payout(d, m)
  BY DEF OwedStandsInStep
<1> QED
  BY <1>1, <1>2, EarnInvariant, PTL DEF Spec, OwedStands

-----------------------------------------------------------------------------
(* The rate of a Miner that reached the top comes, and once.                 *)

\* A Miner at level 100 has its rate, is queued for it, or has a request that can
\* still be answered; whatever is answered, the contract takes the word; and no
\* two requests are for one Miner (queueLevel100, requestQueuedRate,
\* fulfillRandomness).
RatesAreComing ==
    /\ \A m \in topLevel : \/ rate[m] # 0 \/ rateRequests[m] = "queued"
                           \/ \E n \in Asked : requestMiner[n] = m /\ Waiting(n)
    /\ \A n \in Asked : ConsumerOfRequest(n) # "chest" /\ Waiting(n) => PassiveTakes(n)
    /\ \A n, k \in Asked : requestMiner[n] = requestMiner[k] => n = k \/ requestMiner[n] = NoMiner

\* A rate is for good: no later word, play or transfer changes it or its time
\* (assignPassiveRate).
RatesStay ==
    [][\A m \in Miners : rate[m] # 0 => rate'[m] = rate[m] /\ assignedAt'[m] = assignedAt[m]]_vars

\* A request that a rate waits for.
OpenRate(n) == n \in Asked /\ ConsumerOfRequest(n) # "chest" /\ Waiting(n)

\* Where a Miner stands, and what the contract keeps for its request.
RateOfMiner(m) ==
    /\ m \notin topLevel => rate[m] = 0 /\ rateRequests[m] = "none"
    /\ m \in topLevel => (rate[m] = 0 <=> rateRequests[m] # "none")
    /\ rateRequests[m] = "requested" <=> \E n \in Ids : requestMiner[n] = m

RateInv ==
    /\ \A m \in Miners : RateOfMiner(m)
    /\ \A n \in Ids : requestMiner[n] # NoMiner <=> OpenRate(n)
    /\ \A n, k \in Ids : requestMiner[n] = requestMiner[k] => n = k \/ requestMiner[n] = NoMiner

LEMMA RatesKept ==
    ASSUME RateInv, UNCHANGED <<topLevel, rate, rateRequests, requestMiner>>,
           \A n \in Ids : OpenRate(n)' <=> OpenRate(n)
    PROVE  RateInv'
BY DEF RateInv, RateOfMiner

LEMMA RatesApart ==
    ASSUME RateInv, UNCHANGED <<topLevel, rate, rateRequests, requestMiner, adapterVars>>
    PROVE  RateInv'
<1>1. \A n \in Ids : OpenRate(n)' <=> OpenRate(n)
  BY DEF OpenRate, Asked, ConsumerOfRequest, Waiting, adapterVars
<1> QED
  BY <1>1, RatesKept

\* One request changes.
LEMMA RequestAnswered ==
    ASSUME Inv, NEW n \in Asked, NEW r \in WordRequests, r.adapter = requests[n].adapter,
           requests' = [requests EXCEPT ![n] = r]
    PROVE  /\ \A k \in Ids \ {n} : OpenRate(k)' <=> OpenRate(k)
           /\ OpenRate(n)' <=> ConsumerOfRequest(n) # "chest" /\ ~r.delivered /\ ~r.cancelled
<1>1. requests \in Seq(WordRequests) /\ Asked = 1..Len(requests)
  BY RequestTypes DEF Inv, TypeOK, AdapterTypeOK
<1>2. Asked' = Asked /\ \A k \in Asked : requests'[k] = IF k = n THEN r ELSE requests[k]
  BY <1>1 DEF Asked
<1>3. \A k \in Ids \ {n} : OpenRate(k)' <=> OpenRate(k)
  BY <1>2 DEF OpenRate, ConsumerOfRequest, Waiting
<1>4. OpenRate(n)' <=> ConsumerOfRequest(n) # "chest" /\ ~r.delivered /\ ~r.cancelled
  BY <1>2 DEF OpenRate, ConsumerOfRequest, Waiting
<1> QED
  BY <1>3, <1>4

\* Requests are added; those of the chests are nobody's rate.
LEMMA RequestsAdded ==
    ASSUME Inv, NEW a \in Adapters, NEW k \in Nat, RequestWords(a, k)
    PROVE  \A n \in Ids :
              OpenRate(n)' <=> \/ OpenRate(n)
                               \/ ConsumerOf[a] # "chest" /\ n \in (Len(requests) + 1)..(Len(requests) + k)
<1>1. Len(requests) \in Nat /\ Asked = 1..Len(requests)
  BY RequestTypes
<1>2. /\ Asked' = 1..(Len(requests) + k)
      /\ \A n \in Asked : requests'[n] = requests[n]
      /\ \A n \in Asked' \ Asked : requests'[n].adapter = a /\ Waiting(n)'
  BY RequestsGrow
<1> TAKE n \in Ids
<1>3. CASE n \in Asked
  <2>1. n \in Asked' /\ requests'[n] = requests[n]
        /\ n \notin (Len(requests) + 1)..(Len(requests) + k)
    BY <1>1, <1>2, <1>3
  <2> QED
    BY <1>3, <2>1 DEF OpenRate, ConsumerOfRequest, Waiting
<1>4. CASE n \in Asked' \ Asked
  <2>1. n \in (Len(requests) + 1)..(Len(requests) + k)
    BY <1>1, <1>2, <1>4
  <2> QED
    BY <1>2, <1>4, <2>1 DEF OpenRate, ConsumerOfRequest
<1>5. CASE n \notin Asked' /\ n \notin Asked
  <2>1. n \notin (Len(requests) + 1)..(Len(requests) + k)
    BY <1>1, <1>2, <1>5
  <2> QED
    BY <1>5, <2>1 DEF OpenRate
<1> QED
  BY <1>3, <1>4, <1>5

\* A Miner asks for its rate, for the first time or again.
LEMMA RateTried ==
    ASSUME Inv, RateInv, NEW m \in Miners, TryRequestRate(m),
           rate' = rate, topLevel' = topLevel \cup {m}, rate[m] = 0, rateRequests[m] # "requested"
    PROVE  RateInv'
<1>1. /\ rateRequests \in [Miners -> {"none", "queued", "requested"}]
      /\ requestMiner \in [Ids -> Miners \cup {NoMiner}] /\ NoMiner \notin Miners
  BY DEF Inv, TypeOK, PassiveTypeOK
<1>2. /\ \A n \in Ids : requestMiner[n] # m
      /\ \A n \in Ids : requestMiner[n] # NoMiner <=> OpenRate(n)
      /\ \A n, k \in Ids : requestMiner[n] = requestMiner[k] => n = k \/ requestMiner[n] = NoMiner
      /\ \A i \in Miners : RateOfMiner(i)
  BY DEF RateInv, RateOfMiner
<1>3. CASE /\ RequestWords(provider["passive"], 1)
           /\ rateRequests' = [rateRequests EXCEPT ![m] = "requested"]
           /\ requestMiner' = [requestMiner EXCEPT ![Len(requests) + 1] = m]
  <2> DEFINE f == Len(requests) + 1
  <2>1. provider["passive"] \in Adapters /\ ConsumerOf[provider["passive"]] = "passive" /\ 1 \in Nat
    BY DEF Inv, TypeOK, AdapterTypeOK, OwnAdapters
  <2>2. f \in Ids /\ f \notin Asked
    <3>1. Len(requests) \in Nat /\ Asked = 1..Len(requests) /\ Len(requests) + 1 <= MaxRequests
      BY <1>3, RequestTypes DEF RequestWords
    <3> QED
      BY <3>1 DEF Ids
  <2>3. \A n \in Ids : OpenRate(n)' <=> OpenRate(n) \/ n = f
    <3>1. Len(requests) \in Nat
      BY RequestTypes
    <3>2. \A n \in Ids : n \in (Len(requests) + 1)..(Len(requests) + 1) <=> n = f
      BY <3>1 DEF Ids
    <3>3. \A n \in Ids :
             OpenRate(n)' <=> \/ OpenRate(n)
                              \/ /\ ConsumerOf[provider["passive"]] # "chest"
                                 /\ n \in (Len(requests) + 1)..(Len(requests) + 1)
      BY <1>3, <2>1, RequestsAdded
    <3> QED
      BY <2>1, <3>2, <3>3
  <2>4. requestMiner[f] = NoMiner
    BY <1>2, <2>2 DEF OpenRate
  <2> HIDE DEF f
  <2>5. \A n \in Ids : requestMiner'[n] = IF n = f THEN m ELSE requestMiner[n]
    BY <1>1, <1>3, <2>2 DEF f
  <2>6. ASSUME NEW i \in Miners PROVE RateOfMiner(i)'
    <3>1. CASE i = m
      BY <1>1, <1>3, <2>2, <2>5, <3>1 DEF RateOfMiner
    <3>2. CASE i # m
      <4>1. rateRequests'[i] = rateRequests[i] /\ (i \in topLevel' <=> i \in topLevel)
            /\ RateOfMiner(i)
        BY <1>1, <1>2, <1>3, <3>2
      <4>2. (\E n \in Ids : requestMiner'[n] = i) <=> (\E n \in Ids : requestMiner[n] = i)
        BY <1>1, <2>2, <2>4, <2>5, <3>2
      <4> QED
        BY <4>1, <4>2 DEF RateOfMiner
    <3> QED
      BY <3>1, <3>2
  <2>7. \A n \in Ids : requestMiner'[n] # NoMiner <=> OpenRate(n)'
    BY <1>1, <1>2, <2>3, <2>5
  <2>8. \A n, k \in Ids : requestMiner'[n] = requestMiner'[k] => n = k \/ requestMiner'[n] = NoMiner
    BY <1>2, <2>5
  <2> QED
    BY <2>6, <2>7, <2>8 DEF RateInv
<1>4. CASE /\ rateRequests' = [rateRequests EXCEPT ![m] = Deferred]
           /\ UNCHANGED <<requestMiner, adapterVars>>
  <2>1. \A n \in Ids : OpenRate(n)' <=> OpenRate(n)
    BY <1>4 DEF OpenRate, Asked, ConsumerOfRequest, Waiting, adapterVars
  <2>2. ASSUME NEW i \in Miners PROVE RateOfMiner(i)'
    <3>1. CASE i = m
      BY <1>1, <1>2, <1>4, <3>1 DEF RateOfMiner, Deferred
    <3>2. CASE i # m
      BY <1>1, <1>2, <1>4, <3>2 DEF RateOfMiner
    <3> QED
      BY <3>1, <3>2
  <2> QED
    BY <1>2, <1>4, <2>1, <2>2 DEF RateInv
<1> QED
  BY <1>3, <1>4 DEF TryRequestRate

\* The word comes, and the request is done.
LEMMA RateCame ==
    ASSUME Inv, RateInv, NEW n \in Asked, NEW w \in Words, PassiveTakes(n), AssignPassiveRate(n, w),
           \A k \in Ids \ {n} : OpenRate(k)' <=> OpenRate(k), ~OpenRate(n)'
    PROVE  RateInv'
<1> DEFINE m == requestMiner[n]
<1>1. /\ rateRequests \in [Miners -> {"none", "queued", "requested"}]
      /\ requestMiner \in [Ids -> Miners \cup {NoMiner}] /\ NoMiner \notin Miners
      /\ topLevel \subseteq Miners /\ rate \in [Miners -> Nat]
      /\ n \in Ids
  BY RequestTypes DEF Inv, TypeOK, PassiveTypeOK
<1>2. m \in Miners /\ m \in topLevel /\ rate[m] = 0
  BY <1>1 DEF PassiveTakes
<1>3. /\ requestMiner' = [requestMiner EXCEPT ![n] = NoMiner]
      /\ rateRequests' = [rateRequests EXCEPT ![m] = "none"]
      /\ rate' = [rate EXCEPT ![m] = RateOf[w]] /\ topLevel' = topLevel
      /\ RateOf[w] # 0
  BY DEF AssignPassiveRate
<1>4. /\ \A k \in Ids : requestMiner[k] # NoMiner <=> OpenRate(k)
      /\ \A j, k \in Ids : requestMiner[j] = requestMiner[k] => j = k \/ requestMiner[j] = NoMiner
      /\ \A i \in Miners : RateOfMiner(i)
  BY DEF RateInv
<1>5. \A k \in Ids : k # n => requestMiner[k] # m
  BY <1>1, <1>2, <1>4
<1> HIDE DEF m
<1>6. \A k \in Ids : requestMiner'[k] = IF k = n THEN NoMiner ELSE requestMiner[k]
  BY <1>1, <1>3
<1>7. ASSUME NEW i \in Miners PROVE RateOfMiner(i)'
  <2>1. CASE i = m
    BY <1>1, <1>2, <1>3, <1>5, <1>6, <2>1 DEF RateOfMiner
  <2>2. CASE i # m
    <3>1. rateRequests'[i] = rateRequests[i] /\ rate'[i] = rate[i] /\ RateOfMiner(i)
      BY <1>1, <1>3, <1>4, <2>2
    <3>2. (\E k \in Ids : requestMiner'[k] = i) <=> (\E k \in Ids : requestMiner[k] = i)
      BY <1>1, <1>6, <2>2 DEF m
    <3> QED
      BY <1>3, <3>1, <3>2 DEF RateOfMiner
  <2> QED
    BY <2>1, <2>2
<1>8. \A k \in Ids : requestMiner'[k] # NoMiner <=> OpenRate(k)'
  BY <1>4, <1>6
<1>9. \A j, k \in Ids : requestMiner'[j] = requestMiner'[k] => j = k \/ requestMiner'[j] = NoMiner
  BY <1>4, <1>6
<1> QED
  BY <1>7, <1>8, <1>9 DEF RateInv

LEMMA WordKeepsRates ==
    ASSUME Inv, RateInv, NEW n \in Asked, RetryFulfillment(n) \/ \E w \in Words : Answer(n, w)
    PROVE  RateInv'
<1>1. requests[n] \in WordRequests /\ n \in Ids /\ (requests[n].delivered => Answered(n))
  BY RequestTypes DEF Inv, DeliveredHasCome
<1>2. ASSUME NEW w \in Words, NEW r \in WordRequests, Takes(n), Consume(n, w),
             r.adapter = requests[n].adapter, r.delivered, requests' = [requests EXCEPT ![n] = r]
      PROVE  RateInv'
  <2>1. (\A k \in Ids \ {n} : OpenRate(k)' <=> OpenRate(k)) /\ ~OpenRate(n)'
    BY <1>2, RequestAnswered
  <2>2. CASE ConsumerOfRequest(n) = "chest"
    <3>1. UNCHANGED <<topLevel, rate, rateRequests, requestMiner>>
      BY <1>2, <2>2 DEF Consume, OnlyChest, passiveVars
    <3>2. ~OpenRate(n)
      BY <2>2 DEF OpenRate
    <3> QED
      BY <1>1, <2>1, <3>1, <3>2, RatesKept
  <2>3. CASE ConsumerOfRequest(n) # "chest"
    <3>1. PassiveTakes(n) /\ AssignPassiveRate(n, w)
      BY <1>2, <2>3 DEF Takes, Consume
    <3> QED
      BY <2>1, <3>1, RateCame
  <2> QED
    BY <2>2, <2>3
<1>3. CASE RetryFulfillment(n)
  <2> DEFINE r == [requests[n] EXCEPT !.delivered = TRUE]
             w == requests[n].word
  <2>1. w \in Words /\ Takes(n) /\ Consume(n, w) /\ requests' = [requests EXCEPT ![n] = r]
    BY <1>1, <1>3 DEF RetryFulfillment, Redeliver, Answered, WordRequests
  <2>2. r \in WordRequests /\ r.adapter = requests[n].adapter /\ r.delivered
    BY <1>1 DEF WordRequests
  <2> HIDE DEF r, w
  <2> QED
    BY <1>2, <2>1, <2>2
<1>4. ASSUME NEW w \in Words, Answer(n, w) PROVE RateInv'
  <2>1. CASE Takes(n) /\ Receive(n, w, TRUE) /\ Consume(n, w)
    <3> DEFINE r == [requests[n] EXCEPT !.word = w, !.delivered = TRUE]
    <3>1. requests' = [requests EXCEPT ![n] = r]
      BY <2>1 DEF Receive
    <3>2. r \in WordRequests /\ r.adapter = requests[n].adapter /\ r.delivered
      BY <1>1 DEF WordRequests
    <3> HIDE DEF r
    <3> QED
      BY <1>2, <2>1, <3>1, <3>2
  <2>2. CASE Receive(n, w, FALSE) /\ UNCHANGED passiveVars
    <3> DEFINE r == [requests[n] EXCEPT !.word = w, !.delivered = FALSE]
    <3>1. requests' = [requests EXCEPT ![n] = r] /\ ~Answered(n)
      BY <2>2 DEF Receive
    <3>2. r \in WordRequests /\ r.adapter = requests[n].adapter /\ ~r.delivered
          /\ r.cancelled = requests[n].cancelled
      BY <1>1 DEF WordRequests
    <3>3. UNCHANGED <<topLevel, rate, rateRequests, requestMiner>>
      BY <2>2 DEF passiveVars
    <3>4. OpenRate(n) <=> ConsumerOfRequest(n) # "chest" /\ ~requests[n].cancelled
      BY <1>1, <3>1 DEF OpenRate, Waiting
    <3> HIDE DEF r
    <3>5. \A k \in Ids : OpenRate(k)' <=> OpenRate(k)
      BY <3>1, <3>2, <3>4, RequestAnswered
    <3> QED
      BY <3>3, <3>5, RatesKept
  <2> QED
    BY <1>4, <2>1, <2>2 DEF Answer
<1> QED
  BY <1>3, <1>4

LEMMA RatesInit == Init => RateInv
<1> SUFFICES ASSUME Init PROVE RateInv
  OBVIOUS
<1>1. Asked = {} /\ \A n \in Ids : requestMiner[n] = NoMiner
  BY DEF Init, AdapterInit, PassiveInit, Asked
<1>2. \A m \in Miners : RateOfMiner(m)
  BY <1>1 DEF Init, PassiveInit, RateOfMiner
<1> QED
  BY <1>1, <1>2 DEF RateInv, OpenRate

LEMMA RatesNext == Inv /\ RateInv /\ [Next]_vars => RateInv'
<1> SUFFICES ASSUME Inv, RateInv, [Next]_vars PROVE RateInv'
  OBVIOUS
<1>1. CASE Governance \/ Tick \/ UNCHANGED vars
  <2>1. UNCHANGED <<passiveVars, adapterVars>>
    BY <1>1 DEF Governance, Tick, Pausing, SetPaused, SetRandomnessProvider, vars, adapterVars
  <2> QED
    BY <2>1, RatesApart DEF passiveVars
<1>2. CASE ChestStep
  <2>1. UNCHANGED <<topLevel, rate, rateRequests, requestMiner>>
    BY <1>2 DEF ChestStep, OnlyChest, Refund, passiveVars
  <2>2. CASE UNCHANGED adapterVars
    BY <2>1, <2>2, RatesApart
  <2>3. ASSUME NEW b \in Buyers, NEW k \in 1..MaxBatch, OpenChests(b, k) PROVE RateInv'
    <3>1. /\ provider["chest"] \in Adapters /\ ConsumerOf[provider["chest"]] = "chest" /\ k \in Nat
          /\ RequestWords(provider["chest"], k)
      BY <2>3 DEF OpenChests, Inv, TypeOK, AdapterTypeOK, OwnAdapters
    <3>2. \A n \in Ids : OpenRate(n)' <=> OpenRate(n)
      BY <3>1, RequestsAdded
    <3> QED
      BY <2>1, <3>2, RatesKept
  <2>4. ASSUME NEW n \in Asked, Refund(n) PROVE RateInv'
    <3> DEFINE r == [requests[n] EXCEPT !.cancelled = TRUE]
    <3>1. pending[n] # NoChest /\ requests' = [requests EXCEPT ![n] = r]
      BY <2>4 DEF Refund, RefundExpiredRequest, Withdrawn, CancelRequest
    <3>2. requests[n] \in WordRequests /\ n \in Ids /\ ConsumerOfRequest(n) = "chest"
      BY <3>1, RequestTypes, AdaptersHold DEF ChestsMatch
    <3>3. r \in WordRequests /\ r.adapter = requests[n].adapter
      BY <3>2 DEF WordRequests
    <3> HIDE DEF r
    <3>4. (\A k \in Ids \ {n} : OpenRate(k)' <=> OpenRate(k)) /\ ~OpenRate(n)'
      BY <3>1, <3>2, <3>3, RequestAnswered
    <3>5. ~OpenRate(n)
      BY <3>2 DEF OpenRate
    <3> QED
      BY <2>1, <3>2, <3>4, <3>5, RatesKept
  <2> QED
    BY <1>2, <2>2, <2>3, <2>4 DEF ChestStep
<1>3. CASE PassiveStep
  <2>1. ASSUME NEW m \in Miners, NEW w \in Wallets, TransferMiner(m, w), UNCHANGED adapterVars
        PROVE  RateInv'
    BY <2>1, RatesApart DEF TransferMiner
  <2>2. ASSUME NEW d \in Days, NEW S \in SUBSET Miners, NEW by \in Callers, PayOut(d, S, by)
        PROVE  RateInv'
    BY <2>2, RatesApart DEF PayOut, ProcessPayouts
  <2>3. ASSUME NEW m \in Miners, NEW top \in BOOLEAN, SettlePlay(m, top) PROVE RateInv'
    <3>1. rate' = rate
      BY <2>3 DEF SettlePlay
    <3>2. CASE UNCHANGED <<topLevel, rateRequests, requestMiner, adapterVars>>
      BY <3>1, <3>2, RatesApart
    <3>3. CASE m \notin topLevel /\ topLevel' = topLevel \cup {m} /\ QueueLevel100(m)
      <4>1. rate[m] = 0 /\ rateRequests[m] = "none"
        BY <3>3 DEF RateInv, RateOfMiner
      <4>2. TryRequestRate(m)
        BY <3>3, <4>1 DEF QueueLevel100
      <4> QED
        BY <3>1, <3>3, <4>1, <4>2, RateTried
    <3> QED
      BY <2>3, <3>2, <3>3 DEF SettlePlay
  <2>4. ASSUME NEW m \in Miners, Retry(m) PROVE RateInv'
    <3>1. TryRequestRate(m) /\ rateRequests[m] = "queued" /\ UNCHANGED <<topLevel, rate>>
      BY <2>4 DEF Retry, RequestQueuedRate
    <3>2. m \in topLevel /\ rate[m] = 0
      BY <3>1 DEF RateInv, RateOfMiner
    <3> QED
      BY <3>1, <3>2, RateTried
  <2> QED
    BY <1>3, <2>1, <2>2, <2>3, <2>4 DEF PassiveStep
<1>4. CASE VrfStep
  BY <1>4, WordKeepsRates DEF VrfStep
<1> QED
  BY <1>1, <1>2, <1>3, <1>4 DEF Next

LEMMA RateInvariant == Spec => [](Inv /\ RateInv)
BY Invariant, RatesInit, RatesNext, PTL DEF Spec

\* A Miner that reached level 100 never falls between the chairs: it has its rate,
\* waits in the queue, or has the one request whose word the contract will take,
\* over refused requests, pauses and changes of the adapter.
THEOREM RatesCome == Spec => []RatesAreComing
<1>1. Inv /\ RateInv => RatesAreComing
  <2> SUFFICES ASSUME Inv, RateInv PROVE RatesAreComing
    OBVIOUS
  <2>1. /\ topLevel \subseteq Miners /\ Asked \subseteq Ids /\ NoMiner \notin Miners
        /\ rateRequests \in [Miners -> {"none", "queued", "requested"}]
        /\ requestMiner \in [Ids -> Miners \cup {NoMiner}]
    BY RequestTypes DEF Inv, TypeOK, PassiveTypeOK
  <2>2. ASSUME NEW m \in topLevel, rate[m] = 0, rateRequests[m] # "queued"
        PROVE  \E n \in Asked : requestMiner[n] = m /\ Waiting(n)
    <3>1. m \in Miners /\ rateRequests[m] = "requested"
      BY <2>1, <2>2 DEF RateInv, RateOfMiner
    <3>2. PICK n \in Ids : requestMiner[n] = m
      BY <3>1 DEF RateInv, RateOfMiner
    <3>3. OpenRate(n)
      BY <2>1, <3>1, <3>2 DEF RateInv
    <3> QED
      BY <3>2, <3>3 DEF OpenRate
  <2>3. ASSUME NEW n \in Asked, ConsumerOfRequest(n) # "chest", Waiting(n) PROVE PassiveTakes(n)
    <3>1. requestMiner[n] # NoMiner /\ n \in Ids
      BY <2>1, <2>3 DEF RateInv, OpenRate
    <3>2. requestMiner[n] \in Miners /\ rateRequests[requestMiner[n]] = "requested"
      BY <2>1, <3>1 DEF RateInv, RateOfMiner
    <3> QED
      BY <3>1, <3>2 DEF RateInv, RateOfMiner, PassiveTakes
  <2>4. \A n, k \in Asked : requestMiner[n] = requestMiner[k] => n = k \/ requestMiner[n] = NoMiner
    BY <2>1 DEF RateInv
  <2> QED
    BY <2>2, <2>3, <2>4 DEF RatesAreComing
<1> QED
  BY <1>1, RateInvariant, PTL

\* A rate that was assigned stands with the second it was assigned in.
THEOREM RatesStand == Spec => RatesStay
<1>1. ASSUME EarnedInv, [Next]_vars, NEW m \in Miners, rate[m] # 0
      PROVE  rate'[m] = rate[m] /\ assignedAt'[m] = assignedAt[m]
  <2>1. CASE ChestStep \/ Governance \/ Tick \/ UNCHANGED vars
    BY <2>1 DEF ChestStep, Governance, Tick, Pausing, Refund, OnlyChest, vars, passiveVars
  <2>2. CASE PassiveStep
    BY <2>2 DEF PassiveStep, TransferMiner, PayOut, ProcessPayouts, SettlePlay, Retry, RequestQueuedRate
  <2>3. CASE VrfStep
    <3>1. PICK n \in Asked : RetryFulfillment(n) \/ \E w \in Words : Answer(n, w)
      BY <2>3 DEF VrfStep
    <3>2. CASE UNCHANGED <<now, passiveVars>>
      BY <3>2 DEF passiveVars
    <3>3. CASE \E v \in Words : AssignPassiveRate(n, v) /\ PassiveTakes(n) /\ OnlyPassive
      BY <1>1, <3>3, RateEarns DEF EarnedInv
    <3> QED
      BY <1>1, <3>1, <3>2, <3>3, WordEarns DEF EarnedInv
  <2> QED
    BY <1>1, <2>1, <2>2, <2>3 DEF Next
<1>2. EarnedInv /\ [Next]_vars =>
         [\A m \in Miners : rate[m] # 0 => rate'[m] = rate[m] /\ assignedAt'[m] = assignedAt[m]]_vars
  BY <1>1
<1> QED
  BY <1>2, EarnInvariant, PTL DEF Spec, RatesStay
=============================================================================

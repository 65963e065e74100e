--------------------------- MODULE PassiveRewards ---------------------------
(***************************************************************************)
(* MattV2PassiveRewards with the parts of MattV2Miner it reads: a Miner that *)
(* reaches level 100 is given a random rate of crystals per hour, once, and  *)
(* earns it while it is active.  A day is paid after its end, by the keeper  *)
(* at once or by anyone a while later, to the wallet that owned the Miner at *)
(* the end.                                                                  *)
(*                                                                          *)
(* The settlement contracts report a play in the second it is settled.       *)
(* Periods of activity are kept as a list of intervals, owners as a list of  *)
(* checkpoints; both are searched by time.                                   *)
(***************************************************************************)
EXTENDS VrfAdapter, FiniteSetsExt, SequencesExt

CONSTANTS
    Wallets, FirstOwner,    \* the wallet the Miners are minted to
    Miners, NoMiner, NotPaid,
    RateOf,             \* the rate a word stands for
    TokenUnit, HourLength, DayLength,
    ActivityWindow,     \* ACTIVITY_WINDOW, seven days
    CatchUpDelay        \* PUBLIC_CATCHUP_DELAY

Days == 1..(MaxTime \div DayLength)
Callers == {"keeper", "anyone"}

ASSUME PassiveAssumption ==
    /\ "passive" \in Consumers /\ NoMiner \notin Miners /\ FirstOwner \in Wallets
    /\ RateOf \in [Words -> Nat \ {0}]
    /\ TokenUnit \in Nat \ {0} /\ HourLength \in Nat \ {0} /\ DayLength \in Nat \ {0}
    /\ ActivityWindow \in Nat \ {0} /\ CatchUpDelay \in Nat

VARIABLES
    topLevel,           \* Miners that reached level 100
    checkpoints,        \* _ownershipCheckpoints
    activeUntil,        \* of the Miner's progression
    intervals,          \* _activityIntervals
    rateRequests,       \* "none", "queued" or "requested"
    requestMiner,       \* the Miner a request is for
    rate, assignedAt,   \* crystalsPerHour and cphAssignedAt
    paid,               \* payoutProcessed: what was paid for a day, or NotPaid
    played              \* history: when a Miner played

passiveVars == <<topLevel, checkpoints, activeUntil, intervals, rateRequests,
                 requestMiner, rate, assignedAt, paid, played>>

PassiveInit ==
    /\ topLevel = {}
    /\ checkpoints = [m \in Miners |-> <<[at |-> 0, owner |-> FirstOwner]>>]
    /\ activeUntil = [m \in Miners |-> 0]
    /\ intervals = [m \in Miners |-> <<>>]
    /\ rateRequests = [m \in Miners |-> "none"]
    /\ requestMiner = [n \in Ids |-> NoMiner]
    /\ rate = [m \in Miners |-> 0] /\ assignedAt = [m \in Miners |-> 0]
    /\ paid = [d \in Days |-> [m \in Miners |-> NotPaid]]
    /\ played = [m \in Miners |-> {}]

-----------------------------------------------------------------------------
(* Owners.                                                                  *)

\* Mutant: the last checkpoint is written over, whatever its time.
Written_Over(cs, w) == [cs EXCEPT ![Len(cs)].owner = w]

\* _writeOwnershipCheckpoint: the last owner of a second counts.
Written(cs, w) ==
    IF Last(cs).at = now THEN [cs EXCEPT ![Len(cs)].owner = w]
    ELSE Append(cs, [at |-> now, owner |-> w])

Owner(m) == Last(checkpoints[m]).owner

\* ownerAt, for a time since the mint.
OwnerAt(m, t) == checkpoints[m][Max({i \in DOMAIN checkpoints[m] : checkpoints[m][i].at <= t})].owner

TransferMiner(m, w) ==
    /\ w # Owner(m)
    /\ checkpoints' = [checkpoints EXCEPT ![m] = Written(@, w)]
    /\ UNCHANGED <<topLevel, activeUntil, intervals, rateRequests, requestMiner,
                   rate, assignedAt, paid, played>>

-----------------------------------------------------------------------------
(* The rate of a Miner.                                                     *)

\* Mutant: a request that the coordinator refused counts as made.
Deferred_Made == "requested"

Deferred == "queued"

\* _tryRequestRate: the coordinator may refuse the request.
TryRequestRate(m) ==
    \/ /\ RequestWords(provider["passive"], 1)
       /\ rateRequests' = [rateRequests EXCEPT ![m] = "requested"]
       /\ requestMiner' = [requestMiner EXCEPT ![Len(requests) + 1] = m]
    \/ /\ rateRequests' = [rateRequests EXCEPT ![m] = Deferred]
       /\ UNCHANGED <<requestMiner, adapterVars>>

\* queueLevel100, called by the settlement that takes the Miner to the top.
QueueLevel100(m) ==
    /\ "passive" \notin paused
    /\ IF rate[m] = 0 /\ rateRequests[m] = "none" THEN TryRequestRate(m)
       ELSE UNCHANGED <<rateRequests, requestMiner, adapterVars>>

RequestQueuedRate(m) ==
    /\ "passive" \notin paused
    /\ rateRequests[m] = "queued"
    /\ TryRequestRate(m)
    /\ UNCHANGED <<topLevel, checkpoints, activeUntil, intervals, rate, assignedAt, paid, played>>

\* What fulfillRandomness and assignPassiveRate ask for.
PassiveTakes(n) ==
    /\ requestMiner[n] # NoMiner
    /\ requestMiner[n] \in topLevel /\ rate[requestMiner[n]] = 0

\* fulfillRandomness
AssignPassiveRate(n, w) ==
    LET m == requestMiner[n] IN
    /\ requestMiner' = [requestMiner EXCEPT ![n] = NoMiner]
    /\ rateRequests' = [rateRequests EXCEPT ![m] = "none"]
    /\ rate' = [rate EXCEPT ![m] = RateOf[w]]
    /\ assignedAt' = [assignedAt EXCEPT ![m] = now]
    /\ UNCHANGED <<topLevel, checkpoints, activeUntil, intervals, paid, played>>

-----------------------------------------------------------------------------
(* Activity.                                                                *)

Later(a, b) == IF a > b THEN a ELSE b
Earlier(a, b) == IF a < b THEN a ELSE b

\* Mutant: a play after a pause continues the last interval.
Continues_Always(is) == is # <<>>

Continues(is) == is # <<>> /\ now <= Last(is).end

\* recordActivity
Recorded(is, until) ==
    IF Continues(is) THEN [is EXCEPT ![Len(is)].end = Later(@, until)]
    ELSE Append(is, [start |-> now, end |-> until])

\* A settlement of a run that was played to an end; it reaches level 100 or not.
SettlePlay(m, top) ==
    LET until == Later(now + ActivityWindow, activeUntil[m]) IN
    /\ now > 0
    /\ activeUntil' = [activeUntil EXCEPT ![m] = until]
    /\ intervals' = [intervals EXCEPT ![m] = Recorded(@, until)]
    /\ played' = [played EXCEPT ![m] = @ \cup {now}]
    /\ \/ /\ top /\ m \notin topLevel
          /\ topLevel' = topLevel \cup {m}
          /\ QueueLevel100(m)
       \/ /\ ~top
          /\ UNCHANGED <<topLevel, rateRequests, requestMiner, adapterVars>>
    /\ UNCHANGED <<checkpoints, rate, assignedAt, paid>>

-----------------------------------------------------------------------------
(* Payouts.                                                                 *)

Boundary(d) == d * DayLength

\* eligibleSeconds: the intervals are in order and apart.
EligibleSeconds(m, from, to) ==
    LET within == {i \in DOMAIN intervals[m] :
                      intervals[m][i].end > from /\ intervals[m][i].start < to}
    IN  SumFunctionOnSet([i \in DOMAIN intervals[m] |->
                             Earlier(intervals[m][i].end, to) - Later(intervals[m][i].start, from)],
                         within)

EarnsFrom(d, m) == Later(Boundary(d) - DayLength, assignedAt[m])
Crystals(m, seconds) == (rate[m] * seconds * TokenUnit) \div HourLength

Payable(d, m) == paid[d][m] = NotPaid /\ rate[m] # 0 /\ assignedAt[m] < Boundary(d)

\* What _processOne mints for a day, and to whom.
Payout(d, m) ==
    [to |-> OwnerAt(m, Boundary(d)),
     amount |-> Crystals(m, EligibleSeconds(m, EarnsFrom(d, m), Boundary(d)))]

Opens(d, by) == Boundary(d) + IF by = "keeper" THEN 0 ELSE CatchUpDelay

ProcessPayouts(d, S, by) ==
    /\ "passive" \notin paused
    /\ now >= Opens(d, by)
    /\ paid' = [paid EXCEPT ![d] =
         [m \in Miners |-> IF m \in S /\ Payable(d, m) THEN Payout(d, m) ELSE @[m]]]
    /\ UNCHANGED <<topLevel, checkpoints, activeUntil, intervals, rateRequests,
                   requestMiner, rate, assignedAt, played>>

-----------------------------------------------------------------------------
PassiveTypeOK ==
    /\ topLevel \subseteq Miners
    /\ rateRequests \in [Miners -> {"none", "queued", "requested"}]
    /\ requestMiner \in [Ids -> Miners \cup {NoMiner}]
    /\ rate \in [Miners -> Nat] /\ assignedAt \in [Miners -> 0..MaxTime]
    /\ played \in [Miners -> SUBSET (1..MaxTime)]
=============================================================================

-------------------------- MODULE NftLifecycleLock --------------------------
(***************************************************************************)
(* The lock around everything that starts or ends a run of a Miner NFT     *)
(* (src/server/database.js).  Starting a run takes it shared, ending runs   *)
(* administratively takes it exclusive.  Each server process has an         *)
(* AsyncReadWriteGate of its own: two counters and a queue.  Without the    *)
(* PostgreSQL lock pool the gate is the whole lock, and keeps apart only    *)
(* the requests of one process; with it the process                         *)
(* lets one request at a time through its gate, and that request takes a    *)
(* session advisory lock that keeps the processes apart.                    *)
(*                                                                          *)
(* The connection to PostgreSQL can fail in every way the code has a catch  *)
(* or a finally for: no connection, an error from the lock or the unlock    *)
(* query (with the lock taken or not), a session the server drops while     *)
(* the operation goes on, and a process that dies.                          *)
(***************************************************************************)
EXTENDS Integers, SequencesExt, FiniteSets

CONSTANTS
    Processes, Callers,
    HomeOf,         \* the process a request is served by
    ModeOf,         \* "shared" or "exclusive"
    MaxFaults       \* bound on dropped sessions, query errors and crashes

ASSUME CallersAssumption ==
    /\ HomeOf \in [Callers -> Processes]
    /\ ModeOf \in [Callers -> {"shared", "exclusive"}]
    /\ MaxFaults \in Nat
    /\ IsFiniteSet(Callers)

VARIABLES
    lockPool,       \* whether nftLifecycleLockPool is configured
    phase,          \* where each request stands
    activeReaders, activeWriter, waiting,      \* the gate of each process
    locked,         \* requests whose session holds the advisory lock
    pgWaiting,      \* sessions queued for it in PostgreSQL
    lost,           \* requests whose session the server dropped
    closed,         \* sessions destroyed by their client, not yet noticed
    faults

gateVars == <<activeReaders, activeWriter, waiting>>
pgVars   == <<lockPool, locked, pgWaiting, lost, closed>>
lockVars == <<phase, gateVars, pgVars, faults>>

Phases == {"idle", "waiting", "granted", "locking", "running", "unlocking"}
Inside == {"granted", "locking", "running", "unlocking"}

GateMode(r) == IF lockPool THEN "exclusive" ELSE ModeOf[r]
InGate(p)   == {r \in Callers : HomeOf[r] = p /\ phase[r] \in Inside}

Conflict(q, r) == q # r /\ "exclusive" \in {ModeOf[q], ModeOf[r]}

\* Mutant: both modes take the shared advisory lock.
AdvisoryMode_Shared(r) == "shared"

\* pg_advisory_lock or pg_advisory_lock_shared, by the caller's mode.
AdvisoryMode(r) == ModeOf[r]

LockInit ==
    /\ lockPool \in BOOLEAN
    /\ phase = [r \in Callers |-> "idle"]
    /\ activeReaders = [p \in Processes |-> 0]
    /\ activeWriter = [p \in Processes |-> FALSE]
    /\ waiting = [p \in Processes |-> <<>>]
    /\ locked = {} /\ pgWaiting = <<>> /\ lost = {} /\ closed = {}
    /\ faults = 0

-----------------------------------------------------------------------------
(* The gate.                                                                *)

\* Mutant: a newcomer may pass the queue.
Passable_Overtakes(p, m) ==
    /\ ~activeWriter[p]
    /\ m = "shared" \/ activeReaders[p] = 0

Passable(p, m) ==
    /\ waiting[p] = <<>>
    /\ ~activeWriter[p]
    /\ m = "shared" \/ activeReaders[p] = 0

\* Mutant: a drain lets in one reader only.
Admitted_OneOnly(q) == IF q = <<>> THEN 0 ELSE 1

\* The requests a drain lets in: the writer at the head, or the readers in front.
Admitted(q) ==
    IF q = <<>> THEN 0
    ELSE IF GateMode(q[1]) = "exclusive" THEN 1
    ELSE CHOOSE k \in 1..Len(q) :
           /\ \A i \in 1..k : GateMode(q[i]) = "shared"
           /\ k < Len(q) => GateMode(q[k + 1]) # "shared"

\* Leaving the gate of p with these counters left, and draining its queue.
Drain(p, readers, after) ==
    LET q == waiting[p]
        k == IF readers > 0 THEN 0 ELSE Admitted(q)
        admits == {q[i] : i \in 1..k}
        writer == k > 0 /\ GateMode(q[1]) = "exclusive"
    IN  /\ waiting' = [waiting EXCEPT ![p] = SubSeq(q, k + 1, Len(q))]
        /\ activeWriter' = [activeWriter EXCEPT ![p] = writer]
        /\ activeReaders' = [activeReaders EXCEPT ![p] =
                                readers + IF writer THEN 0 ELSE k]
        /\ phase' = [s \in Callers |-> IF s \in admits THEN "granted" ELSE after[s]]

Leave(r) ==
    LET p == HomeOf[r]
    IN  Drain(p, IF GateMode(r) = "shared" THEN activeReaders[p] - 1 ELSE activeReaders[p],
              [phase EXCEPT ![r] = "idle"])

\* Mutant: the newest request goes first.
Enqueue_Front(q, r) == <<r>> \o q

Enqueue(q, r) == Append(q, r)

Call(r) ==
    LET p == HomeOf[r] IN
    /\ phase[r] = "idle" /\ r \notin closed
    /\ IF Passable(p, GateMode(r))
       THEN /\ IF GateMode(r) = "shared"
               THEN /\ activeReaders' = [activeReaders EXCEPT ![p] = @ + 1]
                    /\ UNCHANGED activeWriter
               ELSE /\ activeWriter' = [activeWriter EXCEPT ![p] = TRUE]
                    /\ UNCHANGED activeReaders
            /\ phase' = [phase EXCEPT ![r] = "granted"]
            /\ UNCHANGED waiting
       ELSE /\ waiting' = [waiting EXCEPT ![p] = Enqueue(@, r)]
            /\ phase' = [phase EXCEPT ![r] = "waiting"]
            /\ UNCHANGED <<activeReaders, activeWriter>>
    /\ UNCHANGED <<pgVars, faults>>

-----------------------------------------------------------------------------
(* The operation under the lock.                                            *)

StartUnpooled(r) ==
    /\ ~lockPool /\ phase[r] = "granted"
    /\ phase' = [phase EXCEPT ![r] = "running"]
    /\ UNCHANGED <<gateVars, pgVars, faults>>

FinishUnpooled(r) ==
    /\ ~lockPool /\ phase[r] = "running"
    /\ Leave(r)
    /\ UNCHANGED <<pgVars, faults>>

\* A dedicated connection, and pg_advisory_lock(_shared) sent on it.
Connect(r) ==
    /\ lockPool /\ phase[r] = "granted"
    /\ phase' = [phase EXCEPT ![r] = "locking"]
    /\ pgWaiting' = Append(pgWaiting, r)
    /\ UNCHANGED <<gateVars, lockPool, locked, lost, closed, faults>>

\* PostgreSQL grants in order, as soon as no other session is in the way.
Grant ==
    /\ pgWaiting # <<>>
    /\ \A q \in locked \ {Head(pgWaiting)} :
          "exclusive" \notin {AdvisoryMode(q), AdvisoryMode(Head(pgWaiting))}
    /\ locked' = locked \cup {Head(pgWaiting)}
    /\ pgWaiting' = Tail(pgWaiting)
    /\ UNCHANGED <<phase, gateVars, lockPool, lost, closed, faults>>

LockAnswered(r) ==
    /\ phase[r] = "locking" /\ r \in locked
    /\ phase' = [phase EXCEPT ![r] = "running"]
    /\ UNCHANGED <<gateVars, pgVars, faults>>

Finish(r) ==
    /\ lockPool /\ phase[r] = "running"
    /\ phase' = [phase EXCEPT ![r] = "unlocking"]
    /\ UNCHANGED <<gateVars, pgVars, faults>>

Unlock(r) ==
    /\ phase[r] = "unlocking" /\ r \in locked
    /\ locked' = locked \ {r}
    /\ Leave(r)
    /\ UNCHANGED <<lockPool, pgWaiting, lost, closed, faults>>

\* client.release(error): the pool destroys the connection.
Destroyed(r) ==
    /\ closed' = closed \cup {r}
    /\ lost' = lost \ {r}
    /\ UNCHANGED <<lockPool, locked, pgWaiting>>

ConnectFails(r) ==
    /\ lockPool /\ phase[r] = "granted" /\ faults < MaxFaults
    /\ faults' = faults + 1
    /\ Leave(r)
    /\ UNCHANGED pgVars

\* The lock or the unlock query ends in an error.
QueryFails(r) ==
    /\ phase[r] \in {"locking", "unlocking"}
    /\ \/ r \in lost /\ UNCHANGED faults
       \/ r \notin lost /\ faults < MaxFaults /\ faults' = faults + 1
    /\ Destroyed(r)
    /\ Leave(r)

-----------------------------------------------------------------------------
(* PostgreSQL and the processes failing.                                    *)

\* The server forgets a session: its lock, and its place in the queue.
Forget(r) ==
    /\ locked' = locked \ {r}
    /\ IF \E i \in DOMAIN pgWaiting : pgWaiting[i] = r
       THEN \E i \in DOMAIN pgWaiting : /\ pgWaiting[i] = r
                                        /\ pgWaiting' = RemoveAt(pgWaiting, i)
       ELSE UNCHANGED pgWaiting

SessionLost(r) ==
    /\ lockPool /\ phase[r] \in {"locking", "running", "unlocking"}
    /\ r \notin lost /\ faults < MaxFaults
    /\ faults' = faults + 1
    /\ Forget(r)
    /\ lost' = lost \cup {r}
    /\ UNCHANGED <<phase, gateVars, lockPool, closed>>

Reap(r) ==
    /\ r \in closed
    /\ closed' = closed \ {r}
    /\ Forget(r)
    /\ UNCHANGED <<phase, gateVars, lockPool, lost, faults>>

Crash(p) ==
    /\ faults < MaxFaults
    /\ faults' = faults + 1
    /\ phase' = [r \in Callers |-> IF HomeOf[r] = p THEN "idle" ELSE phase[r]]
    /\ activeReaders' = [activeReaders EXCEPT ![p] = 0]
    /\ activeWriter' = [activeWriter EXCEPT ![p] = FALSE]
    /\ waiting' = [waiting EXCEPT ![p] = <<>>]
    /\ lost' = {r \in lost : HomeOf[r] # p}
    /\ closed' = closed \cup
         {r \in Callers : HomeOf[r] = p /\ phase[r] \in {"locking", "running", "unlocking"} /\ lockPool}
    /\ UNCHANGED <<lockPool, locked, pgWaiting>>

LockNext ==
    \/ \E r \in Callers :
          \/ Call(r) \/ StartUnpooled(r) \/ FinishUnpooled(r) \/ Connect(r)
          \/ LockAnswered(r) \/ Finish(r) \/ Unlock(r) \/ ConnectFails(r)
          \/ QueryFails(r) \/ SessionLost(r) \/ Reap(r)
    \/ Grant
    \/ \E p \in Processes : Crash(p)

LockSpec == LockInit /\ [][LockNext]_lockVars

(* The event loop runs what it can; every operation under the lock ends;    *)
(* PostgreSQL grants, answers and notices closed connections.  Nothing has  *)
(* to fail, and nobody has to call.                                         *)
LockFairness ==
    /\ WF_lockVars(Grant)
    /\ \A r \in Callers :
          /\ WF_lockVars(StartUnpooled(r)) /\ WF_lockVars(FinishUnpooled(r))
          /\ WF_lockVars(Connect(r)) /\ WF_lockVars(LockAnswered(r)) /\ WF_lockVars(Finish(r))
          /\ WF_lockVars(Unlock(r)) /\ WF_lockVars(Reap(r))
          /\ WF_lockVars(QueryFails(r) /\ r \in lost)

LiveSpec == LockSpec /\ LockFairness

-----------------------------------------------------------------------------
(* The counters of a gate never go below zero, and its queue and            *)
(* PostgreSQL's hold requests (AsyncReadWriteGate's fields).                *)
LockTypeOK ==
    /\ phase \in [Callers -> Phases]
    /\ activeReaders \in [Processes -> Nat]
    /\ activeWriter \in [Processes -> BOOLEAN]
    /\ waiting \in [Processes -> Seq(Callers)]
    /\ locked \subseteq Callers /\ lost \subseteq Callers /\ closed \subseteq Callers
    /\ pgWaiting \in Seq(Callers)
    /\ faults \in 0..MaxFaults

(* No wake-up is lost: a request waits only while someone is inside whose   *)
(* leaving will drain the queue, and a reader is never kept at the head of  *)
(* the queue by other readers.                                              *)
NoLostWakeup ==
    \A p \in Processes : waiting[p] # <<>> =>
        /\ InGate(p) # {}
        /\ GateMode(Head(waiting[p])) = "shared" => activeWriter[p]

(* An exclusive operation runs alone, on all processes with the lock pool   *)
(* and on its own without, whatever failed before, except beside one whose  *)
(* own session PostgreSQL dropped under it.                                 *)
LifecycleExclusion ==
    \A q, r \in Callers :
        /\ Conflict(q, r) /\ (lockPool \/ HomeOf[q] = HomeOf[r])
        /\ phase[q] = "running" /\ phase[r] = "running"
        => q \in lost \/ r \in lost

(* First come, first served: nobody enters a gate past a request that was   *)
(* waiting there and still waits.                                           *)
Overtakes(q, r) ==
    /\ phase[q] \notin Inside /\ phase'[q] \in Inside
    /\ phase[r] = "waiting" /\ phase'[r] = "waiting"
    /\ HomeOf[q] = HomeOf[r]
    /\ \A i \in DOMAIN waiting[HomeOf[q]] : waiting[HomeOf[q]][i] = q =>
          \E j \in 1..i : waiting[HomeOf[q]][j] = r
FirstComeFirstServed == [][\A q, r \in Callers : ~Overtakes(q, r)]_lockVars

(* Every call ends: the operation runs, or the caller is told of an error.  *)
EveryCallServed ==
    \A r \in Callers : phase[r] \in {"waiting", "granted", "locking"}
                        ~> phase[r] \in {"running", "idle"}
=============================================================================

----------------------------- MODULE VrfAdapter -----------------------------
(***************************************************************************)
(* MattMineVRFV25Adapter: a contract that asks the Ronin VRF coordinator for *)
(* one random word at a time on behalf of its single consumer, keeps the     *)
(* word if the consumer cannot take it yet, and lets the consumer cancel a   *)
(* request that has no word.  The chests and the passive rewards each have   *)
(* adapters of their own; the coordinator numbers all requests.              *)
(*                                                                          *)
(* The coordinator answers a request once, late or never.  Ownership of the  *)
(* adapter, gas limits and the proof of a word are left out.  The pause and  *)
(* the provider of the two consumers are here because they have them in      *)
(* common (MattV2UpgradeableModule, setRandomnessProvider).                  *)
(***************************************************************************)
EXTENDS Sums, Sequences

CONSTANTS
    Adapters,
    Consumers, ConsumerOf,  \* the contract an adapter was configured for
    FirstProvider,          \* the adapter a consumer is deployed with
    Pausable,               \* the consumers and the contracts they mint with
    Words, NoWord,          \* random words, and that there is none yet
    MaxRequests, MaxTime    \* bounds: requests of the coordinator, the clock

ASSUME AdapterAssumption ==
    /\ ConsumerOf \in [Adapters -> Consumers]
    /\ FirstProvider \in [Consumers -> Adapters]
    /\ \A c \in Consumers : ConsumerOf[FirstProvider[c]] = c
    /\ Consumers \subseteq Pausable /\ NoWord \notin Words
    /\ MaxRequests \in Nat /\ MaxTime \in Nat

VARIABLES
    now,
    paused,         \* contracts that are paused
    provider,       \* randomnessProvider of each consumer
    requests,       \* what the adapters keep of each request, by its number
    outstanding     \* outstandingRequests of each adapter

adapterVars == <<requests, outstanding>>
moduleVars  == <<paused, provider>>

Ids == 1..MaxRequests
Asked == DOMAIN requests

WordRequests == [adapter : Adapters, word : Words \cup {NoWord}, delivered : BOOLEAN, cancelled : BOOLEAN]

AdapterInit ==
    /\ now = 0
    /\ paused = Pausable
    /\ provider = FirstProvider
    /\ requests = <<>>
    /\ outstanding = [a \in Adapters |-> 0]

Answered(n) == requests[n].word # NoWord
Waiting(n)  == ~requests[n].delivered /\ ~requests[n].cancelled

\* requestRandomWord, k times in one transaction.
RequestWords(a, k) ==
    /\ Len(requests) + k <= MaxRequests
    /\ requests' = requests \o
         [i \in 1..k |-> [adapter |-> a, word |-> NoWord, delivered |-> FALSE, cancelled |-> FALSE]]
    /\ outstanding' = [outstanding EXCEPT ![a] = @ + k]

\* rawFulfillRandomWords, the consumer having taken the word or not.
Receive(n, w, taken) ==
    /\ ~Answered(n)
    /\ requests' = [requests EXCEPT ![n] = [@ EXCEPT !.word = w, !.delivered = taken]]
    /\ outstanding' = [outstanding EXCEPT ![requests[n].adapter] = IF taken THEN @ - 1 ELSE @]

\* retryFulfillment, the consumer taking the word.
Redeliver(n) ==
    /\ Answered(n) /\ Waiting(n)
    /\ requests' = [requests EXCEPT ![n].delivered = TRUE]
    /\ outstanding' = [outstanding EXCEPT ![requests[n].adapter] = @ - 1]

\* cancelRequest
CancelRequest(n) ==
    /\ ~Answered(n) /\ ~requests[n].cancelled
    /\ requests' = [requests EXCEPT ![n].cancelled = TRUE]
    /\ outstanding' = [outstanding EXCEPT ![requests[n].adapter] = @ - 1]

-----------------------------------------------------------------------------
(* Pauses, and the adapter in use.                                          *)

SetPaused(c) ==
    /\ paused' = IF c \in paused THEN paused \ {c} ELSE paused \cup {c}
    /\ UNCHANGED <<provider, adapterVars>>

\* An adapter configured for another consumer would refuse every request.
SetRandomnessProvider(c, a) ==
    /\ c \in paused /\ ConsumerOf[a] = c /\ a # provider[c]
    /\ provider' = [provider EXCEPT ![c] = a]
    /\ UNCHANGED <<paused, adapterVars>>

-----------------------------------------------------------------------------
AdapterTypeOK ==
    /\ now \in 0..MaxTime
    /\ paused \subseteq Pausable /\ provider \in [Consumers -> Adapters]
    /\ Len(requests) <= MaxRequests
    /\ requests \in Seq(WordRequests)
    /\ outstanding \in [Adapters -> Nat]

\* The adapter counts its requests that can still be delivered or cancelled.
Counts(a) == [n \in Ids |-> IF n \in Asked /\ requests[n].adapter = a /\ Waiting(n) THEN 1 ELSE 0]
=============================================================================

------------------------ MODULE MCNftLifecycleLock ------------------------
(* Two processes, with and without the lock pool: two starts and a          *)
(* termination on one, a start and a termination on the other.              *)
EXTENDS NftLifecycleLock

CONSTANTS p1, p2, s1, s2, s3, x1, x2

Homes == [r \in Callers |-> IF r \in {s3, x2} THEN p2 ELSE p1]
Modes == [r \in Callers |-> IF r \in {x1, x2} THEN "exclusive" ELSE "shared"]
=============================================================================

---------------------------- MODULE SumsTheorems ----------------------------
(***************************************************************************)
(* Facts about sums, in the two forms the project has them.  IsSum adds     *)
(* parts that are numbered: its ladder is shifted above the rung that       *)
(* changes.  SumFunctionOnSet adds over any finite set: it is a fold, and    *)
(* what it computes is shown by induction.  The induction theorems of the    *)
(* library take a predicate, which cannot be instantiated; that every set    *)
(* with a well-founded order has a least element (WFMin) says the same of a  *)
(* set of numbers or of subsets.                                            *)
(***************************************************************************)
EXTENDS Sums, Functions, FiniteSetTheorems, WellFoundedInduction, TLAPS

(* Numbered parts.                                                          *)

\* Nothing but zeros sums to zero: the books of a new contract balance.
LEMMA SumZero ==
    ASSUME NEW n \in Nat, NEW f, \A i \in 1..n : f[i] = 0
    PROVE  IsSum(f, n, 0)
<1> DEFINE h == [i \in 0..n |-> 0]
<1>1. h \in [0..n -> 0..0]
  OBVIOUS
<1>2. IsLadder(h, f, n) /\ h[n] = 0
  BY DEF IsLadder
<1> QED
  BY <1>1, <1>2 DEF IsSum

\* A part is never more than the whole.
LEMMA SumBounds ==
    ASSUME NEW n \in Nat, NEW f \in [1..n -> Nat], NEW total \in Nat,
           IsSum(f, n, total), NEW k \in 1..n
    PROVE  f[k] <= total
<1>1. PICK h \in [0..n -> 0..total] : IsLadder(h, f, n) /\ h[n] = total
  BY DEF IsSum
<1>2. h[k] = h[k - 1] + f[k] /\ k - 1 \in 0..n /\ k \in 0..n /\ n \in 0..n
  BY <1>1 DEF IsLadder
<1>3. h[k] <= h[n] /\ h[k - 1] >= 0
  BY <1>1, <1>2 DEF IsLadder
<1> QED
  BY <1>1, <1>2, <1>3

\* Changing one part changes the whole by the same amount: what every booking
\* of the contracts relies on when it updates a part and the total side by side.
LEMMA SumUpdate ==
    ASSUME NEW n \in Nat, NEW f \in [1..n -> Nat], NEW total \in Nat,
           IsSum(f, n, total), NEW k \in 1..n, NEW g \in [1..n -> Nat],
           \A i \in 1..n \ {k} : g[i] = f[i]
    PROVE  /\ total - f[k] + g[k] \in Nat
           /\ IsSum(g, n, total - f[k] + g[k])
<1>1. PICK h \in [0..n -> 0..total] : IsLadder(h, f, n) /\ h[n] = total
  BY DEF IsSum
<1> DEFINE whole == total - f[k] + g[k]
           up == [i \in 0..n |-> IF i < k THEN h[i] ELSE h[i] - f[k] + g[k]]
<1>2. f[k] <= total
  BY SumBounds
<1>3. whole \in Nat
  BY <1>2
<1>4. \A i \in 0..n : h[i] \in Nat /\ h[i] <= total
  BY <1>1
<1>5. h[k] = h[k - 1] + f[k]
  BY <1>1 DEF IsLadder
<1>6. \A i \in 0..n : i < k => h[i] <= h[k - 1]
  BY <1>1 DEF IsLadder
<1>7. \A i \in 0..n : i >= k => h[k] <= h[i]
  BY <1>1 DEF IsLadder
<1>8. up[n] = whole
  BY <1>1
<1>9. \A i, j \in 0..n : i <= j => up[i] <= up[j]
  <2> SUFFICES ASSUME NEW i \in 0..n, NEW j \in 0..n, i <= j
               PROVE  up[i] <= up[j]
    OBVIOUS
  <2>1. h[i] <= h[j] /\ h[i] \in Nat /\ h[j] \in Nat /\ h[k - 1] \in Nat
    BY <1>1, <1>4 DEF IsLadder
  <2>2. CASE j < k
    BY <2>1, <2>2
  <2>3. CASE i >= k
    BY <2>1, <2>3
  <2>4. CASE i < k /\ j >= k
    BY <2>1, <2>4, <1>5, <1>6, <1>7, k \in 0..n
  <2> QED
    BY <2>2, <2>3, <2>4
<1>10. \A i \in 0..n : up[i] \in 0..whole
  <2> SUFFICES ASSUME NEW i \in 0..n PROVE up[i] \in 0..whole
    OBVIOUS
  <2>1. up[i] <= whole
    BY <1>8, <1>9
  <2>2. up[i] \in Nat
    BY <1>4, <1>5, <1>7, k - 1 \in 0..n, k \in 0..n
  <2> QED
    BY <1>3, <2>1, <2>2
<1>11. up \in [0..n -> 0..whole]
  BY <1>10
<1>12. \A i \in 1..n : up[i] = up[i - 1] + g[i]
  <2> SUFFICES ASSUME NEW i \in 1..n PROVE up[i] = up[i - 1] + g[i]
    OBVIOUS
  <2>1. h[i] = h[i - 1] + f[i] /\ h[i] \in Nat /\ h[i - 1] \in Nat
    BY <1>1, <1>4 DEF IsLadder
  <2>2. CASE i = k
    BY <2>1, <2>2
  <2>3. CASE i < k
    BY <2>1, <2>3
  <2>4. CASE i > k
    <3>1. ~(i < k) /\ ~(i - 1 < k) /\ i \in 0..n /\ i - 1 \in 0..n
      BY <2>4
    <3>2. up[i] = h[i] - f[k] + g[k] /\ up[i - 1] = h[i - 1] - f[k] + g[k]
      BY <3>1
    <3>3. f[k] \in Nat /\ g[k] \in Nat /\ f[i] \in Nat /\ g[i] = f[i]
      BY <2>4
    <3> HIDE DEF up
    <3> QED
      BY <2>1, <3>2, <3>3
  <2> QED
    BY <2>2, <2>3, <2>4
<1>13. up[0] = 0
  BY <1>1 DEF IsLadder
<1>14. IsLadder(up, g, n)
  BY <1>9, <1>12, <1>13 DEF IsLadder
<1> QED
  BY <1>3, <1>8, <1>11, <1>14 DEF IsSum

\* Two parts are never more than the whole together.
LEMMA SumOfTwo ==
    ASSUME NEW n \in Nat, NEW f \in [1..n -> Nat], NEW total \in Nat,
           IsSum(f, n, total), NEW j \in 1..n, NEW k \in 1..n, j < k
    PROVE  f[j] + f[k] <= total
<1>1. PICK h \in [0..n -> 0..total] : IsLadder(h, f, n) /\ h[n] = total
  BY DEF IsSum
<1>2. h[k] = h[k - 1] + f[k] /\ h[j] = h[j - 1] + f[j]
  BY <1>1 DEF IsLadder
<1>3. h[k] <= h[n] /\ h[j] <= h[k - 1] /\ h[j - 1] >= 0
  BY <1>1, j - 1 \in 0..n, k - 1 \in 0..n, j \in 0..n, k \in 0..n, n \in 0..n DEF IsLadder
<1> QED
  BY <1>1, <1>2, <1>3, j - 1 \in 0..n, k - 1 \in 0..n, j \in 0..n, k \in 0..n

\* The sum depends on the values summed and on nothing else.
LEMMA SumEqual ==
    ASSUME NEW n \in Nat, NEW f, NEW g, NEW total,
           IsSum(f, n, total), \A i \in 1..n : g[i] = f[i]
    PROVE  IsSum(g, n, total)
BY DEF IsSum, IsLadder

(* k neighbouring parts grow by x each: a batch of purchases.               *)
Raises(g, f, n, low, k, x) ==
    \A i \in 1..n : g[i] = IF i > low /\ i <= low + k THEN f[i] + x ELSE f[i]

LEMMA SumBlock ==
    ASSUME NEW n \in Nat, NEW f \in [1..n -> Nat], NEW total \in Nat,
           IsSum(f, n, total), NEW low \in Nat, NEW k \in Nat, NEW x \in Nat, low + k <= n,
           NEW g, Raises(g, f, n, low, k, x)
    PROVE  total + x * k \in Nat /\ IsSum(g, n, total + x * k)
<1>1. PICK h \in [0..n -> 0..total] : IsLadder(h, f, n) /\ h[n] = total
  BY DEF IsSum
<1> DEFINE rungs(i) == IF i <= low THEN 0 ELSE IF i <= low + k THEN i - low ELSE k
           climb == [i \in 0..n |-> h[i] + x * rungs(i)]
<1>2. \A i \in 0..n : rungs(i) \in 0..k
  OBVIOUS
<1>3. \A a, b \in Nat : a <= b => x * a \in Nat /\ x * b \in Nat /\ x * a <= x * b
  OBVIOUS
<1>4. \A a \in Nat : x * (a + 1) = x * a + x
  OBVIOUS
<1>5. /\ rungs(0) = 0 /\ rungs(n) = k
      /\ \A i, j \in 0..n : i <= j => rungs(i) <= rungs(j)
      /\ \A i \in 1..n : rungs(i) = IF i > low /\ i <= low + k THEN rungs(i - 1) + 1 ELSE rungs(i - 1)
  OBVIOUS
<1> HIDE DEF rungs
<1>6. \A i \in 0..n : x * rungs(i) \in Nat /\ x * rungs(i) <= x * k
  BY <1>2, <1>3
<1>7. climb \in [0..n -> 0..(total + x * k)]
  <2>1. \A i \in 0..n : h[i] + x * rungs(i) \in 0..(total + x * k)
    BY <1>1, <1>6
  <2> QED
    BY <2>1
<1>8. x * 0 = 0 /\ climb[0] = 0 /\ climb[n] = total + x * k
  BY <1>1, <1>5 DEF IsLadder
<1>9. \A i \in 1..n : climb[i] = climb[i - 1] + g[i]
  <2> SUFFICES ASSUME NEW i \in 1..n PROVE climb[i] = climb[i - 1] + g[i]
    OBVIOUS
  <2>1. i - 1 \in 0..n /\ i \in 0..n /\ h[i] = h[i - 1] + f[i] /\ h[i - 1] \in Nat /\ f[i] \in Nat
    BY <1>1 DEF IsLadder
  <2>2. x * rungs(i) = IF i > low /\ i <= low + k THEN x * rungs(i - 1) + x ELSE x * rungs(i - 1)
    <3>1. rungs(i - 1) \in Nat
      BY <1>2, <2>1
    <3>2. x * (rungs(i - 1) + 1) = x * rungs(i - 1) + x
      BY <1>4, <3>1
    <3>3. rungs(i) = IF i > low /\ i <= low + k THEN rungs(i - 1) + 1 ELSE rungs(i - 1)
      BY <1>5
    <3> QED
      BY <3>2, <3>3
  <2>3. x * rungs(i - 1) \in Nat
    BY <1>6, <2>1
  <2>4. climb[i] = h[i] + x * rungs(i) /\ climb[i - 1] = h[i - 1] + x * rungs(i - 1)
    BY <2>1
  <2>5. g[i] = IF i > low /\ i <= low + k THEN f[i] + x ELSE f[i]
    BY DEF Raises
  <2> HIDE DEF climb
  <2> QED
    BY <2>1, <2>2, <2>3, <2>4, <2>5
<1>10. \A i, j \in 0..n : i <= j => climb[i] <= climb[j]
  <2> SUFFICES ASSUME NEW i \in 0..n, NEW j \in 0..n, i <= j PROVE climb[i] <= climb[j]
    OBVIOUS
  <2>1. h[i] <= h[j] /\ h[i] \in Nat /\ h[j] \in Nat
    BY <1>1 DEF IsLadder
  <2>2. x * rungs(i) <= x * rungs(j) /\ x * rungs(i) \in Nat /\ x * rungs(j) \in Nat
    <3>1. rungs(i) <= rungs(j) /\ rungs(i) \in Nat /\ rungs(j) \in Nat
      BY <1>2, <1>5
    <3> QED
      BY <1>3, <3>1
  <2> QED
    BY <2>1, <2>2
<1>11. total + x * k \in Nat
  <2>1. k <= k
    OBVIOUS
  <2>2. x * k \in Nat
    BY <1>3, <2>1
  <2>3. \A a, b \in Nat : a + b \in Nat
    OBVIOUS
  <2> QED
    BY <2>2, <2>3, Zenon
<1> HIDE DEF climb
<1>12. IsLadder(climb, g, n)
  BY <1>8, <1>9, <1>10 DEF IsLadder
<1> QED
  BY <1>7, <1>8, <1>11, <1>12 DEF IsSum

-----------------------------------------------------------------------------
(* Sums over a finite set.                                                  *)

(* Induction without a predicate to instantiate: a family of subsets of S    *)
(* that holds {} and grows by any element holds S itself.                    *)
LEMMA FamilyInduction ==
    ASSUME NEW S, IsFiniteSet(S), NEW F, {} \in F,
           \A T \in SUBSET S : \A x \in S \ T : T \in F => T \cup {x} \in F
    PROVE  \A T \in SUBSET S : T \in F
<1> DEFINE bad == {T \in SUBSET S : T \notin F}
<1>1. SUFFICES ASSUME bad # {} PROVE FALSE
  OBVIOUS
<1>2. bad \subseteq FiniteSubsetsOf(S)
  BY FS_FiniteSubsetsOfFinite, Zenon
<1> DEFINE R == StrictSubsetOrdering(S)
<1>3. IsWellFoundedOn(R, FiniteSubsetsOf(S))
  BY FS_StrictSubsetOrderingWellFounded, Zenon
<1>4. \A U, T \in SUBSET S : U \subseteq T /\ U # T => <<U, T>> \in R
  BY DEF StrictSubsetOrdering
<1>5. \E T \in bad : \A U \in bad : ~ (<<U, T>> \in R)
  <2> HIDE DEF bad, R
  <2> QED
    BY <1>1, <1>2, <1>3, WFMin, Zenon
<1>6. PICK T \in bad : \A U \in bad : ~ (<<U, T>> \in R)
  BY <1>5
<1>7. T \in SUBSET S /\ T \notin F
  OBVIOUS
<1>8. PICK x \in T : TRUE
  BY <1>7
<1>9. T \ {x} \in SUBSET S /\ T \ {x} # T /\ T \ {x} \subseteq T
  BY <1>7, <1>8
<1>10. T \ {x} \in F
  BY <1>4, <1>6, <1>7, <1>9
<1>11. (T \ {x}) \cup {x} = T
  BY <1>8
<1> QED
  BY <1>7, <1>8, <1>9, <1>10, <1>11


\* The same for numbers: a set that holds 0 and every successor holds them all.
LEMMA NumberInduction ==
    ASSUME NEW F, 0 \in F, \A n \in Nat : n \in F => n + 1 \in F
    PROVE  \A n \in Nat : n \in F
<1> DEFINE bad == {n \in Nat : n \notin F}
           R == {ss \in Nat \X Nat : ss[1] < ss[2]}
<1>1. SUFFICES ASSUME bad # {} PROVE FALSE
  OBVIOUS
<1>2. IsWellFoundedOn(R, Nat)
  BY NatLessThanWellFounded DEF OpToRel
<1>3. \A x, y \in Nat : y < x => <<y, x>> \in R
  OBVIOUS
<1>4. bad \subseteq Nat
  OBVIOUS
<1>5. \E n \in bad : \A k \in bad : ~ (<<k, n>> \in R)
  <2> HIDE DEF bad, R
  <2> QED
    BY <1>1, <1>2, <1>4, WFMin, Zenon
<1>6. PICK n \in bad : \A k \in bad : ~ (<<k, n>> \in R)
  BY <1>5
<1>7. n \in Nat /\ n \notin F /\ n # 0
  OBVIOUS
<1>8. n - 1 \in Nat /\ n - 1 < n /\ (n - 1) + 1 = n
  BY <1>7
<1>9. n - 1 \in F
  <2> HIDE DEF R
  <2> QED
    BY <1>3, <1>6, <1>7, <1>8
<1> QED
  BY <1>7, <1>8, <1>9

Rest(T) == T \ {CHOOSE x \in T : TRUE}

\* One step of the fold that SumFunctionOnSet is.
Step(g, f, T) == IF T = {} THEN 0 ELSE f[CHOOSE x \in T : TRUE] + g[Rest(T)]

Steps(g, f, S) == g = [T \in SUBSET S |-> Step(g, f, T)]

Small(S, n) == {T \in SUBSET S : Cardinality(T) <= n}

LEMMA SumIsSteps ==
    ASSUME NEW f, NEW S
    PROVE  SumFunctionOnSet(f, S) = (CHOOSE g : Steps(g, f, S))[S]
BY DEF SumFunctionOnSet, FoldFunctionOnSet, MapThenFoldSet, Steps, Step, Rest

LEMMA RestIsSmaller ==
    ASSUME NEW T, IsFiniteSet(T), T # {}
    PROVE  /\ Rest(T) \subseteq T /\ IsFiniteSet(Rest(T))
           /\ Cardinality(Rest(T)) = Cardinality(T) - 1
           /\ Cardinality(T) \in Nat /\ Cardinality(Rest(T)) \in Nat
<1>1. (CHOOSE x \in T : TRUE) \in T
  OBVIOUS
<1> QED
  BY <1>1, FS_RemoveElement, FS_CardinalityType DEF Rest

\* The fold exists ...
LEMMA StepsExist ==
    ASSUME NEW f, NEW S, IsFiniteSet(S)
    PROVE  \E g : Steps(g, f, S)
<1> DEFINE upTo(g, n) == g = [T \in Small(S, n) |-> Step(g, f, T)]
           F == {n \in Nat : \E g : upTo(g, n)}
<1>1. \A T \in SUBSET S : IsFiniteSet(T) /\ Cardinality(T) \in Nat /\ Cardinality(T) <= Cardinality(S)
  BY FS_Subset, FS_CardinalityType
<1>2. 0 \in F
  <2> DEFINE g == [T \in Small(S, 0) |-> 0]
  <2>1. \A T \in Small(S, 0) : T = {}
    BY <1>1, FS_EmptySet DEF Small
  <2>2. \A T \in Small(S, 0) : Step(g, f, T) = 0
    BY <2>1 DEF Step
  <2>3. upTo(g, 0)
    BY <2>2
  <2> QED
    BY <2>3
<1>3. ASSUME NEW n \in Nat, n \in F PROVE n + 1 \in F
  <2>1. PICK g : upTo(g, n)
    BY <1>3
  <2> DEFINE h == [T \in Small(S, n + 1) |-> Step(g, f, T)]
  <2>2. \A T \in Small(S, n + 1) : T # {} => Rest(T) \in Small(S, n) /\ Rest(T) \in Small(S, n + 1)
    BY <1>1, RestIsSmaller DEF Small
  <2>3. \A T \in Small(S, n) : T \in Small(S, n + 1)
    BY <1>1 DEF Small
  <2>4. \A T \in Small(S, n) : h[T] = g[T]
    BY <2>1, <2>3
  <2>5. \A T \in Small(S, n + 1) : Step(h, f, T) = Step(g, f, T)
    <3> HIDE DEF h
    <3> QED
      BY <2>2, <2>4 DEF Step
  <2>6. upTo(h, n + 1)
    BY <2>5
  <2> HIDE DEF h, upTo
  <2> QED
    BY <2>6, n + 1 \in Nat
<1> HIDE DEF F
<1>4. \A n \in Nat : n \in F
  BY <1>2, <1>3, NumberInduction
<1>5. Cardinality(S) \in F
  BY <1>1, <1>4, S \in SUBSET S
<1>6. Small(S, Cardinality(S)) = SUBSET S
  BY <1>1 DEF Small
<1> QED
  BY <1>5, <1>6 DEF F, Steps

\* ... and is the only one.
LEMMA StepsAgree ==
    ASSUME NEW f, NEW S, IsFiniteSet(S), NEW g, Steps(g, f, S), NEW U \in SUBSET S,
           NEW h, Steps(h, f, U)
    PROVE  g[U] = h[U]
<1> DEFINE F == {n \in Nat : \A T \in SUBSET U : Cardinality(T) = n => g[T] = h[T]}
<1>1. \A T \in SUBSET U : IsFiniteSet(T) /\ Cardinality(T) \in Nat /\ T \in SUBSET S
  BY FS_Subset, FS_CardinalityType
<1>2. \A T \in SUBSET U : g[T] = Step(g, f, T) /\ h[T] = Step(h, f, T)
  BY <1>1 DEF Steps
<1>3. 0 \in F
  <2>1. \A T \in SUBSET U : Cardinality(T) = 0 => T = {}
    BY <1>1, FS_EmptySet
  <2> QED
    BY <1>2, <2>1 DEF Step
<1>4. ASSUME NEW n \in Nat, n \in F PROVE n + 1 \in F
  <2> SUFFICES ASSUME NEW T \in SUBSET U, Cardinality(T) = n + 1 PROVE g[T] = h[T]
    OBVIOUS
  <2>1. T # {}
    BY FS_EmptySet
  <2>2. Rest(T) \in SUBSET U /\ Cardinality(Rest(T)) = n
    BY <1>1, <2>1, RestIsSmaller
  <2>3. g[Rest(T)] = h[Rest(T)]
    BY <1>4, <2>2
  <2> QED
    BY <1>2, <2>1, <2>3 DEF Step
<1> HIDE DEF F
<1>5. Cardinality(U) \in F
  BY <1>1, <1>3, <1>4, NumberInduction, U \in SUBSET U
<1> QED
  BY <1>5 DEF F

LEMMA SumEquation ==
    ASSUME NEW f, NEW S, IsFiniteSet(S)
    PROVE  SumFunctionOnSet(f, S) =
             IF S = {} THEN 0
             ELSE f[CHOOSE x \in S : TRUE] + SumFunctionOnSet(f, Rest(S))
<1> DEFINE G == CHOOSE g : Steps(g, f, S)
           H == CHOOSE g : Steps(g, f, Rest(S))
<1>1. Rest(S) \in SUBSET S /\ IsFiniteSet(Rest(S))
  BY FS_Subset DEF Rest
<1>2. Steps(G, f, S) /\ Steps(H, f, Rest(S))
  BY <1>1, StepsExist
<1>3. SumFunctionOnSet(f, S) = G[S] /\ SumFunctionOnSet(f, Rest(S)) = H[Rest(S)]
  BY SumIsSteps
<1> HIDE DEF G, H
<1>4. G[S] = Step(G, f, S)
  BY <1>2 DEF Steps
<1>5. G[Rest(S)] = H[Rest(S)]
  BY <1>1, <1>2, StepsAgree
<1> QED
  BY <1>3, <1>4, <1>5 DEF Step

LEMMA SumOfNone == \A f : SumFunctionOnSet(f, {}) = 0
BY SumEquation, FS_EmptySet

\* A sum is a number, and its first part may be any part.
LEMMA SumOfAny ==
    ASSUME NEW f, NEW S, IsFiniteSet(S), \A x \in S : f[x] \in Int
    PROVE  /\ SumFunctionOnSet(f, S) \in Int
           /\ \A x \in S : SumFunctionOnSet(f, S) = f[x] + SumFunctionOnSet(f, S \ {x})
<1> DEFINE sum(T) == SumFunctionOnSet(f, T)
           good(T) == sum(T) \in Int /\ \A x \in T : sum(T) = f[x] + sum(T \ {x})
           F == {n \in Nat : \A T \in SUBSET S : Cardinality(T) <= n => good(T)}
<1>0. sum({}) = 0
  BY SumOfNone
<1> HIDE DEF sum
<1>1. \A T \in SUBSET S : /\ IsFiniteSet(T) /\ Cardinality(T) \in Nat
                          /\ \A x \in T : /\ T \ {x} \in SUBSET S
                                          /\ Cardinality(T \ {x}) = Cardinality(T) - 1
  BY FS_Subset, FS_CardinalityType, FS_RemoveElement
<1>2. \A T \in SUBSET S : T # {} =>
         (CHOOSE x \in T : TRUE) \in T
         /\ sum(T) = f[CHOOSE x \in T : TRUE] + sum(T \ {CHOOSE x \in T : TRUE})
  BY <1>1, SumEquation DEF sum, Rest
<1>3. 0 \in F
  <2>1. \A T \in SUBSET S : Cardinality(T) <= 0 => T = {}
    BY <1>1, FS_EmptySet
  <2>2. good({})
    BY <1>0
  <2> QED
    BY <2>1, <2>2
<1>4. ASSUME NEW n \in Nat, n \in F PROVE n + 1 \in F
  <2> SUFFICES ASSUME NEW T \in SUBSET S, Cardinality(T) <= n + 1, T # {} PROVE good(T)
    BY <1>0, n + 1 \in Nat
  <2> DEFINE c == CHOOSE x \in T : TRUE
  <2>1. c \in T /\ sum(T) = f[c] + sum(T \ {c})
    BY <1>2
  <2> HIDE DEF c
  <2>2. ASSUME NEW x \in T PROVE good(T \ {x})
    <3>1. T \ {x} \in SUBSET S /\ Cardinality(T \ {x}) <= n
      BY <1>1
    <3> HIDE DEF good
    <3> QED
      BY <1>4, <3>1
  <2>3. sum(T) \in Int
    BY <2>1, <2>2
  <2>4. ASSUME NEW x \in T PROVE sum(T) = f[x] + sum(T \ {x})
    <3>1. CASE x = c
      BY <2>1, <3>1
    <3>2. CASE x # c
      <4>1. sum(T \ {c}) = f[x] + sum((T \ {c}) \ {x})
        BY <2>1, <2>2, <3>2
      <4>2. sum(T \ {x}) = f[c] + sum((T \ {x}) \ {c})
        BY <2>1, <2>2, <3>2
      <4> DEFINE U == T \ {c}
                 V == (T \ {c}) \ {x}
      <4>3. V = (T \ {x}) \ {c}
        OBVIOUS
      <4>4. U \in SUBSET S /\ Cardinality(U) <= n /\ x \in U /\ V = U \ {x}
        BY <1>1, <2>1, <3>2
      <4> HIDE DEF U, V
      <4>5. V \in SUBSET S /\ Cardinality(V) <= n
        BY <1>1, <4>4
      <4>6. sum(V) \in Int
        BY <1>4, <4>5
      <4>7. f[x] \in Int /\ f[c] \in Int
        BY <2>1
      <4>8. sum(T \ {x}) = f[c] + sum(V)
        BY <4>2, <4>3
      <4>9. sum(T) = f[c] + (f[x] + sum(V))
        BY <2>1, <4>1 DEF V
      <4> QED
        BY <4>6, <4>7, <4>8, <4>9
    <3> QED
      BY <3>1, <3>2
  <2> QED
    BY <2>3, <2>4
<1>5. Cardinality(S) \in F
  <2> HIDE DEF F
  <2> QED
    BY <1>1, <1>3, <1>4, NumberInduction, S \in SUBSET S
<1>6. good(S)
  BY <1>1, <1>5, S \in SUBSET S
<1> QED
  BY <1>6 DEF sum

LEMMA SumOfMore ==
    ASSUME NEW f, NEW S, IsFiniteSet(S), \A x \in S : f[x] \in Int,
           NEW k, k \notin S, f[k] \in Int
    PROVE  SumFunctionOnSet(f, S \cup {k}) = SumFunctionOnSet(f, S) + f[k]
<1>1. IsFiniteSet(S \cup {k}) /\ k \in S \cup {k} /\ (S \cup {k}) \ {k} = S
  BY FS_AddElement
<1>2. SumFunctionOnSet(f, S \cup {k}) = f[k] + SumFunctionOnSet(f, (S \cup {k}) \ {k})
  BY <1>1, SumOfAny
<1>3. SumFunctionOnSet(f, S) \in Int
  BY SumOfAny
<1>4. SumFunctionOnSet(f, S \cup {k}) = f[k] + SumFunctionOnSet(f, S)
  BY <1>1, <1>2
<1> QED
  BY <1>3, <1>4

\* A sum depends on the values summed and on nothing else.
LEMMA SumOfSame ==
    ASSUME NEW f, NEW g, NEW S, IsFiniteSet(S), \A x \in S : f[x] \in Int /\ g[x] = f[x]
    PROVE  SumFunctionOnSet(g, S) = SumFunctionOnSet(f, S)
<1> DEFINE F == {T \in SUBSET S : SumFunctionOnSet(g, T) = SumFunctionOnSet(f, T)}
<1>1. {} \in F
  BY SumOfNone
<1>2. ASSUME NEW T \in SUBSET S, NEW x \in S \ T, T \in F PROVE T \cup {x} \in F
  <2>1. IsFiniteSet(T)
    BY FS_Subset
  <2>2. SumFunctionOnSet(f, T \cup {x}) = SumFunctionOnSet(f, T) + f[x]
    BY <2>1, SumOfMore
  <2>3. SumFunctionOnSet(g, T \cup {x}) = SumFunctionOnSet(g, T) + g[x]
    BY <2>1, SumOfMore
  <2> QED
    BY <1>2, <2>2, <2>3
<1> HIDE DEF F
<1>3. S \in F
  BY <1>1, <1>2, FamilyInduction, S \in SUBSET S
<1> QED
  BY <1>3 DEF F

\* Changing one part changes the whole by the same amount.
LEMMA SumOfChanged ==
    ASSUME NEW f, NEW g, NEW S, IsFiniteSet(S), NEW k \in S,
           \A x \in S : f[x] \in Int /\ g[x] \in Int /\ (x # k => g[x] = f[x])
    PROVE  SumFunctionOnSet(g, S) = SumFunctionOnSet(f, S) - f[k] + g[k]
<1>1. IsFiniteSet(S \ {k}) /\ \A x \in S \ {k} : f[x] \in Int /\ g[x] = f[x]
  BY FS_RemoveElement
<1>2. SumFunctionOnSet(g, S \ {k}) = SumFunctionOnSet(f, S \ {k})
  BY <1>1, SumOfSame
<1>3. SumFunctionOnSet(f, S) = f[k] + SumFunctionOnSet(f, S \ {k})
  BY SumOfAny
<1>4. SumFunctionOnSet(g, S) = g[k] + SumFunctionOnSet(g, S \ {k})
  BY SumOfAny
<1>5. SumFunctionOnSet(f, S \ {k}) \in Int /\ f[k] \in Int /\ g[k] \in Int
  BY <1>1, SumOfAny
<1> QED
  BY <1>2, <1>3, <1>4, <1>5

\* A sum of numbers is one, and no less than any of them.
LEMMA SumOfNats ==
    ASSUME NEW f, NEW S, IsFiniteSet(S), \A x \in S : f[x] \in Nat
    PROVE  /\ SumFunctionOnSet(f, S) \in Nat
           /\ \A x \in S : f[x] <= SumFunctionOnSet(f, S)
<1> DEFINE F == {T \in SUBSET S : SumFunctionOnSet(f, T) \in Nat}
<1>1. {} \in F
  BY SumOfNone
<1>2. ASSUME NEW T \in SUBSET S, NEW x \in S \ T, T \in F PROVE T \cup {x} \in F
  <2>1. IsFiniteSet(T)
    BY FS_Subset
  <2>2. SumFunctionOnSet(f, T \cup {x}) = SumFunctionOnSet(f, T) + f[x]
    BY <2>1, SumOfMore
  <2> QED
    BY <1>2, <2>2
<1> HIDE DEF F
<1>3. \A T \in SUBSET S : T \in F
  BY <1>1, <1>2, FamilyInduction
<1>4. SumFunctionOnSet(f, S) \in Nat
  BY <1>3, S \in SUBSET S DEF F
<1>5. ASSUME NEW x \in S PROVE f[x] <= SumFunctionOnSet(f, S)
  <2>1. SumFunctionOnSet(f, S) = f[x] + SumFunctionOnSet(f, S \ {x})
    BY SumOfAny
  <2>2. S \ {x} \in F
    BY <1>3
  <2> QED
    BY <2>1, <2>2 DEF F
<1> QED
  BY <1>4, <1>5

LEMMA SumOfZeros ==
    ASSUME NEW f, NEW S, IsFiniteSet(S), \A x \in S : f[x] = 0
    PROVE  SumFunctionOnSet(f, S) = 0
<1> DEFINE F == {T \in SUBSET S : SumFunctionOnSet(f, T) = 0}
<1>1. {} \in F
  BY SumOfNone
<1>2. ASSUME NEW T \in SUBSET S, NEW x \in S \ T, T \in F PROVE T \cup {x} \in F
  <2>1. IsFiniteSet(T)
    BY FS_Subset
  <2>2. SumFunctionOnSet(f, T \cup {x}) = SumFunctionOnSet(f, T) + f[x]
    BY <2>1, SumOfMore
  <2> QED
    BY <1>2, <2>2
<1> HIDE DEF F
<1>3. S \in F
  BY <1>1, <1>2, FamilyInduction, S \in SUBSET S
<1> QED
  BY <1>3 DEF F

\* g holds, for every class in W, the sum of the parts that r puts there.
IsTally(g, W, f, I, r) ==
    \A w \in W : g[w] = SumFunctionOnSet(f, {i \in I : r[i] = w})

\* Sorting the parts into classes first makes no difference.
LEMMA SumByClass ==
    ASSUME NEW f, NEW I, IsFiniteSet(I), \A i \in I : f[i] \in Int,
           NEW W, IsFiniteSet(W), NEW r, \A i \in I : r[i] \in W,
           NEW g, IsTally(g, W, f, I, r)
    PROVE  SumFunctionOnSet(g, W) = SumFunctionOnSet(f, I)
<1> DEFINE sum(T) == SumFunctionOnSet(f, T)
           class(T, w) == {i \in T : r[i] = w}
           byClass(T) == [w \in W |-> sum(class(T, w))]
           F == {T \in SUBSET I : SumFunctionOnSet(byClass(T), W) = sum(T)}
<1>1. \A T \in SUBSET I : IsFiniteSet(T) /\ sum(T) \in Int
  BY FS_Subset, SumOfAny
<1>2. \A T \in SUBSET I, w \in W : class(T, w) \in SUBSET I /\ byClass(T)[w] = sum(class(T, w))
                                   /\ byClass(T)[w] \in Int
  BY <1>1
<1>3. {} \in F
  <2>1. \A w \in W : class({}, w) = {}
    OBVIOUS
  <2>2. \A w \in W : byClass({})[w] = 0
    BY <2>1, SumOfNone
  <2> HIDE DEF byClass
  <2>3. SumFunctionOnSet(byClass({}), W) = 0
    BY <2>2, SumOfZeros
  <2> QED
    BY <2>3, SumOfNone
<1>4. ASSUME NEW T \in SUBSET I, NEW x \in I \ T, T \in F PROVE T \cup {x} \in F
  <2> DEFINE U == T \cup {x}
             k == r[x]
  <2>1. U \in SUBSET I /\ k \in W /\ f[x] \in Int /\ x \notin T
    OBVIOUS
  <2>2. sum(U) = sum(T) + f[x]
    BY <1>1, <2>1, SumOfMore
  <2>3. class(U, k) = class(T, k) \cup {x} /\ x \notin class(T, k)
    BY <2>1
  <2>4. sum(class(U, k)) = sum(class(T, k)) + f[x]
    <3>1. IsFiniteSet(class(T, k)) /\ \A i \in class(T, k) : f[i] \in Int
      BY <1>1, <1>2, <2>1
    <3> HIDE DEF class, U, k
    <3> QED
      BY <2>1, <2>3, <3>1, SumOfMore
  <2>5. \A w \in W : w # k => class(U, w) = class(T, w)
    OBVIOUS
  <2> HIDE DEF class, U, k, sum
  <2>6. byClass(U)[k] = byClass(T)[k] + f[x]
    BY <1>2, <2>1, <2>4
  <2>7. \A w \in W : /\ byClass(T)[w] \in Int /\ byClass(U)[w] \in Int
                     /\ w # k => byClass(U)[w] = byClass(T)[w]
    BY <1>2, <2>1, <2>5
  <2> HIDE DEF byClass
  <2>8. SumFunctionOnSet(byClass(U), W) =
          SumFunctionOnSet(byClass(T), W) - byClass(T)[k] + byClass(U)[k]
    BY <2>1, <2>7, SumOfChanged
  <2>9. SumFunctionOnSet(byClass(T), W) = sum(T) /\ sum(T) \in Int
    BY <1>1, <1>4
  <2>10. SumFunctionOnSet(byClass(U), W) = sum(U)
    BY <2>1, <2>2, <2>6, <2>7, <2>8, <2>9
  <2> QED
    BY <2>1, <2>10 DEF U
<1>5. I \in F
  <2> HIDE DEF F
  <2> QED
    BY <1>3, <1>4, FamilyInduction, I \in SUBSET I
<1>6. SumFunctionOnSet(byClass(I), W) = sum(I)
  BY <1>5
<1>7. \A w \in W : byClass(I)[w] = g[w] /\ byClass(I)[w] \in Int
  BY <1>2, I \in SUBSET I DEF IsTally
<1>8. SumFunctionOnSet(g, W) = SumFunctionOnSet(byClass(I), W)
  <2> HIDE DEF byClass
  <2> QED
    BY <1>7, SumOfSame
<1> QED
  BY <1>6, <1>8

\* What bounds every part bounds the sum.
LEMMA SumOfScaled ==
    ASSUME NEW S, IsFiniteSet(S), NEW f, NEW g, NEW a \in Nat, NEW b \in Nat,
           \A x \in S : f[x] \in Nat /\ g[x] \in Nat /\ a * f[x] <= b * g[x]
    PROVE  a * SumFunctionOnSet(f, S) <= b * SumFunctionOnSet(g, S)
<1> DEFINE F == {T \in SUBSET S : a * SumFunctionOnSet(f, T) <= b * SumFunctionOnSet(g, T)}
<1>1. {} \in F
  BY SumOfNone
<1>2. ASSUME NEW T \in SUBSET S, NEW x \in S \ T, T \in F PROVE T \cup {x} \in F
  <2>1. IsFiniteSet(T)
    BY FS_Subset
  <2> DEFINE m == SumFunctionOnSet(f, T)
             n == SumFunctionOnSet(g, T)
  <2>2. m \in Nat /\ n \in Nat
    BY <2>1, SumOfNats
  <2>3. SumFunctionOnSet(f, T \cup {x}) = m + f[x]
    BY <2>1, SumOfMore
  <2>4. SumFunctionOnSet(g, T \cup {x}) = n + g[x]
    BY <2>1, SumOfMore
  <2>5. a * m <= b * n
    BY <1>2
  <2> HIDE DEF m, n
  <2>6. ASSUME NEW p \in Nat, NEW q \in Nat, a * p <= b * q PROVE a * (m + p) <= b * (n + q)
    <3>1. a * (m + p) = a * m + a * p /\ b * (n + q) = b * n + b * q
      BY <2>2
    <3>2. a * m \in Int /\ a * p \in Int /\ b * n \in Int /\ b * q \in Int
      BY <2>2
    <3> QED
      BY <2>5, <2>6, <3>1, <3>2
  <2> QED
    BY <2>3, <2>4, <2>6
<1> HIDE DEF F
<1>3. S \in F
  BY <1>1, <1>2, FamilyInduction, S \in SUBSET S
<1> QED
  BY <1>3 DEF F

\* A ladder ends at the sum of its steps.
LEMMA SumIsTotal ==
    ASSUME NEW n \in Nat, NEW f, \A i \in 1..n : f[i] \in Int, NEW total \in Nat,
           IsSum(f, n, total)
    PROVE  SumFunctionOnSet(f, 1..n) = total
<1>1. PICK h \in [0..n -> 0..total] : IsLadder(h, f, n) /\ h[n] = total
  BY DEF IsSum
<1> DEFINE F == {k \in Nat : k <= n => SumFunctionOnSet(f, 1..k) = h[k]}
<1>2. 0 \in F
  <2>1. 1..0 = {}
    OBVIOUS
  <2>2. SumFunctionOnSet(f, 1..0) = 0
    BY <2>1, SumOfNone
  <2> QED
    BY <1>1, <2>2 DEF IsLadder
<1>3. ASSUME NEW k \in Nat, k \in F PROVE k + 1 \in F
  <2> SUFFICES ASSUME k + 1 <= n PROVE SumFunctionOnSet(f, 1..(k + 1)) = h[k + 1]
    OBVIOUS
  <2> DEFINE below == 1..k
  <2>0. 1..(k + 1) = below \cup {k + 1} /\ k + 1 \notin below
    OBVIOUS
  <2>1. /\ \A i \in below : f[i] \in Int
        /\ k + 1 \in 1..n /\ (k + 1) - 1 = k /\ f[k + 1] \in Int
    <3>1. k + 1 \in 1..n /\ (k + 1) - 1 = k /\ \A i \in 1..k : i \in 1..n
      OBVIOUS
    <3> QED
      BY <3>1
  <2>2. IsFiniteSet(below)
    BY FS_Interval
  <2>3. SumFunctionOnSet(f, below) = h[k] /\ h[k + 1] = h[k] + f[k + 1]
    BY <1>1, <1>3, <2>1 DEF IsLadder
  <2> HIDE DEF below
  <2>4. SumFunctionOnSet(f, below \cup {k + 1}) = SumFunctionOnSet(f, below) + f[k + 1]
    BY <2>0, <2>1, <2>2, SumOfMore
  <2> QED
    BY <2>0, <2>3, <2>4
<1> HIDE DEF F
<1>4. n \in F
  BY <1>2, <1>3, NumberInduction
<1> QED
  BY <1>1, <1>4 DEF F

\* Floors of weighted shares of a pool, the first of which takes what they leave.
IsSplit(amount, share, weight, n, pool) ==
    /\ \A i \in 1..n : share[i] = (pool * weight[i]) \div SumFunctionOnSet(weight, 1..n)
    /\ amount[1] = share[1] + (pool - SumFunctionOnSet(share, 1..n))
    /\ \A i \in 1..n : i > 1 => amount[i] = share[i]

\* Rounding never overdraws the pool, and the first share makes up for it.
LEMMA SplitFillsPool ==
    ASSUME NEW n \in Nat, n >= 1, NEW pool \in Nat,
           NEW weight, \A i \in 1..n : weight[i] \in Nat \ {0},
           NEW share, NEW amount, IsSplit(amount, share, weight, n, pool)
    PROVE  /\ \A i \in 1..n : amount[i] \in Nat
           /\ SumFunctionOnSet(amount, 1..n) = pool
<1> DEFINE whole == SumFunctionOnSet(weight, 1..n)
           allocated == SumFunctionOnSet(share, 1..n)
<1>1. 1 \in 1..n /\ \A i \in 1..n : weight[i] \in Nat /\ weight[i] > 0
  OBVIOUS
<1>2. IsFiniteSet(1..n)
  BY FS_Interval
<1>3. whole \in Nat /\ whole > 0
  <2>1. SumFunctionOnSet(weight, 1..n) \in Nat /\ weight[1] <= SumFunctionOnSet(weight, 1..n)
    BY <1>1, <1>2, SumOfNats
  <2> QED
    BY <1>1, <2>1
<1>4. \A i \in 1..n : share[i] \in Nat /\ whole * share[i] <= pool * weight[i]
  <2> SUFFICES ASSUME NEW i \in 1..n
               PROVE  share[i] \in Nat /\ whole * share[i] <= pool * weight[i]
    OBVIOUS
  <2>1. share[i] = (pool * weight[i]) \div whole
    BY DEF IsSplit
  <2>2. PICK x \in Nat : x = pool * weight[i]
    BY <1>1
  <2> HIDE DEF whole
  <2>3. x \div whole \in Nat /\ whole * (x \div whole) <= x
    BY <1>3
  <2> QED
    BY <2>1, <2>2, <2>3
<1>5. allocated \in Nat
  BY <1>2, <1>4, SumOfNats
<1>6. allocated <= pool
  <2>1. whole * allocated <= pool * SumFunctionOnSet(weight, 1..n)
    <3> HIDE DEF whole
    <3> QED
      BY <1>1, <1>2, <1>3, <1>4, SumOfScaled
  <2>2. whole * allocated <= pool * whole
    BY <2>1
  <2> HIDE DEF whole, allocated
  <2>3. ASSUME allocated >= pool + 1 PROVE FALSE
    <3>1. PICK over \in Nat : allocated = pool + 1 + over
      <4>1. allocated - (pool + 1) \in Nat /\ allocated = pool + 1 + (allocated - (pool + 1))
        BY <1>5, <2>3
      <4> QED
        BY <4>1
    <3>2. whole * allocated = pool * whole + whole + whole * over
      BY <1>3, <3>1
    <3>3. whole * over \in Nat /\ pool * whole \in Nat
      BY <1>3
    <3> QED
      BY <1>3, <2>2, <3>2, <3>3
  <2> QED
    BY <1>5, <2>3
<1>7. amount[1] = share[1] + (pool - allocated)
  BY DEF IsSplit
<1>8. \A i \in 1..n : amount[i] \in Nat /\ (i # 1 => amount[i] = share[i])
  <2> HIDE DEF allocated
  <2> QED
    BY <1>1, <1>4, <1>5, <1>6, <1>7 DEF IsSplit
<1>9. SumFunctionOnSet(amount, 1..n) = allocated - share[1] + amount[1]
  <2> DEFINE places == 1..n
  <2>1. /\ IsFiniteSet(places) /\ 1 \in places
        /\ \A i \in places : share[i] \in Int /\ amount[i] \in Int /\ (i # 1 => amount[i] = share[i])
    BY <1>1, <1>2, <1>4, <1>8
  <2> HIDE DEF places
  <2>2. SumFunctionOnSet(amount, places) = SumFunctionOnSet(share, places) - share[1] + amount[1]
    BY <2>1, SumOfChanged
  <2> QED
    BY <2>2 DEF places
<1>10. SumFunctionOnSet(amount, 1..n) = pool
  <2> HIDE DEF allocated
  <2> QED
    BY <1>1, <1>4, <1>5, <1>7, <1>9
<1> QED
  BY <1>8, <1>10

-----------------------------------------------------------------------------
(* Finite sets of numbers.                                                  *)

Together(A, S) == UNION {A[x] : x \in S}

\* As many things as the parts have together are in parts that share nothing.
LEMMA UnionOfApart ==
    ASSUME NEW S, IsFiniteSet(S), NEW A, \A x \in S : IsFiniteSet(A[x]),
           \A x, y \in S : x # y => A[x] \cap A[y] = {},
           NEW f, \A x \in S : f[x] = Cardinality(A[x])
    PROVE  Cardinality(Together(A, S)) = SumFunctionOnSet(f, S)
<1> DEFINE U(T) == Together(A, T)
           F == {T \in SUBSET S : IsFiniteSet(U(T)) /\ Cardinality(U(T)) = SumFunctionOnSet(f, T)}
<1>1. {} \in F
  <2>1. U({}) = {}
    BY DEF Together
  <2>2. IsFiniteSet({}) /\ Cardinality({}) = 0
    BY FS_EmptySet
  <2> QED
    BY <2>1, <2>2, SumOfNone
<1>2. ASSUME NEW T \in SUBSET S, NEW x \in S \ T, T \in F PROVE T \cup {x} \in F
  <2>1. IsFiniteSet(T) /\ IsFiniteSet(U(T)) /\ IsFiniteSet(A[x])
        /\ Cardinality(U(T)) = SumFunctionOnSet(f, T)
    BY <1>2, FS_Subset
  <2>2. \A y \in S : f[y] \in Int
    <3> TAKE y \in S
    <3>1. Cardinality(A[y]) \in Nat
      BY FS_CardinalityType
    <3> QED
      BY <3>1
  <2>3. SumFunctionOnSet(f, T \cup {x}) = SumFunctionOnSet(f, T) + f[x]
    BY <2>1, <2>2, SumOfMore
  <2>4. U(T \cup {x}) = U(T) \cup A[x] /\ U(T) \cap A[x] = {}
    BY DEF Together
  <2> HIDE DEF U
  <2>5. /\ IsFiniteSet(U(T) \cup A[x])
        /\ Cardinality(U(T) \cup A[x]) =
             Cardinality(U(T)) + Cardinality(A[x]) - Cardinality(U(T) \cap A[x])
    BY <2>1, FS_Union
  <2>6. Cardinality(U(T) \cap A[x]) = 0
    BY <2>4, FS_EmptySet
  <2>7. Cardinality(U(T)) \in Nat /\ Cardinality(A[x]) \in Nat
    BY <2>1, FS_CardinalityType
  <2>8. f[x] = Cardinality(A[x])
    OBVIOUS
  <2>9. IsFiniteSet(U(T \cup {x})) /\ Cardinality(U(T \cup {x})) = SumFunctionOnSet(f, T \cup {x})
    <3>1. Cardinality(U(T) \cup A[x]) = SumFunctionOnSet(f, T) + f[x]
      BY <2>1, <2>5, <2>6, <2>7, <2>8
    <3> QED
      BY <2>3, <2>4, <2>5, <3>1
  <2> QED
    BY <2>9
<1> HIDE DEF F
<1>3. S \in F
  BY <1>1, <1>2, FamilyInduction, S \in SUBSET S
<1> QED
  BY <1>3 DEF F

LEMMA GreatestOfNumbers ==
    ASSUME NEW n \in Nat, NEW U \in SUBSET (1..n), U # {}
    PROVE  \E x \in U : \A y \in U : x >= y
<1> DEFINE F == {k \in Nat : \A V \in SUBSET (1..k) : V # {} => \E x \in V : \A y \in V : x >= y}
<1>1. 0 \in F
  <2>1. 1..0 = {}
    OBVIOUS
  <2> QED
    BY <2>1
<1>2. ASSUME NEW k \in Nat, k \in F PROVE k + 1 \in F
  <2> SUFFICES ASSUME NEW V \in SUBSET (1..(k + 1)), V # {}
               PROVE  \E x \in V : \A y \in V : x >= y
    OBVIOUS
  <2>1. CASE k + 1 \in V
    BY <2>1
  <2>2. CASE k + 1 \notin V
    <3>1. V \in SUBSET (1..k)
      BY <2>2
    <3> QED
      BY <1>2, <3>1
  <2> QED
    BY <2>1, <2>2
<1> HIDE DEF F
<1>3. n \in F
  BY <1>1, <1>2, NumberInduction
<1> QED
  BY <1>3 DEF F
=============================================================================

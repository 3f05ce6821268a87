-------------------------------- MODULE Cycles --------------------------------
(***************************************************************************)
(* Remainders of natural numbers, for the places where the code counts in  *)
(* a cycle: the aid cadence, the prediction period, the journal's ring.    *)
(***************************************************************************)
EXTENDS Integers, TLAPS

(* The remainder of a division is the only one there is.                   *)
LEMMA RemainderIsUnique ==
  ASSUME NEW m \in Nat \ {0}, NEW a \in Nat, NEW b \in Nat,
         NEW r \in 0 .. m - 1, NEW s \in 0 .. m - 1, m * a + r = m * b + s
  PROVE  r = s
<1>1. \A d \in Nat : d > 0 => m * d >= m
  OBVIOUS
<1>2. CASE a > b
  <2>1. m * (a - b) = s - r
    OBVIOUS
  <2>2. m * (a - b) >= m
    BY <1>1, <1>2
  <2> QED
    BY <2>1, <2>2
<1>3. CASE b > a
  <2>1. m * (b - a) = r - s
    OBVIOUS
  <2>2. m * (b - a) >= m
    BY <1>1, <1>3
  <2> QED
    BY <2>1, <2>2
<1> QED
  BY <1>2, <1>3

(* Counting up in a cycle.                                                 *)
LEMMA NextInCycle ==
  ASSUME NEW n \in Nat, NEW m \in Nat \ {0}
  PROVE  (n + 1) % m = IF n % m = m - 1 THEN 0 ELSE (n % m) + 1
<1> DEFINE q == n \div m
           r == n % m
<1>1. q \in Nat /\ r \in 0 .. m - 1 /\ n = m * q + r
  OBVIOUS
<1> DEFINE p == (n + 1) \div m
           t == (n + 1) % m
<1>4. p \in Nat /\ t \in 0 .. m - 1 /\ n + 1 = m * p + t
  OBVIOUS
<1> HIDE DEF q, r, p, t
<1>2. CASE r = m - 1
  <2>1. m * p + t = m * (q + 1) + 0
    BY <1>1, <1>2, <1>4
  <2>2. t = 0
    BY <1>1, <1>4, <2>1, RemainderIsUnique
  <2> QED
    BY <1>2, <2>2 DEF r, t
<1>3. CASE r # m - 1
  <2>1. m * p + t = m * q + (r + 1) /\ r + 1 \in 0 .. m - 1
    BY <1>1, <1>3, <1>4
  <2>2. t = r + 1
    BY <1>1, <1>4, <2>1, RemainderIsUnique
  <2> QED
    BY <1>3, <2>2 DEF r, t
<1> QED
  BY <1>2, <1>3

=============================================================================

---------------------------- MODULE CommonLemmas ----------------------------
(* Facts about numbers and sequences that the proofs of the components       *)
(* share.  The induction principle is stated for sets: a property of numbers *)
(* is the set of the numbers that have it.                                   *)
EXTENDS Integers, Sequences, TLAPS, WellFoundedInduction, SequenceTheorems

\* A set of natural numbers that is not empty has a least element.
LEMMA LeastNat ==
    ASSUME NEW T \in SUBSET Nat, T # {}
    PROVE  \E x \in T : \A y \in T : x <= y
<1> DEFINE R == OpToRel(<, Nat)
<1>1. IsWellFoundedOn(R, Nat)
  BY NatLessThanWellFounded, Zenon
<1>2. \A x, y \in Nat : y < x => <<y, x>> \in R
  BY DEF OpToRel
<1> HIDE DEF R
<1>3. PICK x \in T : \A y \in T : ~ (<<y, x>> \in R)
  BY <1>1, WFMin, Zenon
<1>4. \A y \in T : ~ (y < x)
  BY <1>2, <1>3
<1>5. \A y \in T : x <= y
  BY <1>4
<1> QED
  BY <1>5

\* Induction up to n: a set that contains 0 and, with every number below n, the
\* next one, contains 0 .. n.
LEMMA SetInduction ==
    ASSUME NEW S, NEW n \in Nat, 0 \in S,
           \A k \in 0 .. n - 1 : k \in S => k + 1 \in S
    PROVE  0 .. n \subseteq S
<1> SUFFICES ASSUME ~(0 .. n \subseteq S) PROVE FALSE
  OBVIOUS
<1> DEFINE T == {k \in 0 .. n : k \notin S}
<1>1. T \in SUBSET Nat /\ T # {}
  OBVIOUS
<1> HIDE DEF T
<1>2. PICK k \in T : \A y \in T : k <= y
  BY <1>1, LeastNat
<1>3. k \in 0 .. n /\ k \notin S
  BY DEF T
<1>4. k - 1 \in 0 .. n - 1
  BY <1>3
<1>5. k - 1 \notin T
  BY <1>2, <1>3, <1>4
<1>6. k - 1 \in S
  BY <1>4, <1>5 DEF T
<1> QED
  BY <1>3, <1>4, <1>6

-----------------------------------------------------------------------------
\* Division with remainder.
LEMMA DivMod ==
    ASSUME NEW t \in Nat, NEW m \in Nat \ {0}
    PROVE  /\ t \div m \in Nat /\ t % m \in 0 .. m - 1
           /\ t = (t \div m) * m + (t % m)
OBVIOUS

\* Reducing a number below twice the modulus.
LEMMA ModSmall ==
    ASSUME NEW m \in Nat \ {0}, NEW x \in 0 .. m - 1
    PROVE  x % m = x /\ (m + x) % m = x
OBVIOUS

\* Adding to a remainder as long as it stays below the modulus.
LEMMA ModAdd ==
    ASSUME NEW m \in Nat \ {0}, NEW a \in Nat, NEW d \in Nat, (a % m) + d < m
    PROVE  (a + d) % m = (a % m) + d
<1> DEFINE q == a \div m
           r == a % m
<1>1. q \in Nat /\ r \in 0 .. m - 1 /\ a = q * m + r
  BY DivMod
<1> HIDE DEF q
<1>2. a + d = q * m + (r + d) /\ r + d \in 0 .. m - 1
  BY <1>1
<1> HIDE DEF r
<1> QED
  BY <1>1, <1>2 DEF r

\* Dividing by less gives no less.
LEMMA DivMonotone ==
    ASSUME NEW n \in Nat, NEW a \in Nat \ {0}, NEW b \in Nat \ {0}, a <= b
    PROVE  n \div b <= n \div a
<1> DEFINE q == n \div b
           r == n \div a
<1>1. q \in Nat /\ r \in Nat
  OBVIOUS
<1>2. q * b <= n
  OBVIOUS
<1>3. n < (r + 1) * a
  OBVIOUS
<1>4. q * a <= q * b
  BY <1>1
<1>5. q * a < (r + 1) * a
  BY <1>1, <1>2, <1>3, <1>4
<1>6. q < r + 1
  BY <1>1, <1>5
<1> QED
  BY <1>1, <1>6

-----------------------------------------------------------------------------
\* A sequence that has a length is not empty.
LEMMA NotEmpty ==
    ASSUME NEW s, Len(s) # 0
    PROVE  s # << >>
BY EmptySeq, Zenon

\* A sequence with one more element.
LEMMA AppendFacts ==
    ASSUME NEW S, NEW s \in Seq(S), NEW e \in S
    PROVE  /\ Append(s, e) \in Seq(S)
           /\ Len(s) \in Nat /\ Len(Append(s, e)) = Len(s) + 1
           /\ \A i \in 1 .. Len(s) : Append(s, e)[i] = s[i]
           /\ Append(s, e)[Len(s) + 1] = e
OBVIOUS

\* A history that is full: the newest element comes, the oldest goes.
LEMMA SlideFacts ==
    ASSUME NEW S, NEW s \in Seq(S), NEW e \in S, Len(s) # 0
    PROVE  LET w == Tail(Append(s, e))
           IN  /\ w \in Seq(S) /\ Len(w) = Len(s)
               /\ \A i \in 1 .. Len(s) - 1 : w[i] = s[i + 1]
               /\ w[Len(s)] = e
<1> DEFINE a == Append(s, e)
           w == Tail(a)
           n == Len(s)
<1>1. /\ a \in Seq(S) /\ n \in Nat /\ Len(a) = n + 1
      /\ \A i \in 1 .. n : a[i] = s[i]
      /\ a[n + 1] = e
  BY AppendFacts
<1>2. a # << >>
  OBVIOUS
<1> HIDE DEF a
<1>3. /\ w \in Seq(S) /\ Len(w) = Len(a) - 1
      /\ \A i \in 1 .. Len(w) : w[i] = a[i + 1]
  BY <1>1, <1>2, HeadTailProperties
<1> HIDE DEF w, n
<1>4. Len(w) = n /\ n # 0
  BY <1>1, <1>3 DEF n
<1>5. \A i \in 1 .. n - 1 : i \in 1 .. n /\ i + 1 \in 1 .. n
  BY <1>1
<1>6. n \in 1 .. n
  BY <1>1, <1>4
<1> QED
  BY <1>1, <1>3, <1>4, <1>5, <1>6 DEF w, a, n
=============================================================================

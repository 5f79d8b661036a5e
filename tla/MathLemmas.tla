----------------------------- MODULE MathLemmas -----------------------------
(***************************************************************************)
(* Facts about numbers and lists that the proofs of several components use. *)
(***************************************************************************)
EXTENDS Integers, SequenceTheorems, WellFoundedInduction, TLAPS

\* A set of natural numbers that is not empty has a least element.  Induction
\* over natural numbers is an appeal to this for the counterexamples.
LEMMA LeastNat ==
  ASSUME NEW T \in SUBSET Nat, T # {}
  PROVE  \E x \in T : \A y \in T : x <= y
<1> DEFINE R == OpToRel(<, Nat)
<1>1. IsWellFoundedOn(R, Nat)
  BY NatLessThanWellFounded, Zenon
<1>2. \A x, y \in Nat : <<y, x>> \in R <=> y < x
  BY DEF OpToRel
<1> HIDE DEF R
<1>3. PICK x \in T : \A y \in T : <<y, x>> \notin R
  BY <1>1, WFMin
<1>4. ASSUME NEW y \in T PROVE x <= y
  <2>1. x \in Nat /\ y \in Nat
    OBVIOUS
  <2>2. ~(y < x)
    BY <2>1, <1>2, <1>3
  <2> QED
    BY <2>1, <2>2
<1> QED
  BY <1>4

\* Division with remainder.
LEMMA DivMod ==
  ASSUME NEW b \in Int, NEW n \in Nat \ {0}
  PROVE  /\ b \div n \in Int /\ b % n \in 0..(n - 1)
         /\ b = n * (b \div n) + (b % n)
OBVIOUS

\* Quotient and remainder are unique.
LEMMA DivUnique ==
  ASSUME NEW q \in Int, NEW n \in Nat \ {0}, NEW r \in 0..(n - 1)
  PROVE  (q * n + r) \div n = q /\ (q * n + r) % n = r
<1> DEFINE b == q * n + r
           d == b \div n
           m == b % n
<1>1. b \in Int
  OBVIOUS
<1>2. d \in Int /\ m \in 0..(n - 1) /\ b = n * d + m
  BY <1>1, DivMod
<1> HIDE DEF d, m
<1>3. n * (q - d) = m - r
  BY <1>2
<1>4. q - d = 0
  <2>1. CASE q - d >= 1
    <3>1. n * (q - d) >= n
      BY <2>1, <1>2
    <3> QED
      BY <3>1, <1>3, <1>2
  <2>2. CASE q - d <= -1
    <3>1. n * (q - d) <= -n
      BY <2>2, <1>2
    <3> QED
      BY <3>1, <1>3, <1>2
  <2> QED
    BY <2>1, <2>2, <1>2
<1>5. d = q
  BY <1>4, <1>2
<1>6. m = r
  BY <1>5, <1>2
<1> QED
  BY <1>5, <1>6 DEF d, m

\* A number below its modulus, one modulus above, one below.
LEMMA ModOnce ==
  ASSUME NEW n \in Nat \ {0}, NEW a \in Int, -n <= a, a < 2 * n
  PROVE  a % n = IF a < 0 THEN a + n ELSE IF a < n THEN a ELSE a - n
<1>1. CASE a < 0
  <2>1. a + n \in 0..(n - 1) /\ a = (-1) * n + (a + n)
    BY <1>1
  <2> QED
    BY <2>1, <1>1, DivUnique
<1>2. CASE a >= 0 /\ a < n
  <2>1. a \in 0..(n - 1) /\ a = 0 * n + a
    BY <1>2
  <2> QED
    BY <2>1, <1>2, DivUnique
<1>3. CASE a >= n
  <2>1. a - n \in 0..(n - 1) /\ a = 1 * n + (a - n)
    BY <1>3
  <2> QED
    BY <2>1, <1>3, DivUnique
<1> QED
  BY <1>1, <1>2, <1>3

-----------------------------------------------------------------------------
(* Lists *)

\* A list with one more element in front.
LEMMA SeqPush ==
  ASSUME NEW S, NEW s \in Seq(S), NEW b \in S
  PROVE  /\ (<<b>> \o s) \in Seq(S)
         /\ Len((<<b>> \o s)) = Len(s) + 1
         /\ Range((<<b>> \o s)) = Range(s) \cup {b}
         /\ IsInjective(s) /\ b \notin Range(s) =>
              IsInjective((<<b>> \o s))
<1> DEFINE t == <<b>> \o s
<1>1. t \in Seq(S) /\ Len(t) = Len(s) + 1
  OBVIOUS
<1>2. t[1] = b /\ \A i \in 1..Len(s) : t[i + 1] = s[i]
  OBVIOUS
<1>3. DOMAIN t = 1..(Len(s) + 1) /\ DOMAIN s = 1..Len(s) /\ Len(s) \in Nat
  BY <1>1
<1>a. t \in Seq(S) /\ Len(t) = Len(s) + 1
  BY <1>1
<1> HIDE DEF t
<1>b. \A i \in 2..(Len(s) + 1) : i - 1 \in 1..Len(s) /\ t[i] = s[i - 1]
  BY <1>2, <1>3
<1>4. Range(t) = Range(s) \cup {b}
  <2>1. ASSUME NEW i \in DOMAIN t PROVE t[i] \in Range(s) \cup {b}
    <3>1. i = 1 \/ i \in 2..(Len(s) + 1)
      BY <1>3
    <3> QED
      BY <3>1, <1>2, <1>b, <1>3 DEF Range
  <2>2. ASSUME NEW i \in DOMAIN s PROVE s[i] \in Range(t)
    <3>1. i + 1 \in DOMAIN t /\ t[i + 1] = s[i]
      BY <1>2, <1>3
    <3> QED
      BY <3>1 DEF Range
  <2>3. b \in Range(t)
    <3>1. 1 \in DOMAIN t
      BY <1>3
    <3> QED
      BY <3>1, <1>2 DEF Range
  <2> QED
    BY <2>1, <2>2, <2>3 DEF Range
<1>5. ASSUME IsInjective(s), b \notin Range(s) PROVE IsInjective(t)
  <2> SUFFICES ASSUME NEW i \in DOMAIN t, NEW j \in DOMAIN t, t[i] = t[j]
               PROVE  i = j
    BY DEF IsInjective
  <2>1. \A m \in 1..Len(s) : s[m] # b
    BY <1>3, <1>5 DEF Range
  <2>2. \A m, l \in 1..Len(s) : s[m] = s[l] => m = l
    BY <1>3, <1>5 DEF IsInjective
  <2> QED
    BY <2>1, <2>2, <1>2, <1>3, <1>b
<1> QED
  BY <1>a, <1>4, <1>5 DEF t

\* A list without its p-th element.
LEMMA SeqCut ==
  ASSUME NEW S, NEW s \in Seq(S), NEW p \in 1..Len(s)
  PROVE  LET t == SubSeq(s, 1, p - 1) \o SubSeq(s, p + 1, Len(s)) IN
         /\ t \in Seq(S) /\ Len(t) = Len(s) - 1
         /\ Range(t) \subseteq Range(s) /\ Range(s) \ {s[p]} \subseteq Range(t)
         /\ IsInjective(s) => IsInjective(t) /\ s[p] \notin Range(t)
<1> DEFINE u == SubSeq(s, 1, p - 1)
           v == SubSeq(s, p + 1, Len(s))
           t == u \o v
<1>1. p \in Int /\ 1 <= p /\ p <= Len(s)
  OBVIOUS
<1>2. Len(s) \in Nat /\ DOMAIN s = 1..Len(s) /\ \A i \in 1..Len(s) : s[i] \in S
  OBVIOUS
<1>3. /\ u \in Seq(S) /\ Len(u) = p - 1
      /\ \A i \in 1..(p - 1) : u[i] = s[i]
  <2>1. \A i \in 1..(p - 1) : s[i] \in S
    BY <1>1, <1>2
  <2>2. p - 1 \in Int
    BY <1>1
  <2>3. /\ u \in Seq(S) /\ Len(u) = IF 1 <= p - 1 THEN p - 1 - 1 + 1 ELSE 0
        /\ \A i \in 1..(p - 1 - 1 + 1) : u[i] = s[1 + i - 1]
    BY <2>1, <2>2, SubSeqProperties
  <2>4. p - 1 - 1 + 1 = p - 1 /\ \A i \in 1..(p - 1) : 1 + i - 1 = i
    BY <1>1
  <2>5. Len(u) = p - 1
    BY <2>3, <1>1
  <2> QED
    BY <2>3, <2>4, <2>5
<1>4. /\ v \in Seq(S) /\ Len(v) = Len(s) - p
      /\ \A i \in 1..(Len(s) - p) : v[i] = s[p + i]
  <2>1. \A i \in (p + 1)..Len(s) : s[i] \in S
    BY <1>1, <1>2
  <2>2. p + 1 \in Int /\ Len(s) \in Int
    BY <1>1, <1>2
  <2>3. /\ v \in Seq(S)
        /\ Len(v) = IF p + 1 <= Len(s) THEN Len(s) - (p + 1) + 1 ELSE 0
        /\ \A i \in 1..(Len(s) - (p + 1) + 1) : v[i] = s[(p + 1) + i - 1]
    BY <2>1, <2>2, SubSeqProperties
  <2>4. ASSUME NEW i \in 1..(Len(s) - p) PROVE v[i] = s[p + i]
    <3>1. i \in 1..(Len(s) - (p + 1) + 1) /\ (p + 1) + i - 1 = p + i
      BY <1>1, <1>2
    <3>2. v[i] = s[(p + 1) + i - 1]
      BY <2>3, <3>1
    <3> QED
      BY <3>1, <3>2
  <2> HIDE DEF v
  <2>5. Len(v) = Len(s) - p
    <3>1. CASE p + 1 <= Len(s)
      <4>1. Len(v) = Len(s) - (p + 1) + 1
        BY <2>3, <3>1
      <4> QED
        BY <4>1, <1>1, <1>2
    <3>2. CASE ~(p + 1 <= Len(s))
      <4>1. Len(v) = 0
        BY <2>3, <3>2
      <4>2. p = Len(s)
        BY <3>2
      <4> QED
        BY <4>1, <4>2, <1>2
    <3> QED
      BY <3>1, <3>2
  <2> QED
    BY <2>3, <2>4, <2>5
<1> HIDE DEF u, v
<1>5. /\ t \in Seq(S) /\ Len(t) = Len(s) - 1
      /\ \A i \in 1..(Len(s) - 1) : t[i] = IF i < p THEN s[i] ELSE s[i + 1]
  <2>1. /\ t \in Seq(S) /\ Len(t) = Len(u) + Len(v)
        /\ \A i \in 1..(Len(u) + Len(v)) :
             t[i] = IF i <= Len(u) THEN u[i] ELSE v[i - Len(u)]
    BY <1>3, <1>4, ConcatProperties
  <2>2. ASSUME NEW i \in 1..(Len(s) - 1)
        PROVE  t[i] = IF i < p THEN s[i] ELSE s[i + 1]
    <3>1. t[i] = IF i <= Len(u) THEN u[i] ELSE v[i - Len(u)]
      BY <2>1, <1>1, <1>2, <1>3, <1>4
    <3>2. CASE i < p
      BY <3>1, <3>2, <1>1, <1>2, <1>3
    <3>3. CASE ~(i < p)
      <4>1. i - Len(u) \in 1..(Len(s) - p) /\ p + (i - Len(u)) = i + 1
        BY <3>3, <1>1, <1>2, <1>3
      <4>2. t[i] = v[i - Len(u)]
        BY <3>1, <3>3, <1>1, <1>2, <1>3
      <4> QED
        BY <4>1, <4>2, <3>3, <1>4
    <3> QED
      BY <3>2, <3>3
  <2> QED
    <3>1. Len(u) + Len(v) = Len(s) - 1
      BY <1>1, <1>2, <1>3, <1>4
    <3> QED
      BY <3>1, <2>1, <2>2
<1>6. DOMAIN t = 1..(Len(s) - 1)
  BY <1>5
<1> HIDE DEF t
<1>7. Range(t) \subseteq Range(s)
  <2>1. ASSUME NEW i \in DOMAIN t PROVE t[i] \in Range(s)
    <3>1. PICK j \in 1..Len(s) : t[i] = s[j]
      BY <1>1, <1>2, <1>5, <1>6
    <3> QED
      BY <3>1, <1>2 DEF Range
  <2> QED
    BY <2>1 DEF Range
<1>8. Range(s) \ {s[p]} \subseteq Range(t)
  <2>1. ASSUME NEW i \in DOMAIN s, s[i] # s[p] PROVE s[i] \in Range(t)
    <3>1. CASE i < p
      <4>1. i \in DOMAIN t /\ t[i] = s[i]
        BY <3>1, <1>1, <1>2, <1>5, <1>6
      <4> QED
        BY <4>1 DEF Range
    <3>2. CASE i > p
      <4>1. i - 1 \in DOMAIN t /\ t[i - 1] = s[i]
        BY <3>2, <1>1, <1>2, <1>5, <1>6
      <4> QED
        BY <4>1 DEF Range
    <3> QED
      BY <3>1, <3>2, <2>1, <1>1, <1>2
  <2> QED
    BY <2>1 DEF Range
<1>9. ASSUME IsInjective(s) PROVE IsInjective(t) /\ s[p] \notin Range(t)
  <2>1. \A i, j \in 1..Len(s) : s[i] = s[j] => i = j
    BY <1>2, <1>9 DEF IsInjective
  <2>2. ASSUME NEW i \in DOMAIN t, NEW j \in DOMAIN t, t[i] = t[j]
        PROVE  i = j
    BY <2>1, <2>2, <1>1, <1>2, <1>5, <1>6
  <2>3. ASSUME NEW i \in DOMAIN t PROVE t[i] # s[p]
    BY <2>1, <1>1, <1>2, <1>5, <1>6
  <2> QED
    BY <2>2, <2>3 DEF IsInjective, Range
<1> QED
  BY <1>5, <1>7, <1>8, <1>9 DEF t, u, v
=============================================================================

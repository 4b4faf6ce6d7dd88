---------------------------- MODULE LeastElement ----------------------------
(***************************************************************************)
(* What the other proofs share.  Every nonempty set of natural numbers has *)
(* a least element: the proofs of what a search, a scan or a recursive     *)
(* function of the model computes argue with the least place at which it   *)
(* would go wrong.  And where each cell of a sequence comes from that was  *)
(* put together or cut.                                                    *)
(***************************************************************************)
EXTENDS Integers, Sequences, WellFoundedInduction, SequenceTheorems, TLAPS

LEMMA LeastNatural ==
    ASSUME NEW S, S \subseteq Nat, S # {}
    PROVE  \E m \in S : \A k \in S : m <= k
  <1> DEFINE R == OpToRel(<, Nat)
  <1>1. IsWellFoundedOn(R, Nat)
    BY NatLessThanWellFounded
  <1>2. \A x, y \in Nat : x < y => <<x, y>> \in R
    BY DEF OpToRel
  <1> HIDE DEF R
  <1>3. PICK m \in S : \A k \in S : ~ (<<k, m>> \in R)
    BY <1>1, WFMin
  <1>4. \A k \in S : m <= k
    <2> TAKE k \in S
    <2>1. k \in Nat /\ m \in Nat
      OBVIOUS
    <2>2. ~ (k < m)
      BY <1>2, <1>3, <2>1, Zenon
    <2> QED BY <2>1, <2>2
  <1> QED BY <1>4

(* What holds at zero and passes from each number to the next holds up to n. *)
LEMMA EachStep ==
    ASSUME NEW n \in Nat, NEW S, 0 \in S, \A i \in 1..n : i - 1 \in S => i \in S
    PROVE  \A i \in 0..n : i \in S
  <1> DEFINE W == {i \in 0..n : i \notin S}
  <1> SUFFICES ASSUME W # {} PROVE FALSE
    OBVIOUS
  <1>1. PICK m \in W : \A k \in W : m <= k
    <2>1. W \subseteq Nat
      OBVIOUS
    <2> HIDE DEF W
    <2> QED BY <2>1, LeastNatural
  <1>2. m \in 1..n /\ m - 1 \in 0..n /\ ~ (m <= m - 1)
    BY <1>1
  <1>3. m - 1 \in S
    BY <1>1, <1>2
  <1> QED BY <1>1, <1>2, <1>3

Follows(g, first, step, n) ==
    g[0] = first /\ \A i \in 1..n : g[i] = step[i][g[i - 1]]

(* A function on 0..n is defined by its value at zero and by the step to     *)
(* each number from the one before.                                          *)
LEMMA StepByStep ==
    ASSUME NEW n \in Nat, NEW V, NEW first \in V, NEW step \in [1..n -> [V -> V]]
    PROVE  \E g \in [0..n -> V] : Follows(g, first, step, n)
  <1> DEFINE Reached(k) == \E g \in [0..k -> V] : Follows(g, first, step, k)
             S == {k \in 0..n : Reached(k)}
  <1>1. 0 \in S
    <2> DEFINE g == [i \in 0..0 |-> first]
    <2>1. g \in [0..0 -> V] /\ Follows(g, first, step, 0)
      BY DEF Follows
    <2>2. Reached(0)
      <3> HIDE DEF g
      <3> QED BY <2>1
    <2> HIDE DEF Reached
    <2> QED BY <2>2
  <1>2. ASSUME NEW k \in 1..n, k - 1 \in S PROVE k \in S
    <2>1. PICK g \in [0..k - 1 -> V] : Follows(g, first, step, k - 1)
      BY <1>2
    <2> DEFINE h == [i \in 0..k |-> IF i = k THEN step[k][g[k - 1]] ELSE g[i]]
    <2>2. step[k] \in [V -> V] /\ k - 1 \in 0..k - 1 /\ \A i \in 0..k : i = k \/ i \in 0..k - 1
      OBVIOUS
    <2>3. h \in [0..k -> V]
      BY <2>2
    <2>4. h[0] = first
      BY <2>1 DEF Follows
    <2>5. ASSUME NEW i \in 1..k PROVE h[i] = step[i][h[i - 1]]
      <3>1. i \in 0..k /\ i - 1 \in 0..k /\ i - 1 # k
        OBVIOUS
      <3>2. h[i - 1] = g[i - 1]
        BY <3>1
      <3>3. CASE i = k
        BY <3>1, <3>2, <3>3
      <3>4. CASE i # k
        <4>1. i \in 1..k - 1
          BY <3>4
        <4> QED BY <2>1, <3>1, <3>2, <3>4, <4>1 DEF Follows
      <3> QED BY <3>3, <3>4
    <2>6. Follows(h, first, step, k)
      BY <2>4, <2>5 DEF Follows
    <2>7. Reached(k)
      <3> HIDE DEF h
      <3> QED BY <2>3, <2>6
    <2> HIDE DEF Reached
    <2> QED BY <2>7
  <1>3. n \in S
    <2>1. \A k \in 1..n : k - 1 \in S => k \in S
      BY <1>2
    <2> HIDE DEF S
    <2>2. \A k \in 0..n : k \in S
      BY <1>1, <2>1, EachStep
    <2> QED BY <2>2
  <1> QED BY <1>3

-----------------------------------------------------------------------------
(* Sequences put together and cut. *)

LEMMA SequenceOf ==
    ASSUME NEW S, NEW n \in Nat, NEW q \in [1..n -> S]
    PROVE  q \in Seq(S) /\ Len(q) = n
  BY SeqDef

(* The sequence q is s followed by t. *)
Joins(q, s, t) ==
    /\ Len(q) = Len(s) + Len(t)
    /\ \A i \in 1..Len(s) : q[i] = s[i]
    /\ \A i \in 1..Len(t) : q[Len(s) + i] = t[i]

LEMMA ConcatIs ==
    ASSUME NEW S, NEW s \in Seq(S), NEW t \in Seq(S)
    PROVE  s \o t \in Seq(S) /\ Joins(s \o t, s, t)
  <1>1. Len(s) \in Nat /\ Len(t) \in Nat
    BY LenProperties
  <1>2. /\ s \o t \in Seq(S) /\ Len(s \o t) = Len(s) + Len(t)
        /\ \A i \in 1..Len(s) + Len(t) :
              (s \o t)[i] = IF i <= Len(s) THEN s[i] ELSE t[i - Len(s)]
    BY ConcatProperties
  <1>3. ASSUME NEW i \in 1..Len(s) PROVE (s \o t)[i] = s[i]
    <2>1. i \in 1..Len(s) + Len(t) /\ i <= Len(s)
      BY <1>1
    <2> QED BY <1>2, <2>1
  <1>4. ASSUME NEW i \in 1..Len(t) PROVE (s \o t)[Len(s) + i] = t[i]
    <2>1. /\ Len(s) + i \in 1..Len(s) + Len(t) /\ ~ (Len(s) + i <= Len(s))
          /\ (Len(s) + i) - Len(s) = i
      BY <1>1
    <2> QED BY <1>2, <2>1
  <1> QED BY <1>2, <1>3, <1>4 DEF Joins

LEMMA PieceIs ==
    ASSUME NEW S, NEW s \in Seq(S), NEW m \in 0..Len(s), NEW n \in 0..Len(s), m <= n
    PROVE  /\ SubSeq(s, m + 1, n) \in Seq(S) /\ Len(SubSeq(s, m + 1, n)) = n - m
           /\ \A i \in 1..n - m : SubSeq(s, m + 1, n)[i] = s[m + i]
  <1>1. Len(s) \in Nat /\ m \in Int /\ n \in Int /\ m + 1 \in Int
    BY LenProperties
  <1>2. \A i \in m + 1..n : s[i] \in S
    <2> SUFFICES ASSUME NEW i \in m + 1..n PROVE s[i] \in S
      OBVIOUS
    <2>1. i \in 1..Len(s)
      BY <1>1
    <2> QED BY <2>1, ElementOfSeq
  <1>3. /\ SubSeq(s, m + 1, n) \in Seq(S)
        /\ Len(SubSeq(s, m + 1, n)) = IF m + 1 <= n THEN n - (m + 1) + 1 ELSE 0
        /\ \A i \in 1..n - (m + 1) + 1 : SubSeq(s, m + 1, n)[i] = s[(m + 1) + i - 1]
    BY <1>1, <1>2, SubSeqProperties
  <1>4. n - (m + 1) + 1 = n - m /\ (~ (m + 1 <= n) => n - m = 0)
    BY <1>1
  <1>5. \A i \in 1..n - m : (m + 1) + i - 1 = m + i
    BY <1>1
  <1> QED BY <1>3, <1>4, <1>5

(* The first k elements. *)
Some(places, k) == SubSeq(places, 1, k)

LEMMA SomeAre ==
    ASSUME NEW S, NEW places \in Seq(S), NEW k \in 1..Len(places)
    PROVE  /\ Some(places, k) \in Seq(S) /\ Len(Some(places, k)) = k
           /\ Some(places, k)[k] = places[k]
           /\ \A i \in 1..k : Some(places, k)[i] = places[i]
  <1>1. Len(places) \in Nat /\ 0 \in 0..Len(places) /\ k \in 0..Len(places) /\ 0 <= k /\ 0 + 1 = 1 /\ k - 0 = k
    BY LenProperties
  <1>2. /\ SubSeq(places, 0 + 1, k) \in Seq(S) /\ Len(SubSeq(places, 0 + 1, k)) = k - 0
        /\ \A i \in 1..k - 0 : SubSeq(places, 0 + 1, k)[i] = places[0 + i]
    BY <1>1, PieceIs
  <1>3. /\ Some(places, k) \in Seq(S) /\ Len(Some(places, k)) = k
        /\ \A i \in 1..k : Some(places, k)[i] = places[0 + i]
    BY <1>1, <1>2 DEF Some
  <1>4. \A i \in 1..k : 0 + i = i
    OBVIOUS
  <1>5. k \in 1..k
    OBVIOUS
  <1> QED BY <1>3, <1>4, <1>5

LEMMA SomeMore ==
    ASSUME NEW S, NEW places \in Seq(S), NEW k \in 1..Len(places) - 1
    PROVE  Append(Some(places, k), places[k + 1]) = Some(places, k + 1)
  <1>1. Len(places) \in Nat /\ k \in 1..Len(places) /\ k + 1 \in 1..Len(places)
    BY LenProperties
  <1>2. /\ Some(places, k) \in Seq(S) /\ Len(Some(places, k)) = k
        /\ \A i \in 1..k : Some(places, k)[i] = places[i]
    BY <1>1, SomeAre
  <1>3. /\ Some(places, k + 1) \in Seq(S) /\ Len(Some(places, k + 1)) = k + 1
        /\ \A i \in 1..k + 1 : Some(places, k + 1)[i] = places[i]
    BY <1>1, SomeAre
  <1>4. places[k + 1] \in S
    BY <1>1, ElementOfSeq
  <1> DEFINE q == Append(Some(places, k), places[k + 1])
  <1>5. /\ q \in Seq(S) /\ Len(q) = k + 1
        /\ \A i \in 1..k : q[i] = places[i]
        /\ q[k + 1] = places[k + 1]
    BY <1>2, <1>4, AppendProperties
  <1> HIDE DEF q
  <1>6. \A i \in 1..k + 1 : q[i] = Some(places, k + 1)[i]
    <2>1. \A i \in 1..k + 1 : i \in 1..k \/ i = k + 1
      OBVIOUS
    <2> QED BY <1>3, <1>5, <2>1
  <1>7. q = Some(places, k + 1)
    BY <1>3, <1>5, <1>6, SeqEqual
  <1> QED BY <1>7 DEF q
=============================================================================

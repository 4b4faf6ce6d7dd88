-------------------------- MODULE ContainersProof ---------------------------
(***************************************************************************)
(* The containers keep what they promise, for every number of places, of   *)
(* keys and all items: the ring buffer of module SgQueue is a first-in     *)
(* first-out queue, the sorted array of module SgList is a map.  The       *)
(* helpers of module HelpFunctions do what their callers rely on, for all  *)
(* values, arrays of bits, card codes, days of the calendar and texts.     *)
(***************************************************************************)
EXTENDS Library, LeastElement, SequenceTheorems, FiniteSetTheorems

-----------------------------------------------------------------------------
(* The ring buffer. *)

(* The place k steps behind place p of the ring, and how many steps there    *)
(* are from p to the front position.                                         *)
Ring(p, k) == IF p + k < uiItemsMaxCount THEN p + k ELSE p + k - uiItemsMaxCount
Steps(p) == IF p <= uiFrontPosition THEN uiFrontPosition - p
            ELSE uiFrontPosition - p + uiItemsMaxCount

(* The front position is as many places behind the end position as there are *)
(* items; when the queue is full that is the same place.                     *)
QueueInv ==
    /\ pcDataHeap \in [0..uiItemsMaxCount - 1 -> QueueItems]
    /\ uiFrontPosition \in 0..uiItemsMaxCount - 1
    /\ uiEndPosition \in 0..uiItemsMaxCount - 1
    /\ uiItemsCount \in 0..uiItemsMaxCount
    /\ uiFrontPosition = Ring(uiEndPosition, uiItemsCount)
    /\ bIsExcluding \in BOOLEAN
    /\ pvSrcItem \in QueueItems /\ pvDstItem \in QueueItems
    /\ queueResult = "none" => uiItemsCount = 0

-----------------------------------------------------------------------------
(* Going round the ring. *)

LEMMA Remainder ==
    ASSUME NEW n \in Nat \ {0}, NEW a \in Nat, a < 2 * n
    PROVE  a % n = IF a < n THEN a ELSE a - n
  OBVIOUS

LEMMA RingPlace ==
    ASSUME NEW p \in 0..uiItemsMaxCount - 1, NEW k \in 0..uiItemsMaxCount
    PROVE  Ring(p, k) \in 0..uiItemsMaxCount - 1 /\ Ring(p, 0) = p
  BY QueueAssumption DEF Ring

LEMMA RingRemainder ==
    ASSUME NEW p \in 0..uiItemsMaxCount - 1, NEW k \in 0..uiItemsMaxCount
    PROVE  (p + k) % uiItemsMaxCount = Ring(p, k)
  <1>1. p + k \in Nat /\ p + k < 2 * uiItemsMaxCount
    BY QueueAssumption
  <1>2. (p + k) % uiItemsMaxCount
            = IF p + k < uiItemsMaxCount THEN p + k ELSE (p + k) - uiItemsMaxCount
    BY <1>1, QueueAssumption, Remainder
  <1> QED BY <1>1, <1>2, QueueAssumption DEF Ring

LEMMA RingWrap ==
    ASSUME NEW p \in 0..uiItemsMaxCount - 1, NEW k \in 0..uiItemsMaxCount - 1
    PROVE  /\ Wrap(p) \in 0..uiItemsMaxCount - 1
           /\ Wrap(Ring(p, k)) = Ring(p, k + 1)
           /\ Ring(Wrap(p), k) = Ring(p, k + 1)
  BY QueueAssumption DEF Ring, Wrap

LEMMA RingApart ==
    ASSUME NEW p \in 0..uiItemsMaxCount - 1,
           NEW j \in 0..uiItemsMaxCount - 1, NEW k \in 0..uiItemsMaxCount - 1,
           Ring(p, j) = Ring(p, k)
    PROVE  j = k
  BY QueueAssumption DEF Ring

LEMMA StepsTo ==
    ASSUME uiFrontPosition \in 0..uiItemsMaxCount - 1, NEW p \in 0..uiItemsMaxCount - 1
    PROVE  /\ Steps(p) \in 0..uiItemsMaxCount - 1
           /\ Steps(p) = 0 <=> p = uiFrontPosition
           /\ p # uiFrontPosition => Steps(Wrap(p)) = Steps(p) - 1
  BY QueueAssumption DEF Steps, Wrap

-----------------------------------------------------------------------------
(* The search that starts at p finds an item that lies between p and the     *)
(* front position.                                                           *)
Ahead(p, x) == \E k \in 0..Steps(p) - 1 : pcDataHeap[Ring(p, k)] = x

LEMMA AheadNext ==
    ASSUME QueueInv, NEW x, NEW p \in 0..uiItemsMaxCount - 1
    PROVE  Ahead(p, x) <=>
              p # uiFrontPosition /\ (pcDataHeap[p] = x \/ Ahead(Wrap(p), x))
  <1>1. Steps(p) \in 0..uiItemsMaxCount - 1 /\ (Steps(p) = 0 <=> p = uiFrontPosition)
    BY StepsTo DEF QueueInv
  <1>2. CASE p = uiFrontPosition
    BY <1>1, <1>2 DEF Ahead
  <1>3. CASE p # uiFrontPosition
    <2>1. Steps(Wrap(p)) = Steps(p) - 1 /\ Wrap(p) \in 0..uiItemsMaxCount - 1
      BY <1>3, StepsTo, RingWrap, QueueAssumption DEF QueueInv
    <2>2. \A k \in 0..Steps(p) - 2 : Ring(Wrap(p), k) = Ring(p, k + 1)
      BY <1>1, RingWrap, QueueAssumption
    <2>3. ASSUME Ahead(p, x) PROVE pcDataHeap[p] = x \/ Ahead(Wrap(p), x)
      <3>1. PICK k \in 0..Steps(p) - 1 : pcDataHeap[Ring(p, k)] = x
        BY <2>3 DEF Ahead
      <3>2. CASE k = 0
        <4>1. 0 \in 0..uiItemsMaxCount
          BY QueueAssumption
        <4>2. Ring(p, 0) = p
          BY <4>1, RingPlace
        <4> QED BY <3>1, <3>2, <4>2
      <3>3. CASE k # 0
        <4>1. k - 1 \in 0..Steps(p) - 2 /\ (k - 1) + 1 = k
          BY <1>1, <3>3
        <4>2. pcDataHeap[Ring(Wrap(p), k - 1)] = x
          BY <2>2, <3>1, <4>1
        <4>3. k - 1 \in 0..Steps(Wrap(p)) - 1
          BY <1>1, <2>1, <4>1
        <4> QED BY <4>2, <4>3 DEF Ahead
      <3> QED BY <3>2, <3>3
    <2>4. ASSUME pcDataHeap[p] = x PROVE Ahead(p, x)
      <3>1. 0 \in 0..Steps(p) - 1
        BY <1>1, <1>3, QueueAssumption
      <3>2. Ring(p, 0) = p
        BY RingPlace, QueueAssumption
      <3> QED BY <2>4, <3>1, <3>2 DEF Ahead
    <2>5. ASSUME Ahead(Wrap(p), x) PROVE Ahead(p, x)
      <3>1. PICK k \in 0..Steps(p) - 2 : pcDataHeap[Ring(Wrap(p), k)] = x
        BY <1>1, <2>1, <2>5 DEF Ahead
      <3>2. k + 1 \in 0..Steps(p) - 1
        BY <1>1
      <3> QED BY <2>2, <3>1, <3>2 DEF Ahead
    <2> QED BY <1>3, <2>3, <2>4, <2>5
  <1> QED BY <1>2, <1>3

LEMMA SearchFinds ==
    ASSUME QueueInv, NEW x, uiItemsCount < uiItemsMaxCount
    PROVE  QueueHolds(x) <=>
              \E k \in 0..uiItemsCount - 1 : pcDataHeap[Ring(uiEndPosition, k)] = x
  <1> DEFINE Places == 0..uiItemsMaxCount - 1
             Next1(g, p) == p # uiFrontPosition /\ (pcDataHeap[p] = x \/ g[Wrap(p)])
             from == CHOOSE g : g = [p \in Places |-> Next1(g, p)]
             found == [p \in Places |-> Ahead(p, x)]
  <1>1. QueueHolds(x) = from[uiEndPosition]
    BY DEF QueueHolds
  <1>2. found = [p \in Places |-> Next1(found, p)]
    <2>1. \A p \in Places : Wrap(p) \in Places
      BY QueueAssumption DEF Wrap
    <2>2. \A p \in Places : Ahead(p, x) = Next1(found, p)
      <3> SUFFICES ASSUME NEW p \in Places PROVE Ahead(p, x) = Next1(found, p)
        OBVIOUS
      <3>1. found[Wrap(p)] = Ahead(Wrap(p), x)
        BY <2>1
      <3>2. Ahead(p, x) <=> Next1(found, p)
        BY <3>1, AheadNext
      <3>3. Ahead(p, x) \in BOOLEAN /\ Next1(found, p) \in BOOLEAN
        BY DEF Ahead
      <3> QED BY <3>2, <3>3
    <2> QED BY <2>2, Zenon
  <1>3. from = [p \in Places |-> Next1(from, p)]
    BY <1>2, Zenon
  <1>4. \A p \in Places : from[p] = Next1(from, p)
    BY <1>3, Zenon
  <1> HIDE DEF from
  <1>5. \A p \in Places : from[p] <=> Ahead(p, x)
    <2> DEFINE Wrong == {d \in Nat : \E p \in Places : Steps(p) = d /\ ~ (from[p] <=> Ahead(p, x))}
    <2>1. ASSUME Wrong # {} PROVE FALSE
      <3>1. PICK d \in Wrong : \A e \in Wrong : d <= e
        BY <2>1, LeastNatural
      <3>2. PICK p \in Places : Steps(p) = d /\ ~ (from[p] <=> Ahead(p, x))
        BY <3>1
      <3>3. from[p] <=> p # uiFrontPosition /\ (pcDataHeap[p] = x \/ from[Wrap(p)])
        BY <1>4
      <3>4. Ahead(p, x) <=> p # uiFrontPosition /\ (pcDataHeap[p] = x \/ Ahead(Wrap(p), x))
        BY AheadNext
      <3>5. p # uiFrontPosition /\ ~ (from[Wrap(p)] <=> Ahead(Wrap(p), x))
        BY <3>2, <3>3, <3>4
      <3>6. Wrap(p) \in Places
        BY QueueAssumption DEF Wrap
      <3>7. Steps(Wrap(p)) = d - 1 /\ d \in Nat /\ Steps(Wrap(p)) \in Nat
        BY <3>2, <3>5, <3>6, StepsTo, QueueAssumption DEF QueueInv
      <3>8. Steps(Wrap(p)) \in Wrong
        BY <3>5, <3>6, <3>7
      <3> QED BY <3>1, <3>7, <3>8
    <2>2. \A p \in Places : Steps(p) \in Nat
      BY StepsTo DEF QueueInv
    <2> QED BY <2>1, <2>2
  <1>6. Steps(uiEndPosition) = uiItemsCount
    BY QueueAssumption DEF QueueInv, Steps, Ring
  <1> QED BY <1>1, <1>5, <1>6 DEF Ahead, QueueInv

-----------------------------------------------------------------------------
(* The contents as a sequence. *)

LEMMA SequenceIs ==
    ASSUME NEW S, NEW n \in Nat, NEW s, s = [k \in 1..n |-> s[k]], \A k \in 1..n : s[k] \in S
    PROVE  s \in Seq(S) /\ Len(s) = n /\ DOMAIN s = 1..n
  <1>1. s \in [1..n -> S]
    OBVIOUS
  <1>2. s \in Seq(S)
    BY <1>1, SeqDef
  <1> QED BY <1>1, <1>2, LenProperties

ContentsPlaced ==
    /\ Contents \in Seq(QueueItems) /\ Len(Contents) = uiItemsCount
    /\ \A k \in 1..uiItemsCount : Contents[k] = pcDataHeap[Ring(uiEndPosition, k - 1)]

LEMMA ContentsAre == QueueInv => ContentsPlaced
  <1> SUFFICES ASSUME QueueInv PROVE ContentsPlaced
    OBVIOUS
  <1>1. uiItemsCount \in Nat /\ uiItemsMaxCount \in Nat \ {0}
    BY QueueAssumption DEF QueueInv
  <1>2. ASSUME NEW k \in 1..uiItemsCount
        PROVE  Contents[k] = pcDataHeap[Ring(uiEndPosition, k - 1)] /\ Contents[k] \in QueueItems
    <2>1. k - 1 \in 0..uiItemsMaxCount /\ (uiEndPosition + k) - 1 = uiEndPosition + (k - 1)
      BY <1>1 DEF QueueInv
    <2>2. (uiEndPosition + k - 1) % uiItemsMaxCount = Ring(uiEndPosition, k - 1)
      BY <2>1, RingRemainder DEF QueueInv
    <2>3. Ring(uiEndPosition, k - 1) \in 0..uiItemsMaxCount - 1
      BY <2>1, RingPlace DEF QueueInv
    <2>4. Contents[k] = pcDataHeap[(uiEndPosition + k - 1) % uiItemsMaxCount]
      BY DEF Contents
    <2> QED BY <2>2, <2>3, <2>4 DEF QueueInv
  <1>3. Contents = [k \in 1..uiItemsCount |-> Contents[k]]
    BY DEF Contents
  <1> QED BY <1>1, <1>2, <1>3, SequenceIs DEF ContentsPlaced

LEMMA ContentsNext == QueueInv' => ContentsPlaced'
  BY ContentsAre, PTL

LEMMA HoldsIs ==
    ASSUME QueueInv, NEW x, uiItemsCount < uiItemsMaxCount
    PROVE  QueueHolds(x) <=> FifoPromise!Holds(x)
  <1>1. QueueHolds(x) <=>
           \E k \in 0..uiItemsCount - 1 : pcDataHeap[Ring(uiEndPosition, k)] = x
    BY SearchFinds
  <1>2. FifoPromise!Holds(x) <=> \E k \in 1..uiItemsCount : Contents[k] = x
    BY ContentsAre DEF FifoPromise!Holds, ContentsPlaced
  <1>3. \A k \in 1..uiItemsCount : Contents[k] = pcDataHeap[Ring(uiEndPosition, k - 1)]
    BY ContentsAre DEF ContentsPlaced
  <1>4. uiItemsCount \in Nat
    BY DEF QueueInv
  <1>5. ASSUME NEW k \in 0..uiItemsCount - 1, pcDataHeap[Ring(uiEndPosition, k)] = x
        PROVE  \E i \in 1..uiItemsCount : Contents[i] = x
    <2>1. k + 1 \in 1..uiItemsCount /\ (k + 1) - 1 = k
      BY <1>4
    <2> QED BY <1>3, <1>5, <2>1
  <1>6. ASSUME NEW i \in 1..uiItemsCount, Contents[i] = x
        PROVE  \E k \in 0..uiItemsCount - 1 : pcDataHeap[Ring(uiEndPosition, k)] = x
    <2>1. i - 1 \in 0..uiItemsCount - 1
      BY <1>4
    <2> QED BY <1>3, <1>6, <2>1
  <1> QED BY <1>1, <1>2, <1>5, <1>6

-----------------------------------------------------------------------------
(* Every step of the ring buffer is a step of the queue. *)

LEMMA QueueStart == QueueInit => QueueInv /\ FifoPromise!Init
  <1> SUFFICES ASSUME QueueInit PROVE QueueInv /\ FifoPromise!Init
    OBVIOUS
  <1>1. QueueInv
    <2>1. (CHOOSE x \in QueueItems : TRUE) \in QueueItems
      BY QueueAssumption
    <2>2. 0 \in 0..uiItemsMaxCount - 1 /\ 0 \in 0..uiItemsMaxCount /\ Ring(0, 0) = 0
      BY QueueAssumption DEF Ring
    <2> QED BY <2>1, <2>2 DEF QueueInit, QueueInv
  <1>2. Contents = <<>>
    BY <1>1, ContentsAre, EmptySeq DEF QueueInit, ContentsPlaced
  <1> QED BY <1>1, <1>2 DEF QueueInit, QueueInv, FifoPromise!Init

LEMMA ContentsKept ==
    ASSUME UNCHANGED <<pcDataHeap, uiEndPosition, uiItemsCount>>
    PROVE  Contents' = Contents
  BY DEF Contents

LEMMA InitStep ==
    ASSUME QueueInv, InitQueue
    PROVE  QueueInv' /\ FifoPromise!Next
  <1>1. QueueInv'
    BY QueueAssumption DEF QueueInv, InitQueue, Ring
  <1>2. Contents = <<>> /\ Contents' = <<>>
    <2>1. Contents = [k \in 1..0 |-> pcDataHeap[(uiEndPosition + k - 1) % uiItemsMaxCount]]
      BY DEF QueueInv, InitQueue, Contents
    <2>2. Contents' = [k \in 1..0 |-> pcDataHeap'[(uiEndPosition' + k - 1) % uiItemsMaxCount]]
      BY DEF InitQueue, Contents
    <2>3. 1..0 = {}
      OBVIOUS
    <2> QED BY <2>1, <2>2, <2>3
  <1> QED BY <1>1, <1>2 DEF InitQueue, FifoPromise!Next, FifoPromise!Create

LEMMA PutStep ==
    ASSUME QueueInv, NEW x \in QueueItems, PutToFront(x)
    PROVE  QueueInv' /\ FifoPromise!Put(x)
  <1> DEFINE n == uiItemsCount
  <1>1. n \in 0..uiItemsMaxCount /\ uiItemsMaxCount \in Nat \ {0} /\ Len(Contents) = n
    BY QueueAssumption, ContentsAre DEF QueueInv, ContentsPlaced
  <1>2. CASE n >= uiItemsMaxCount
    <2>1. QueueInv'
      BY <1>1, <1>2 DEF PutToFront, QueueInv, Ring
    <2>2. Contents' = Contents
      BY <1>1, <1>2, ContentsKept DEF PutToFront
    <2> QED BY <1>1, <1>2, <2>1, <2>2 DEF PutToFront, FifoPromise!Put
  <1>3. CASE n < uiItemsMaxCount /\ Refused(x)
    <2>1. QueueInv'
      BY <1>1, <1>3 DEF PutToFront, QueueInv, Ring
    <2>2. Contents' = Contents
      BY <1>1, <1>3, ContentsKept DEF PutToFront
    <2>3. bIsExcluding /\ FifoPromise!Holds(x)
      BY <1>3, HoldsIs DEF Refused
    <2> QED BY <1>1, <1>3, <2>1, <2>2, <2>3 DEF PutToFront, FifoPromise!Put
  <1>4. CASE n < uiItemsMaxCount /\ ~ Refused(x)
    <2>1. /\ queueResult # "none" /\ pvSrcItem' = x /\ queueResult' = "success"
          /\ pcDataHeap' = [pcDataHeap EXCEPT ![uiFrontPosition] = x]
          /\ uiFrontPosition' = Wrap(uiFrontPosition)
          /\ uiItemsCount' = n + 1
          /\ UNCHANGED <<uiEndPosition, bIsExcluding, pvDstItem>>
      BY <1>1, <1>4 DEF PutToFront
    <2>2. /\ uiFrontPosition' = Ring(uiEndPosition, n + 1)
          /\ uiFrontPosition' \in 0..uiItemsMaxCount - 1
      BY <1>1, <1>4, <2>1, RingWrap DEF QueueInv
    <2>3. QueueInv'
      <3>1. pcDataHeap' \in [0..uiItemsMaxCount - 1 -> QueueItems]
        BY <2>1 DEF QueueInv
      <3>2. uiItemsCount' \in 0..uiItemsMaxCount
        BY <1>1, <1>4, <2>1
      <3>3. uiFrontPosition' = Ring(uiEndPosition', uiItemsCount')
        BY <2>1, <2>2
      <3> QED BY <2>1, <2>2, <3>1, <3>2, <3>3 DEF QueueInv, Ring
    <2>4. Contents' \in Seq(QueueItems) /\ Len(Contents') = n + 1
      BY <2>1, <2>3, ContentsNext DEF ContentsPlaced
    <2>5. Append(Contents, x) \in Seq(QueueItems) /\ Len(Append(Contents, x)) = n + 1
      BY <1>1, ContentsAre, AppendProperties DEF ContentsPlaced
    <2>6. ASSUME NEW k \in 1..n + 1 PROVE Contents'[k] = Append(Contents, x)[k]
      <3>1. Contents'[k] = pcDataHeap'[Ring(uiEndPosition, k - 1)]
        BY <2>1, <2>3, ContentsNext DEF Ring, ContentsPlaced
      <3>2. k - 1 \in 0..uiItemsMaxCount - 1 /\ n \in 0..uiItemsMaxCount - 1
        BY <1>1, <1>4
      <3>3. Ring(uiEndPosition, k - 1) \in 0..uiItemsMaxCount - 1
        <4>1. k - 1 \in 0..uiItemsMaxCount /\ uiEndPosition \in 0..uiItemsMaxCount - 1
          BY <1>1, <3>2 DEF QueueInv
        <4> QED BY <4>1, RingPlace
      <3>4. CASE k = n + 1
        <4>1. Ring(uiEndPosition, k - 1) = uiFrontPosition
          BY <1>1, <3>4 DEF QueueInv
        <4>2. Contents'[k] = x
          BY <2>1, <3>1, <3>3, <4>1 DEF QueueInv
        <4>3. Append(Contents, x)[Len(Contents) + 1] = x
          BY ContentsAre, AppendProperties DEF ContentsPlaced
        <4> QED BY <1>1, <3>4, <4>2, <4>3
      <3>5. CASE k # n + 1
        <4>1. k \in 1..n
          BY <1>1, <3>5
        <4>2. Ring(uiEndPosition, k - 1) # uiFrontPosition
          <5>1. uiFrontPosition = Ring(uiEndPosition, n) /\ k - 1 # n
            BY <1>1, <4>1 DEF QueueInv
          <5> QED BY <3>2, <5>1, RingApart DEF QueueInv
        <4>3. Contents'[k] = pcDataHeap[Ring(uiEndPosition, k - 1)]
          BY <2>1, <3>1, <3>3, <4>2 DEF QueueInv
        <4>4. Contents[k] = pcDataHeap[Ring(uiEndPosition, k - 1)]
          BY <4>1, ContentsAre DEF ContentsPlaced
        <4>5. Append(Contents, x)[k] = Contents[k]
          BY <1>1, <4>1, ContentsAre, AppendProperties DEF ContentsPlaced
        <4> QED BY <4>3, <4>4, <4>5
      <3> QED BY <3>4, <3>5
    <2>7. Contents' = Append(Contents, x)
      BY <2>4, <2>5, <2>6, SeqEqual
    <2>8. ~ (bIsExcluding /\ FifoPromise!Holds(x))
      BY <1>4, HoldsIs DEF Refused
    <2> QED BY <1>1, <1>4, <2>1, <2>3, <2>7, <2>8 DEF FifoPromise!Put
  <1> QED BY <1>1, <1>2, <1>3, <1>4

LEMMA ReceiveStep ==
    ASSUME QueueInv, ReceiveFromEnd
    PROVE  QueueInv' /\ FifoPromise!Receive
  <1> DEFINE n == uiItemsCount
  <1>1. /\ n \in 0..uiItemsMaxCount /\ uiItemsMaxCount \in Nat \ {0}
        /\ Contents \in Seq(QueueItems) /\ Len(Contents) = n
    BY QueueAssumption, ContentsAre DEF QueueInv, ContentsPlaced
  <1>2. CASE n = 0
    <2>1. QueueInv'
      BY <1>1, <1>2 DEF ReceiveFromEnd, QueueInv, Ring
    <2>2. Contents' = Contents /\ Contents = <<>>
      BY <1>1, <1>2, ContentsKept, EmptySeq DEF ReceiveFromEnd
    <2> QED BY <1>1, <1>2, <2>1, <2>2 DEF ReceiveFromEnd, FifoPromise!Receive
  <1>3. CASE n > 0
    <2>1. /\ queueResult # "none" /\ queueResult' = "success"
          /\ pvDstItem' = pcDataHeap[uiEndPosition]
          /\ uiEndPosition' = Wrap(uiEndPosition)
          /\ uiItemsCount' = n - 1
          /\ UNCHANGED <<pcDataHeap, uiFrontPosition, bIsExcluding, pvSrcItem>>
      BY <1>1, <1>3 DEF ReceiveFromEnd
    <2>2. uiEndPosition \in 0..uiItemsMaxCount - 1 /\ uiEndPosition' \in 0..uiItemsMaxCount - 1
      BY <1>1, <2>1, RingWrap DEF QueueInv
    <2>3. \A k \in 0..n - 1 : Ring(uiEndPosition', k) = Ring(uiEndPosition, k + 1)
      BY <1>1, <2>1, <2>2, RingWrap
    <2>4. QueueInv'
      <3>1. n - 1 \in 0..n - 1 /\ (n - 1) + 1 = n /\ n - 1 \in 0..uiItemsMaxCount
        BY <1>1, <1>3
      <3>2. uiFrontPosition' = Ring(uiEndPosition', uiItemsCount')
        BY <2>1, <2>3, <3>1 DEF QueueInv
      <3> QED BY <2>1, <2>2, <3>1, <3>2 DEF QueueInv, Ring
    <2>5. Contents # <<>>
      BY <1>1, <1>3, EmptySeq
    <2>6. pvDstItem' = Head(Contents)
      <3>1. Contents[1] = pcDataHeap[Ring(uiEndPosition, 1 - 1)]
        BY <1>1, <1>3, ContentsAre DEF ContentsPlaced
      <3>2. Ring(uiEndPosition, 1 - 1) = uiEndPosition
        BY <1>1, <2>2, RingPlace
      <3> QED BY <1>1, <2>1, <2>5, <3>1, <3>2
    <2>7. Contents' \in Seq(QueueItems) /\ Len(Contents') = n - 1
      BY <2>1, <2>4, ContentsNext DEF ContentsPlaced
    <2>8. Tail(Contents) \in Seq(QueueItems) /\ Len(Tail(Contents)) = n - 1
      BY <1>1, <2>5, HeadTailProperties
    <2>9. ASSUME NEW k \in 1..n - 1 PROVE Contents'[k] = Tail(Contents)[k]
      <3>1. k - 1 \in 0..n - 1 /\ (k - 1) + 1 = k /\ k + 1 \in 1..n /\ (k + 1) - 1 = k
        BY <1>1
      <3>2. Contents'[k] = pcDataHeap[Ring(uiEndPosition', k - 1)]
        BY <2>1, <2>4, ContentsNext DEF Ring, ContentsPlaced
      <3>3. Contents[k + 1] = pcDataHeap[Ring(uiEndPosition, k)]
        BY <3>1, ContentsAre DEF ContentsPlaced
      <3>4. Tail(Contents)[k] = Contents[k + 1]
        BY <1>1, <2>5, <2>8, HeadTailProperties
      <3> QED BY <2>3, <3>1, <3>2, <3>3, <3>4
    <2>10. Contents' = Tail(Contents)
      BY <2>7, <2>8, <2>9, SeqEqual
    <2> QED BY <2>1, <2>4, <2>5, <2>6, <2>10 DEF FifoPromise!Receive
  <1> QED BY <1>1, <1>2, <1>3

LEMMA QueueStep ==
    QueueInv /\ [QueueNext]_queueVars => QueueInv' /\ [FifoPromise!Next]_FifoPromise!vars
  <1> SUFFICES ASSUME QueueInv, [QueueNext]_queueVars
               PROVE  QueueInv' /\ [FifoPromise!Next]_FifoPromise!vars
    OBVIOUS
  <1>1. CASE InitQueue
    BY <1>1, InitStep
  <1>2. CASE ReceiveFromEnd
    BY <1>2, ReceiveStep DEF FifoPromise!Next
  <1>3. ASSUME NEW x \in QueueItems, PutToFront(x)
        PROVE  QueueInv' /\ [FifoPromise!Next]_FifoPromise!vars
    BY <1>3, PutStep DEF FifoPromise!Next
  <1>4. CASE UNCHANGED queueVars
    BY <1>4, ContentsKept DEF queueVars, QueueInv, Ring, FifoPromise!vars
  <1> QED BY <1>1, <1>2, <1>3, <1>4 DEF QueueNext

(* The ring buffer is a first-in first-out queue of uiItemsMaxCount items    *)
(* through every wrap of its positions, also when it is full and both are    *)
(* the same place; an excluding queue never holds an item twice.             *)
THEOREM QueueCorrect == Spec => QueueImplemented
  <1>1. Init => QueueInv /\ FifoPromise!Init
    BY QueueStart DEF Init
  <1>2. [Next]_vars => [QueueNext]_queueVars
    BY DEF Next, Idle, vars, queueVars
  <1>3. QueueInv /\ [Next]_vars => QueueInv' /\ [FifoPromise!Next]_FifoPromise!vars
    BY <1>2, QueueStep
  <1> QED BY <1>1, <1>3, PTL DEF Spec, QueueImplemented, FifoPromise!Spec

-----------------------------------------------------------------------------
(* The sorted array. *)

ListRecords == [uiKey : Keys, pvItem : ListItems \cup {Null}]

(* The items are sorted by their keys, no key comes twice. *)
ListInv ==
    /\ pxItems \in Seq(ListRecords)
    /\ \A i, j \in 0..uiCount - 1 : i < j => Key(i) < Key(j)

(* Where the key k belongs among the places l to r. *)
Between(k, l, r, s) ==
    /\ s \in l..r + 1
    /\ \A j \in l..s - 1 : Key(j) < k
    /\ s <= r => k <= Key(s)

(* What the bisection finds there. *)
Lands(k, l, r, s) ==
    IF l > r THEN s = l
    ELSE IF l = 0 /\ k < Key(0) THEN s = -1
    ELSE Between(k, l, r, s)

Halve(g, k, p) ==
    LET l == p[1]
        r == p[2]
        mid == (l + r) \div 2
    IN  IF l > r THEN l
        ELSE IF k = Key(mid) THEN mid
        ELSE IF k > Key(mid) THEN g[<<mid + 1, r>>]
        ELSE IF mid = 0 THEN -1
        ELSE g[<<l, mid - 1>>]

LEMMA ListTypes ==
    ASSUME ListInv
    PROVE  /\ uiCount \in Nat
           /\ \A i \in 0..uiCount - 1 : /\ pxItems[i + 1] \in ListRecords
                                        /\ Key(i) \in Nat /\ Key(i) \in Keys
                                        /\ Item(i) \in ListItems \cup {Null}
  <1>1. uiCount \in Nat
    BY LenProperties DEF ListInv, uiCount
  <1>2. ASSUME NEW i \in 0..uiCount - 1
        PROVE  /\ pxItems[i + 1] \in ListRecords /\ Key(i) \in Nat /\ Key(i) \in Keys
               /\ Item(i) \in ListItems \cup {Null}
    <2>1. i + 1 \in 1..Len(pxItems)
      BY <1>1 DEF uiCount
    <2>2. pxItems[i + 1] \in ListRecords
      BY <2>1, ElementOfSeq DEF ListInv
    <2> QED BY <2>2, ListAssumption DEF ListRecords, Key, Item, Keys
  <1> QED BY <1>1, <1>2

LEMMA KeyOrder ==
    ASSUME ListInv, NEW i \in 0..uiCount - 1, NEW j \in 0..uiCount - 1
    PROVE  (i < j <=> Key(i) < Key(j)) /\ (i = j <=> Key(i) = Key(j))
  <1>1. Key(i) \in Nat /\ Key(j) \in Nat /\ i \in Int /\ j \in Int
    BY ListTypes
  <1>2. (i < j => Key(i) < Key(j)) /\ (j < i => Key(j) < Key(i))
    BY DEF ListInv
  <1> QED BY <1>1, <1>2

LEMMA BetweenUnique ==
    ASSUME ListInv, NEW k \in Nat, NEW l \in 0..uiCount, NEW r \in 0..uiCount - 1,
           NEW s, NEW t, Lands(k, l, r, s), Lands(k, l, r, t)
    PROVE  s = t
  <1>0. uiCount \in Nat
    BY ListTypes
  <1>1. CASE l <= r /\ ~ (l = 0 /\ k < Key(0))
    <2>1. /\ s \in l..r + 1 /\ t \in l..r + 1
          /\ \A j \in l..s - 1 : Key(j) < k
          /\ \A j \in l..t - 1 : Key(j) < k
          /\ s <= r => k <= Key(s)
          /\ t <= r => k <= Key(t)
      BY <1>0, <1>1 DEF Lands, Between
    <2>2. \A j \in l..r : Key(j) \in Nat
      BY <1>0, ListTypes
    <2>3. ~ (s < t)
      <3> SUFFICES ASSUME s < t PROVE FALSE
        OBVIOUS
      <3>1. s \in l..t - 1 /\ s <= r /\ s \in l..r
        BY <1>0, <2>1
      <3> QED BY <2>1, <2>2, <3>1
    <2>4. ~ (t < s)
      <3> SUFFICES ASSUME t < s PROVE FALSE
        OBVIOUS
      <3>1. t \in l..s - 1 /\ t <= r /\ t \in l..r
        BY <1>0, <2>1
      <3> QED BY <2>1, <2>2, <3>1
    <2> QED BY <1>0, <2>1, <2>3, <2>4
  <1> QED BY <1>0, <1>1 DEF Lands

LEMMA LandsSomewhere ==
    ASSUME ListInv, NEW k \in Nat, NEW l \in 0..uiCount, NEW r \in 0..uiCount - 1
    PROVE  \E s : Lands(k, l, r, s)
  <1>0. uiCount \in Nat
    BY ListTypes
  <1>1. CASE l <= r /\ ~ (l = 0 /\ k < Key(0))
    <2> DEFINE S == {s \in l..r + 1 : s = r + 1 \/ k <= Key(s)}
    <2>1. S \subseteq Nat /\ r + 1 \in S
      BY <1>0, <1>1
    <2>2. PICK s \in S : \A t \in S : s <= t
      BY <2>1, LeastNatural
    <2>3. ASSUME NEW j \in l..s - 1 PROVE Key(j) < k
      <3>1. j \in l..r + 1 /\ j # r + 1 /\ j \in 0..uiCount - 1 /\ ~ (s <= j)
        BY <1>0, <2>2
      <3>2. ~ (k <= Key(j))
        BY <2>2, <3>1
      <3> QED BY <3>1, <3>2, ListTypes
    <2>4. Between(k, l, r, s)
      BY <1>0, <2>2, <2>3 DEF Between
    <2> QED BY <1>0, <1>1, <2>4 DEF Lands
  <1> QED BY <1>0, <1>1 DEF Lands

(* One step of the bisection. *)
LEMMA LandsInHalf ==
    ASSUME ListInv, NEW k \in Nat, NEW l \in 0..uiCount, NEW r \in 0..uiCount - 1, l <= r,
           NEW mid, mid = (l + r) \div 2
    PROVE  /\ mid \in l..r
           /\ k = Key(mid) => Lands(k, l, r, mid)
           /\ k > Key(mid) => \A s : Lands(k, mid + 1, r, s) => Lands(k, l, r, s)
           /\ k < Key(mid) /\ mid = 0 => Lands(k, l, r, -1)
           /\ k < Key(mid) /\ mid # 0 =>
                 \A s : Lands(k, l, mid - 1, s) => Lands(k, l, r, s)
  <1>0. uiCount \in Nat
    BY ListTypes
  <1>1. mid \in l..r /\ mid \in 0..uiCount - 1
    BY <1>0
  <1>2. \A j \in l..r : /\ Key(j) \in Nat
                        /\ j < mid <=> Key(j) < Key(mid)
                        /\ mid < j <=> Key(mid) < Key(j)
    <2> SUFFICES ASSUME NEW j \in l..r
                 PROVE  /\ Key(j) \in Nat
                        /\ j < mid <=> Key(j) < Key(mid)
                        /\ mid < j <=> Key(mid) < Key(j)
      OBVIOUS
    <2>1. j \in 0..uiCount - 1
      BY <1>0
    <2> QED BY <1>1, <2>1, KeyOrder, ListTypes
  <1>3. l = 0 => Key(0) \in Nat /\ Key(0) <= Key(mid)
    <2> SUFFICES ASSUME l = 0 PROVE Key(0) \in Nat /\ Key(0) <= Key(mid)
      OBVIOUS
    <2>1. 0 \in l..r /\ (0 = mid \/ 0 < mid)
      BY <1>0, <1>1
    <2> QED BY <1>1, <1>2, <2>1
  <1>4. Key(mid) \in Nat
    BY <1>1, <1>2
  <1>5. ASSUME k = Key(mid) PROVE Lands(k, l, r, mid)
    <2>1. ~ (l = 0 /\ k < Key(0))
      BY <1>3, <1>4, <1>5
    <2>2. \A j \in l..mid - 1 : Key(j) < k
      BY <1>1, <1>2, <1>5
    <2>3. Between(k, l, r, mid)
      BY <1>0, <1>1, <1>4, <1>5, <2>2 DEF Between
    <2> QED BY <2>1, <2>3 DEF Lands
  <1>6. ASSUME k > Key(mid), NEW s, Lands(k, mid + 1, r, s) PROVE Lands(k, l, r, s)
    <2>1. ~ (l = 0 /\ k < Key(0)) /\ mid + 1 # 0
      BY <1>1, <1>3, <1>4, <1>6
    <2>2. s \in mid + 1..r + 1 /\ (\A j \in mid + 1..s - 1 : Key(j) < k) /\ (s <= r => k <= Key(s))
      <3>1. CASE mid + 1 > r
        BY <1>0, <1>1, <1>6, <3>1 DEF Lands
      <3>2. CASE mid + 1 <= r
        BY <1>0, <1>1, <1>6, <2>1, <3>2 DEF Lands, Between
      <3> QED BY <1>0, <1>1, <3>1, <3>2
    <2>3. ASSUME NEW j \in l..s - 1 PROVE Key(j) < k
      <3>1. CASE j \in mid + 1..s - 1
        BY <2>2, <3>1
      <3>2. CASE j \in l..mid
        <4>1. Key(j) \in Nat /\ (j = mid \/ Key(j) < Key(mid))
          BY <1>0, <1>1, <1>2, <3>2
        <4> QED BY <1>4, <1>6, <4>1
      <3> QED BY <1>0, <1>1, <2>2, <3>1, <3>2
    <2>4. Between(k, l, r, s)
      BY <1>0, <1>1, <2>2, <2>3 DEF Between
    <2> QED BY <2>1, <2>4 DEF Lands
  <1>7. ASSUME k < Key(mid), mid = 0 PROVE Lands(k, l, r, -1)
    <2>1. l = 0
      BY <1>0, <1>1, <1>7
    <2> QED BY <1>7, <2>1 DEF Lands
  <1>8. ASSUME k < Key(mid), mid # 0, NEW s, Lands(k, l, mid - 1, s) PROVE Lands(k, l, r, s)
    <2>1. CASE l > mid - 1
      <3>1. l = mid /\ s = l
        BY <1>0, <1>1, <1>8, <2>1 DEF Lands
      <3>2. Between(k, l, r, s)
        BY <1>0, <1>1, <1>4, <1>8, <3>1 DEF Between
      <3> QED BY <1>0, <1>8, <3>1, <3>2 DEF Lands
    <2>2. CASE l <= mid - 1 /\ l = 0 /\ k < Key(0)
      BY <1>0, <1>1, <1>8, <2>2 DEF Lands
    <2>3. CASE l <= mid - 1 /\ ~ (l = 0 /\ k < Key(0))
      <3>1. s \in l..mid /\ (\A j \in l..s - 1 : Key(j) < k) /\ (s <= mid - 1 => k <= Key(s))
        BY <1>0, <1>1, <1>8, <2>3 DEF Lands, Between
      <3>2. s <= r => k <= Key(s)
        <4>1. s = mid \/ s <= mid - 1
          BY <1>0, <1>1, <3>1
        <4> QED BY <1>4, <1>8, <3>1, <4>1
      <3>3. Between(k, l, r, s)
        BY <1>0, <1>1, <3>1, <3>2 DEF Between
      <3> QED BY <2>3, <3>3 DEF Lands
    <2> QED BY <1>0, <1>1, <2>1, <2>2, <2>3
  <1> QED BY <1>1, <1>5, <1>6, <1>7, <1>8

LEMMA SearchLands ==
    ASSUME ListInv, NEW k \in Nat, uiCount # 0
    PROVE  Lands(k, 0, uiCount - 1, Search(k))
  <1> DEFINE Ranges == (0..uiCount) \X (0..uiCount - 1)
             within == CHOOSE g : g = [p \in Ranges |-> Halve(g, k, p)]
             place == [p \in Ranges |-> CHOOSE s : Lands(k, p[1], p[2], s)]
  <1>0. uiCount \in Nat
    BY ListTypes
  <1>1. Search(k) = within[<<0, uiCount - 1>>]
    BY <1>0 DEF Search, Halve
  <1>2. ASSUME NEW p \in Ranges
        PROVE  /\ p = <<p[1], p[2]>> /\ p[1] \in 0..uiCount /\ p[2] \in 0..uiCount - 1
               /\ Lands(k, p[1], p[2], place[p])
    BY <1>0, LandsSomewhere
  <1>3. ASSUME NEW g, NEW p \in Ranges, p[1] <= p[2]
        PROVE  LET mid == (p[1] + p[2]) \div 2
               IN  /\ k > Key(mid) => <<mid + 1, p[2]>> \in Ranges
                   /\ k < Key(mid) /\ mid # 0 => <<p[1], mid - 1>> \in Ranges
                   /\ (k > Key(mid) => Lands(k, mid + 1, p[2], g[<<mid + 1, p[2]>>]))
                      /\ (k < Key(mid) /\ mid # 0 => Lands(k, p[1], mid - 1, g[<<p[1], mid - 1>>]))
                      => Lands(k, p[1], p[2], Halve(g, k, p))
    <2> DEFINE l == p[1]
               r == p[2]
               mid == (l + r) \div 2
    <2>1. l \in 0..uiCount /\ r \in 0..uiCount - 1 /\ l <= r
      BY <1>3
    <2>2. mid \in l..r
      BY <1>0, <2>1
    <2>3. <<mid + 1, r>> \in Ranges /\ (mid # 0 => <<l, mid - 1>> \in Ranges)
      BY <1>0, <2>1, <2>2
    <2>4. /\ k = Key(mid) => Lands(k, l, r, mid)
          /\ k > Key(mid) => \A s : Lands(k, mid + 1, r, s) => Lands(k, l, r, s)
          /\ k < Key(mid) /\ mid = 0 => Lands(k, l, r, -1)
          /\ k < Key(mid) /\ mid # 0 => \A s : Lands(k, l, mid - 1, s) => Lands(k, l, r, s)
      BY <2>1, LandsInHalf
    <2>5. Key(mid) \in Nat
      <3>1. mid \in 0..uiCount - 1
        BY <1>0, <2>1, <2>2
      <3> QED BY <3>1, ListTypes
    <2>6. Halve(g, k, p) = IF k = Key(mid) THEN mid
                           ELSE IF k > Key(mid) THEN g[<<mid + 1, r>>]
                           ELSE IF mid = 0 THEN -1 ELSE g[<<l, mid - 1>>]
      BY <1>0, <2>1 DEF Halve
    <2> HIDE DEF mid, l, r
    <2>7. ASSUME k > Key(mid) => Lands(k, mid + 1, r, g[<<mid + 1, r>>]),
                 k < Key(mid) /\ mid # 0 => Lands(k, l, mid - 1, g[<<l, mid - 1>>])
          PROVE  Lands(k, l, r, Halve(g, k, p))
      <3>1. CASE k = Key(mid)
        BY <2>4, <2>6, <3>1
      <3>2. CASE k > Key(mid)
        BY <2>4, <2>5, <2>6, <2>7, <3>2
      <3>3. CASE k < Key(mid) /\ mid = 0
        BY <2>4, <2>5, <2>6, <3>3
      <3>4. CASE k < Key(mid) /\ mid # 0
        BY <2>4, <2>5, <2>6, <2>7, <3>4
      <3> QED BY <2>5, <3>1, <3>2, <3>3, <3>4
    <2> QED BY <2>3, <2>7 DEF mid, l, r
  <1>4. ASSUME NEW g, NEW p \in Ranges, p[1] > p[2] PROVE Lands(k, p[1], p[2], Halve(g, k, p))
    BY <1>4 DEF Lands, Halve
  <1>5. place = [p \in Ranges |-> Halve(place, k, p)]
    <2> HIDE DEF place
    <2>1. ASSUME NEW p \in Ranges PROVE Lands(k, p[1], p[2], Halve(place, k, p))
      <3>1. CASE p[1] > p[2]
        BY <1>4, <3>1
      <3>2. CASE p[1] <= p[2]
        <4> DEFINE mid == (p[1] + p[2]) \div 2
        <4>1. k > Key(mid) => <<mid + 1, p[2]>> \in Ranges
          BY <1>3, <3>2
        <4>2. k > Key(mid) => Lands(k, mid + 1, p[2], place[<<mid + 1, p[2]>>])
          BY <1>2, <4>1
        <4>3. k < Key(mid) /\ mid # 0 => <<p[1], mid - 1>> \in Ranges
          BY <1>3, <3>2
        <4>4. k < Key(mid) /\ mid # 0 => Lands(k, p[1], mid - 1, place[<<p[1], mid - 1>>])
          BY <1>2, <4>3
        <4> QED BY <1>3, <3>2, <4>2, <4>4
      <3> QED BY <1>0, <1>2, <3>1, <3>2
    <2>2. ASSUME NEW p \in Ranges PROVE place[p] = Halve(place, k, p)
      BY <1>2, <2>1, BetweenUnique
    <2>3. place = [p \in Ranges |-> place[p]]
      BY DEF place
    <2> QED BY <2>2, <2>3
  <1>6. within = [p \in Ranges |-> Halve(within, k, p)]
    BY <1>5, Zenon
  <1>7. \A p \in Ranges : within[p] = Halve(within, k, p)
    BY <1>6, Zenon
  <1> HIDE DEF within, place
  <1>8. \A p \in Ranges : Lands(k, p[1], p[2], within[p])
    <2> DEFINE Wrong == {d \in Nat : \E p \in Ranges : p[1] <= p[2] /\ d = p[2] - p[1]
                                                    /\ ~ Lands(k, p[1], p[2], within[p])}
    <2>1. ASSUME Wrong # {} PROVE FALSE
      <3>1. PICK d \in Wrong : \A e \in Wrong : d <= e
        BY <2>1, LeastNatural
      <3>2. PICK p \in Ranges : /\ p[1] <= p[2] /\ d = p[2] - p[1]
                                /\ ~ Lands(k, p[1], p[2], within[p])
        BY <3>1
      <3> DEFINE l == p[1]
                 r == p[2]
                 mid == (l + r) \div 2
      <3>3. l \in 0..uiCount /\ r \in 0..uiCount - 1 /\ mid \in l..r /\ mid \in 0..uiCount - 1
        BY <1>0, <1>2, <3>2
      <3>4. k > Key(mid) => Lands(k, mid + 1, r, within[<<mid + 1, r>>])
        <4> SUFFICES ASSUME k > Key(mid) PROVE Lands(k, mid + 1, r, within[<<mid + 1, r>>])
          OBVIOUS
        <4> DEFINE q == <<mid + 1, r>>
        <4>1. q \in Ranges /\ q[1] = mid + 1 /\ q[2] = r
          BY <1>0, <3>3
        <4>2. CASE mid + 1 > r
          <5>1. within[q] = mid + 1
            BY <1>7, <4>1, <4>2 DEF Halve
          <5> QED BY <4>2, <5>1 DEF Lands
        <4>3. CASE mid + 1 <= r
          <5>1. r - (mid + 1) \in Nat /\ r - (mid + 1) < d /\ d \in Nat
            BY <1>0, <3>2, <3>3, <4>3
          <5>2. r - (mid + 1) \notin Wrong
            BY <3>1, <5>1
          <5> QED BY <4>1, <4>3, <5>1, <5>2
        <4> QED BY <1>0, <3>3, <4>2, <4>3
      <3>5. k < Key(mid) /\ mid # 0 => Lands(k, l, mid - 1, within[<<l, mid - 1>>])
        <4> SUFFICES ASSUME k < Key(mid), mid # 0
                     PROVE  Lands(k, l, mid - 1, within[<<l, mid - 1>>])
          OBVIOUS
        <4> DEFINE q == <<l, mid - 1>>
        <4>1. q \in Ranges /\ q[1] = l /\ q[2] = mid - 1
          BY <1>0, <3>3
        <4>2. CASE l > mid - 1
          <5>1. within[q] = l
            BY <1>7, <4>1, <4>2 DEF Halve
          <5> QED BY <4>2, <5>1 DEF Lands
        <4>3. CASE l <= mid - 1
          <5>1. (mid - 1) - l \in Nat /\ (mid - 1) - l < d /\ d \in Nat
            BY <1>0, <3>2, <3>3, <4>3
          <5>2. (mid - 1) - l \notin Wrong
            BY <3>1, <5>1
          <5> QED BY <4>1, <4>3, <5>1, <5>2
        <4> QED BY <1>0, <3>3, <4>2, <4>3
      <3>6. Lands(k, l, r, Halve(within, k, p))
        BY <1>3, <3>2, <3>4, <3>5
      <3> QED BY <1>7, <3>2, <3>6
    <2>2. ASSUME NEW p \in Ranges PROVE Lands(k, p[1], p[2], within[p])
      <3>1. CASE p[1] > p[2]
        BY <1>4, <1>7, <3>1
      <3>2. CASE p[1] <= p[2]
        <4>1. p[2] - p[1] \in Nat
          BY <1>0, <1>2, <3>2
        <4> QED BY <2>1, <3>2, <4>1
      <3> QED BY <1>0, <1>2, <3>1, <3>2
    <2> QED BY <2>2
  <1>9. <<0, uiCount - 1>> \in Ranges
    BY <1>0
  <1> QED BY <1>1, <1>8, <1>9

-----------------------------------------------------------------------------
(* What the searches return. *)

LEMMA SearchPlace ==
    ASSUME ListInv, NEW k \in Nat
    PROVE  IF uiCount = 0 THEN Search(k) = -1
           ELSE IF k < Key(0) THEN Search(k) = -1
           ELSE /\ Search(k) \in 0..uiCount
                /\ \A j \in 0..Search(k) - 1 : Key(j) < k
                /\ Search(k) < uiCount => k <= Key(Search(k))
  <1>0. uiCount \in Nat
    BY ListTypes
  <1>1. CASE uiCount = 0
    BY <1>1 DEF Search
  <1>2. CASE uiCount # 0
    <2>1. Lands(k, 0, uiCount - 1, Search(k)) /\ ~ (0 > uiCount - 1)
      BY <1>0, <1>2, SearchLands
    <2> QED BY <1>0, <1>2, <2>1 DEF Lands, Between
  <1> QED BY <1>1, <1>2

LEMMA BinarySearchFinds ==
    ASSUME ListInv, NEW k \in Nat
    PROVE  /\ \A i \in 0..uiCount - 1 : Key(i) = k => iBinarySearch(k) = i
           /\ (\A i \in 0..uiCount - 1 : Key(i) # k) => iBinarySearch(k) = -1
           /\ iBinarySearch(k) # -1 =>
                 iBinarySearch(k) \in 0..uiCount - 1 /\ Key(iBinarySearch(k)) = k
  <1>0. uiCount \in Nat
    BY ListTypes
  <1>1. ASSUME NEW i \in 0..uiCount - 1, Key(i) = k PROVE Search(k) = i
    <2>1. uiCount # 0 /\ ~ (k < Key(0))
      <3>1. 0 \in 0..uiCount - 1 /\ (i = 0 \/ 0 < i)
        BY <1>0
      <3>2. Key(0) \in Nat /\ (Key(0) = Key(i) \/ Key(0) < Key(i))
        BY <3>1, KeyOrder, ListTypes
      <3> QED BY <1>0, <1>1, <3>2
    <2>2. /\ Search(k) \in 0..uiCount
          /\ \A j \in 0..Search(k) - 1 : Key(j) < k
          /\ Search(k) < uiCount => k <= Key(Search(k))
      BY <2>1, SearchPlace
    <2>3. ~ (i < Search(k))
      <3> SUFFICES ASSUME i < Search(k) PROVE FALSE
        OBVIOUS
      <3>1. i \in 0..Search(k) - 1
        BY <1>0, <2>2
      <3> QED BY <1>1, <2>2, <3>1
    <2>4. ~ (Search(k) < i)
      <3> SUFFICES ASSUME Search(k) < i PROVE FALSE
        OBVIOUS
      <3>1. Search(k) \in 0..uiCount - 1 /\ Search(k) < uiCount
        BY <1>0, <2>2
      <3>2. Key(Search(k)) < k /\ Key(Search(k)) \in Nat
        BY <1>1, <3>1, KeyOrder, ListTypes
      <3> QED BY <2>2, <3>1, <3>2
    <2> QED BY <1>0, <2>2, <2>3, <2>4
  <1>2. ASSUME NEW i \in 0..uiCount - 1, Key(i) = k PROVE iBinarySearch(k) = i
    BY <1>1, <1>2 DEF iBinarySearch
  <1>3. iBinarySearch(k) # -1 =>
           iBinarySearch(k) \in 0..uiCount - 1 /\ Key(iBinarySearch(k)) = k
    BY DEF iBinarySearch
  <1> QED BY <1>2, <1>3

LEMMA PlaceIs ==
    ASSUME ListInv, NEW k \in Nat
    PROVE  /\ Place(k) \in 0..uiCount
           /\ \A j \in 0..Place(k) - 1 : Key(j) < k
           /\ \A j \in Place(k)..uiCount - 1 : k <= Key(j)
  <1> DEFINE Down(g, n) == IF n = 0 \/ k > Key(n - 1) THEN n ELSE g[n - 1]
             from == CHOOSE g : g = [n \in 0..uiCount |-> Down(g, n)]
             Right(n, m) == /\ m \in 0..n
                            /\ m = 0 \/ k > Key(m - 1)
                            /\ \A j \in m..n - 1 : k <= Key(j)
             least == [n \in 0..uiCount |-> CHOOSE m : Right(n, m)]
  <1>0. uiCount \in Nat /\ \A j \in 0..uiCount - 1 : Key(j) \in Nat
    BY ListTypes
  <1>1. Place(k) = from[uiCount]
    BY DEF Place
  <1>2. ASSUME NEW g, NEW n \in 0..uiCount, n # 0 => Right(n - 1, g[n - 1])
        PROVE  Right(n, Down(g, n))
    <2>1. CASE n = 0 \/ k > Key(n - 1)
      BY <1>0, <2>1
    <2>2. CASE ~ (n = 0 \/ k > Key(n - 1))
      <3>1. n - 1 \in 0..uiCount - 1 /\ k <= Key(n - 1) /\ Right(n - 1, g[n - 1])
        BY <1>0, <1>2, <2>2
      <3>2. \A j \in g[n - 1]..n - 1 : j = n - 1 \/ j \in g[n - 1]..(n - 1) - 1
        BY <1>0, <3>1
      <3>3. Right(n, g[n - 1])
        BY <1>0, <3>1, <3>2
      <3> QED BY <2>2, <3>3
    <2> QED BY <2>1, <2>2
  <1>3. ASSUME NEW n \in 0..uiCount, NEW a, NEW b, Right(n, a), Right(n, b) PROVE a = b
    <2>1. ~ (a < b)
      <3> SUFFICES ASSUME a < b PROVE FALSE
        OBVIOUS
      <3>1. b - 1 \in a..n - 1 /\ b # 0 /\ b - 1 \in 0..uiCount - 1
        BY <1>0, <1>3
      <3> QED BY <1>0, <1>3, <3>1
    <2>2. ~ (b < a)
      <3> SUFFICES ASSUME b < a PROVE FALSE
        OBVIOUS
      <3>1. a - 1 \in b..n - 1 /\ a # 0 /\ a - 1 \in 0..uiCount - 1
        BY <1>0, <1>3
      <3> QED BY <1>0, <1>3, <3>1
    <2> QED BY <1>0, <1>3, <2>1, <2>2
  <1>4. ASSUME NEW n \in 0..uiCount PROVE \E m : Right(n, m)
    <2> DEFINE S == {m \in 0..n : \A j \in m..n - 1 : k <= Key(j)}
    <2>1. S \subseteq Nat /\ n \in S
      BY <1>0
    <2>2. PICK m \in S : \A i \in S : m <= i
      BY <2>1, LeastNatural
    <2>3. m = 0 \/ k > Key(m - 1)
      <3> SUFFICES ASSUME m # 0, ~ (k > Key(m - 1)) PROVE FALSE
        OBVIOUS
      <3>1. m - 1 \in 0..n /\ m - 1 \in 0..uiCount - 1
        BY <1>0, <2>2
      <3>2. k <= Key(m - 1)
        BY <1>0, <3>1
      <3>3. \A j \in m - 1..n - 1 : j = m - 1 \/ j \in m..n - 1
        BY <1>0, <2>2
      <3>4. m - 1 \in S
        BY <2>2, <3>1, <3>2, <3>3
      <3> QED BY <2>2, <3>1, <3>4
    <2> QED BY <2>2, <2>3
  <1>5. ASSUME NEW n \in 0..uiCount PROVE Right(n, least[n])
    BY <1>4
  <1> HIDE DEF Right
  <1>6. least = [n \in 0..uiCount |-> Down(least, n)]
    <2> HIDE DEF least, Down
    <2>1. ASSUME NEW n \in 0..uiCount PROVE least[n] = Down(least, n)
      <3>1. n # 0 => n - 1 \in 0..uiCount
        BY <1>0
      <3> QED BY <1>2, <1>3, <1>5, <3>1
    <2>2. least = [n \in 0..uiCount |-> least[n]]
      BY DEF least
    <2> QED BY <2>1, <2>2
  <1>7. from = [n \in 0..uiCount |-> Down(from, n)]
    BY <1>6, Zenon
  <1>8. \A n \in 0..uiCount : from[n] = Down(from, n)
    BY <1>7, Zenon
  <1> HIDE DEF from, least, Down
  <1>9. \A n \in 0..uiCount : Right(n, from[n])
    <2> DEFINE Wrong == {n \in Nat : n \in 0..uiCount /\ ~ Right(n, from[n])}
    <2>1. ASSUME Wrong # {} PROVE FALSE
      <3>1. PICK n \in Wrong : \A m \in Wrong : n <= m
        BY <2>1, LeastNatural
      <3>2. n # 0 => n - 1 \in 0..uiCount /\ n - 1 \in Nat /\ ~ (n <= n - 1)
        BY <1>0, <3>1
      <3>3. n # 0 => Right(n - 1, from[n - 1])
        BY <3>1, <3>2
      <3> QED BY <1>2, <1>8, <3>1, <3>3
    <2> QED BY <1>0, <2>1
  <1>10. Right(uiCount, Place(k))
    BY <1>0, <1>1, <1>9
  <1>11. Place(k) \in 0..uiCount /\ (Place(k) = 0 \/ k > Key(Place(k) - 1))
         /\ \A j \in Place(k)..uiCount - 1 : k <= Key(j)
    BY <1>10 DEF Right
  <1>12. ASSUME NEW j \in 0..Place(k) - 1 PROVE Key(j) < k
    <2>1. Place(k) - 1 \in 0..uiCount - 1 /\ j \in 0..uiCount - 1 /\ Place(k) # 0
          /\ (j = Place(k) - 1 \/ j < Place(k) - 1)
      BY <1>0, <1>11
    <2>2. Key(j) <= Key(Place(k) - 1)
      BY <1>0, <2>1, KeyOrder
    <2> QED BY <1>0, <1>11, <2>1, <2>2
  <1> QED BY <1>11, <1>12

-----------------------------------------------------------------------------
(* The map that the array stands for, and the places of its keys. *)

MapPlaced ==
    /\ Stored = {Key(i) : i \in 0..uiCount - 1}
    /\ Map = [k \in Stored |-> Map[k]] /\ DOMAIN Map = Stored
    /\ \A i \in 0..uiCount - 1 : Map[Key(i)] = Item(i)

LEMMA MapIs == ListInv => MapPlaced
  <1> SUFFICES ASSUME ListInv PROVE MapPlaced
    OBVIOUS
  <1>1. ASSUME NEW i \in 0..uiCount - 1 PROVE Map[Key(i)] = Item(i)
    <2>0. uiCount \in Nat /\ uiCount = Len(pxItems) /\ DOMAIN pxItems = 1..Len(pxItems)
      BY ListTypes, LenProperties DEF uiCount, ListInv
    <2>1. pxItems[i + 1] \in ToSet(pxItems) /\ pxItems[i + 1].uiKey = Key(i)
      BY <2>0 DEF ToSet, Key
    <2>2. ASSUME NEW n \in ToSet(pxItems), n.uiKey = Key(i) PROVE n = pxItems[i + 1]
      <3>1. PICK m \in 1..Len(pxItems) : n = pxItems[m]
        BY <2>0 DEF ToSet
      <3>2. m - 1 \in 0..uiCount - 1 /\ (m - 1) + 1 = m
        BY <2>0
      <3>3. Key(m - 1) = Key(i)
        BY <2>2, <3>1, <3>2 DEF Key
      <3> QED BY <3>1, <3>2, <3>3, KeyOrder
    <2>3. (CHOOSE n \in ToSet(pxItems) : n.uiKey = Key(i)) = pxItems[i + 1]
      BY <2>1, <2>2
    <2>4. Key(i) \in Stored
      BY DEF Stored
    <2> QED BY <2>3, <2>4 DEF Map, Item
  <1> QED BY <1>1 DEF MapPlaced, Stored, Map

LEMMA MapNext == ListInv' => MapPlaced'
  BY MapIs, PTL

(* As many keys as places come before a key's place. *)
LEMMA KeysBefore ==
    ASSUME ListInv, NEW n \in 0..uiCount, NEW k \in Nat,
           \A j \in 0..n - 1 : Key(j) < k, \A j \in n..uiCount - 1 : k <= Key(j)
    PROVE  Cardinality({j \in Stored : j < k}) = n
  <1> DEFINE S == {j \in Stored : j < k}
             f == [m \in 1..n |-> Key(m - 1)]
  <1>0. uiCount \in Nat /\ n \in Nat
    BY ListTypes
  <1>1. ASSUME NEW m \in 1..n
        PROVE  m - 1 \in 0..uiCount - 1 /\ m - 1 \in 0..n - 1 /\ f[m] = Key(m - 1)
    BY <1>0
  <1>2. f \in [1..n -> S]
    <2>1. \A m \in 1..n : Key(m - 1) \in S
      BY <1>1 DEF Stored
    <2> QED BY <2>1
  <1>3. ASSUME NEW a \in 1..n, NEW b \in 1..n, f[a] = f[b] PROVE a = b
    <2>1. Key(a - 1) = Key(b - 1)
      BY <1>1, <1>3
    <2>2. a - 1 = b - 1
      BY <1>1, <2>1, KeyOrder
    <2> QED BY <1>0, <2>2
  <1>4. ASSUME NEW t \in S PROVE \E m \in 1..n : f[m] = t
    <2>1. PICK i \in 0..uiCount - 1 : t = Key(i)
      BY DEF Stored
    <2>2. i \in 0..n - 1
      <3> SUFFICES ASSUME i \notin 0..n - 1 PROVE FALSE
        OBVIOUS
      <3>1. i \in n..uiCount - 1
        BY <1>0
      <3>2. k <= Key(i) /\ Key(i) < k /\ Key(i) \in Nat
        BY <2>1, <3>1, ListTypes
      <3> QED BY <3>2
    <2>3. i + 1 \in 1..n /\ (i + 1) - 1 = i
      BY <1>0, <2>2
    <2> QED BY <2>1, <2>3
  <1> HIDE DEF f, S
  <1>5. f \in Bijection(1..n, S)
    BY <1>2, <1>3, <1>4 DEF Bijection, Injection, Surjection, IsInjective
  <1>6. Cardinality(S) = n
    BY <1>0, <1>5, FS_CountingElements DEF ExistsBijection
  <1> QED BY <1>6 DEF S

LEMMA PromiseCounts ==
    ASSUME NEW S
    PROVE  MapPromise!Cardinality(S) = Cardinality(S)
  BY DEF MapPromise!Cardinality, Cardinality

LEMMA IndexIs ==
    ASSUME ListInv, NEW n \in 0..uiCount, NEW k \in Nat,
           \A j \in 0..n - 1 : Key(j) < k, \A j \in n..uiCount - 1 : k <= Key(j)
    PROVE  MapPromise!Index(k) = n
  <1>1. MapPromise!Stored = Stored
    BY MapIs DEF MapPromise!Stored, MapPlaced
  <1> QED BY <1>1, KeysBefore, PromiseCounts DEF MapPromise!Index

LEMMA IndexOfKey ==
    ASSUME ListInv, NEW i \in 0..uiCount - 1
    PROVE  MapPromise!Index(Key(i)) = i
  <1>1. uiCount \in Nat /\ i \in 0..uiCount /\ Key(i) \in Nat
    BY ListTypes
  <1>2. \A j \in 0..i - 1 : Key(j) < Key(i)
    BY <1>1, KeyOrder
  <1>3. ASSUME NEW j \in i..uiCount - 1 PROVE Key(i) <= Key(j)
    <2>1. j \in 0..uiCount - 1 /\ (i = j \/ i < j)
      BY <1>1
    <2> QED BY <1>1, <2>1, KeyOrder, ListTypes
  <1> QED BY <1>1, <1>2, <1>3, IndexIs

LEMMA FullIs ==
    ASSUME ListInv
    PROVE  MapPromise!Full <=> uiCount >= uiCapacity
  <1>1. uiCount \in Nat /\ KeyCount \in Nat /\ \A i \in 0..uiCount - 1 : Key(i) \in 0..KeyCount - 1
    BY ListTypes, ListAssumption DEF Keys
  <1>2. \A j \in 0..uiCount - 1 : Key(j) < KeyCount
    BY <1>1
  <1>3. Cardinality({j \in Stored : j < KeyCount}) = uiCount
    BY <1>1, <1>2, KeysBefore
  <1>4. {j \in Stored : j < KeyCount} = Stored
    BY <1>2 DEF Stored
  <1>5. MapPromise!Stored = Stored
    BY MapIs DEF MapPromise!Stored, MapPlaced
  <1> QED BY <1>3, <1>4, <1>5, PromiseCounts DEF MapPromise!Full

-----------------------------------------------------------------------------
(* Calls that read. *)

LEMMA ListKept ==
    ASSUME ListInv, UNCHANGED pxItems
    PROVE  ListInv' /\ Map' = Map
  BY DEF ListInv, Map, Stored, uiCount, Key

LEMMA ErrorRefuses ==
    ASSUME ListInv, Error
    PROVE  ListInv' /\ MapPromise!Refuse
  BY ListKept DEF Error, MapPromise!Refuse, MapPromise!Refused

LEMMA ReturnReads ==
    ASSUME ListInv, NEW i \in 0..uiCount - 1, Return(i)
    PROVE  ListInv' /\ MapPromise!Read(Key(i))
  <1>1. Map[Key(i)] = Item(i)
    BY MapIs DEF MapPlaced
  <1>2. ListInv' /\ Map' = Map
    BY ListKept DEF Return
  <1> QED BY <1>1, <1>2, IndexOfKey DEF Return, MapPromise!Read, MapPromise!Answer

LEMMA PromiseStored ==
    ASSUME ListInv
    PROVE  MapPromise!Stored = {Key(i) : i \in 0..uiCount - 1}
  BY MapIs DEF MapPlaced, MapPromise!Stored

LEMMA GetStep ==
    ASSUME ListInv, NEW k \in Keys, GetItem(k)
    PROVE  ListInv' /\ MapPromise!Get(k)
  <1>0. k \in Nat /\ uiCount \in Nat
    BY ListAssumption, ListTypes DEF Keys
  <1> DEFINE i == iBinarySearch(k)
  <1>1. CASE i >= 0 /\ Item(i) # Null
    <2>1. i \in 0..uiCount - 1 /\ Key(i) = k
      BY <1>0, <1>1, BinarySearchFinds
    <2>2. Return(i)
      BY <1>1 DEF GetItem
    <2>3. k \in MapPromise!Stored /\ Map[k] # Null
      BY <1>1, <2>1, MapIs, PromiseStored DEF MapPlaced
    <2> HIDE DEF i
    <2> QED BY <2>1, <2>2, <2>3, ReturnReads DEF MapPromise!Get
  <1>2. CASE ~ (i >= 0 /\ Item(i) # Null)
    <2>1. ~ (k \in MapPromise!Stored /\ Map[k] # Null)
      <3> SUFFICES ASSUME k \in MapPromise!Stored PROVE Map[k] = Null
        OBVIOUS
      <3>1. PICK j \in 0..uiCount - 1 : Key(j) = k
        BY PromiseStored
      <3>2. i = j
        BY <1>0, <3>1, BinarySearchFinds
      <3> QED BY <1>0, <1>2, <3>1, <3>2, MapIs DEF MapPlaced
    <2>2. Error
      BY <1>2 DEF GetItem
    <2> QED BY <2>1, <2>2, ErrorRefuses DEF MapPromise!Get
  <1> QED BY <1>1, <1>2

LEMMA RepeatStep ==
    ASSUME ListInv, NEW k \in Keys, NEW i \in -1..uiCapacity, RepeatGetItem(k, i)
    PROVE  ListInv' /\ MapPromise!Get(k)
  <1>1. CASE i \in 0..uiCount - 1 /\ Key(i) = k /\ Item(i) # Null
    <2>1. Return(i)
      BY <1>1 DEF RepeatGetItem
    <2>2. k \in MapPromise!Stored /\ Map[k] # Null
      BY <1>1, MapIs, PromiseStored DEF MapPlaced
    <2> QED BY <1>1, <2>1, <2>2, ReturnReads DEF MapPromise!Get
  <1>2. CASE ~ (i \in 0..uiCount - 1 /\ Key(i) = k /\ Item(i) # Null)
    BY <1>2, GetStep DEF RepeatGetItem
  <1> QED BY <1>1, <1>2

LEMMA FirstStep ==
    ASSUME ListInv, GetFirstItem
    PROVE  ListInv' /\ MapPromise!First
  <1>0. uiCount \in Nat /\ \A i \in 0..uiCount - 1 : Key(i) \in Nat
    BY ListTypes
  <1>1. CASE uiCount = 0
    <2>1. MapPromise!Stored = {}
      BY <1>1, PromiseStored
    <2> QED BY <1>1, <2>1, ErrorRefuses DEF GetFirstItem, MapPromise!First
  <1>2. CASE uiCount # 0
    <2>1. 0 \in 0..uiCount - 1 /\ Key(0) \in MapPromise!Stored
      BY <1>0, <1>2, PromiseStored
    <2>2. ASSUME NEW j \in MapPromise!Stored PROVE j \in Nat /\ Key(0) <= j
      <3>1. PICK i \in 0..uiCount - 1 : j = Key(i)
        BY PromiseStored
      <3>2. i = 0 \/ 0 < i
        BY <1>0
      <3> QED BY <1>0, <2>1, <3>1, <3>2, KeyOrder
    <2>3. MapPromise!Least(MapPromise!Stored) = Key(0)
      BY <2>1, <2>2 DEF MapPromise!Least
    <2>4. Return(0) /\ MapPromise!Stored # {}
      BY <1>2, <2>1 DEF GetFirstItem
    <2> QED BY <2>1, <2>3, <2>4, ReturnReads DEF MapPromise!First
  <1> QED BY <1>1, <1>2

LEMMA FromStep ==
    ASSUME ListInv, NEW k \in Nat, GetFrom(k)
    PROVE  ListInv' /\ MapPromise!From(k)
  <1>0. uiCount \in Nat /\ \A i \in 0..uiCount - 1 : Key(i) \in Nat
    BY ListTypes
  <1> DEFINE s == Search(k)
  <1>1. CASE s \in 0..uiCount - 1
    <2>1. /\ uiCount # 0 /\ ~ (k < Key(0))
          /\ \A j \in 0..s - 1 : Key(j) < k
          /\ k <= Key(s)
      BY <1>0, <1>1, SearchPlace
    <2>2. Return(s)
      BY <1>1 DEF GetFrom
    <2> HIDE DEF s
    <2>3. Key(0) \in MapPromise!Stored /\ Key(0) <= k /\ Key(s) \in MapPromise!Stored /\ Key(s) >= k
      BY <1>0, <1>1, <2>1, PromiseStored
    <2> DEFINE S == {j \in MapPromise!Stored : j >= k}
    <2>4. ASSUME NEW j \in S PROVE j \in Nat /\ Key(s) <= j
      <3>1. PICK i \in 0..uiCount - 1 : j = Key(i)
        BY PromiseStored
      <3>2. i \notin 0..s - 1
        BY <1>0, <2>1, <3>1
      <3>3. i = s \/ s < i
        BY <1>0, <1>1, <3>2
      <3> QED BY <1>0, <1>1, <3>1, <3>3, KeyOrder
    <2>5. Key(s) \in S
      BY <2>3
    <2>6. MapPromise!Least(S) = Key(s)
      BY <2>4, <2>5 DEF MapPromise!Least
    <2> HIDE DEF S
    <2>7. ListInv' /\ MapPromise!Read(Key(s))
      BY <1>1, <2>2, ReturnReads
    <2>8. ~ MapPromise!BeforeFirst(k) /\ ~ MapPromise!AfterLast(k)
      <3>1. Key(0) \in Nat /\ Key(s) \in Nat
        BY <1>0, <1>1, <2>1
      <3> QED BY <2>3, <3>1 DEF MapPromise!BeforeFirst, MapPromise!AfterLast
    <2> QED BY <2>6, <2>7, <2>8 DEF MapPromise!From, S
  <1>2. CASE s \notin 0..uiCount - 1
    <2>1. Error
      BY <1>2 DEF GetFrom
    <2>2. MapPromise!BeforeFirst(k) \/ MapPromise!AfterLast(k)
      <3> SUFFICES ASSUME NEW j \in MapPromise!Stored, ~ (k < j), NEW n \in MapPromise!Stored, ~ (n < k)
                   PROVE  FALSE
        BY DEF MapPromise!BeforeFirst, MapPromise!AfterLast
      <3>1. PICK a \in 0..uiCount - 1 : j = Key(a)
        BY PromiseStored
      <3>2. PICK b \in 0..uiCount - 1 : n = Key(b)
        BY PromiseStored
      <3>3. uiCount # 0 /\ ~ (k < Key(0))
        <4>1. 0 \in 0..uiCount - 1 /\ (a = 0 \/ 0 < a)
          BY <1>0
        <4> QED BY <1>0, <3>1, <4>1, KeyOrder
      <3>4. s \in 0..uiCount /\ \A i \in 0..s - 1 : Key(i) < k
        BY <3>3, SearchPlace
      <3>5. b \in 0..s - 1
        BY <1>0, <1>2, <3>4
      <3> QED BY <1>0, <3>2, <3>4, <3>5
    <2> QED BY <2>1, <2>2, ErrorRefuses DEF MapPromise!From
  <1> QED BY <1>1, <1>2

LEMMA NextStep ==
    ASSUME ListInv, NEW k \in Keys, GetNextItem(k)
    PROVE  ListInv' /\ MapPromise!Following(k)
  <1>0. k \in Nat /\ KeyCount \in Nat \ {0} /\ k < KeyCount
    BY ListAssumption DEF Keys
  <1>1. k + 1 \in Nat /\ k + 1 < 2 * KeyCount
    BY <1>0
  <1>2. (k + 1) % KeyCount = IF k + 1 < KeyCount THEN k + 1 ELSE (k + 1) - KeyCount
    BY <1>0, <1>1, Remainder
  <1>3. (k + 1) % KeyCount = IF k + 1 \in Keys THEN k + 1 ELSE 0
    BY <1>0, <1>2 DEF Keys
  <1> DEFINE m == IF k + 1 \in Keys THEN k + 1 ELSE 0
  <1>4. m \in Nat /\ GetFrom(m)
    BY <1>1, <1>3 DEF GetNextItem
  <1> HIDE DEF m
  <1>5. ListInv' /\ MapPromise!From(m)
    BY <1>4, FromStep
  <1> QED BY <1>5 DEF MapPromise!Following, m

LEMMA NearestStep ==
    ASSUME ListInv, NEW k \in Keys, GetNearestItem(k)
    PROVE  ListInv' /\ MapPromise!Nearest(k)
  <1>0. k \in Nat
    BY ListAssumption DEF Keys
  <1> QED BY <1>0, FirstStep, FromStep DEF GetNearestItem, MapPromise!Nearest

-----------------------------------------------------------------------------
(* Calls that write. *)

(* An item is put in at place n. *)
InsertedAt(n, x) ==
    /\ pxItems' \in Seq(ListRecords) /\ Len(pxItems') = uiCount + 1
    /\ \A m \in 0..uiCount :
          pxItems'[m + 1] = IF m < n THEN pxItems[m + 1] ELSE IF m = n THEN x ELSE pxItems[m]

LEMMA InsertPlaces ==
    ASSUME ListInv, NEW n \in 0..uiCount, NEW x \in ListRecords,
           pxItems' = InsertAt(pxItems, n + 1, x)
    PROVE  InsertedAt(n, x)
  <1> DEFINE before == SubSeq(pxItems, 1, n)
             behind == SubSeq(pxItems, n + 1, uiCount)
             front == before \o <<x>>
  <1>0. uiCount \in Nat /\ uiCount = Len(pxItems) /\ n \in Nat /\ pxItems \in Seq(ListRecords)
    BY ListTypes DEF uiCount, ListInv
  <1>1. \A i \in 1..uiCount : pxItems[i] \in ListRecords
    BY <1>0, ElementOfSeq
  <1>2. before \in Seq(ListRecords) /\ Len(before) = n /\ \A i \in 1..n : before[i] = pxItems[i]
    <2>1. \A i \in 1..n : pxItems[i] \in ListRecords
      BY <1>0, <1>1
    <2>2. /\ before \in Seq(ListRecords) /\ Len(before) = IF 1 <= n THEN n - 1 + 1 ELSE 0
          /\ \A i \in 1..n - 1 + 1 : before[i] = pxItems[1 + i - 1]
      BY <1>0, <2>1, SubSeqProperties
    <2> QED BY <1>0, <2>2
  <1>3. /\ behind \in Seq(ListRecords) /\ Len(behind) = uiCount - n
        /\ \A i \in 1..uiCount - n : behind[i] = pxItems[n + i]
    <2>1. \A i \in n + 1..uiCount : pxItems[i] \in ListRecords
      BY <1>0, <1>1
    <2>2. /\ behind \in Seq(ListRecords)
          /\ Len(behind) = IF n + 1 <= uiCount THEN uiCount - (n + 1) + 1 ELSE 0
          /\ \A i \in 1..uiCount - (n + 1) + 1 : behind[i] = pxItems[n + 1 + i - 1]
      BY <1>0, <2>1, SubSeqProperties
    <2> QED BY <1>0, <2>2
  <1>4. <<x>> \in Seq(ListRecords) /\ Len(<<x>>) = 1 /\ <<x>>[1] = x
    OBVIOUS
  <1>5. pxItems' = front \o behind
    <2>1. (n + 1) - 1 = n
      BY <1>0
    <2>2. pxItems' = SubSeq(pxItems, 1, (n + 1) - 1) \o <<x>>
                        \o SubSeq(pxItems, n + 1, Len(pxItems))
      BY ZenonT(30) DEF InsertAt
    <2> QED BY <2>1, <2>2 DEF uiCount
  <1> HIDE DEF before, behind
  <1>6. /\ front \in Seq(ListRecords) /\ Len(front) = n + 1
        /\ \A i \in 1..n + 1 : front[i] = IF i <= n THEN before[i] ELSE <<x>>[i - n]
    BY <1>2, <1>4, ConcatProperties
  <1> HIDE DEF front
  <1>7. /\ pxItems' \in Seq(ListRecords) /\ Len(pxItems') = (n + 1) + (uiCount - n)
        /\ \A i \in 1..(n + 1) + (uiCount - n) :
              pxItems'[i] = IF i <= n + 1 THEN front[i] ELSE behind[i - (n + 1)]
    <2>1. /\ front \o behind \in Seq(ListRecords)
          /\ Len(front \o behind) = Len(front) + Len(behind)
          /\ \A i \in 1..Len(front) + Len(behind) :
                (front \o behind)[i]
                   = IF i <= Len(front) THEN front[i] ELSE behind[i - Len(front)]
      BY <1>3, <1>6, ConcatProperties
    <2> QED BY <1>3, <1>5, <1>6, <2>1
  <1>8. ASSUME NEW m \in 0..uiCount
        PROVE  pxItems'[m + 1]
                  = IF m < n THEN pxItems[m + 1] ELSE IF m = n THEN x ELSE pxItems[m]
    <2>1. CASE m < n
      <3>1. /\ m + 1 \in 1..n /\ m + 1 <= n + 1
            /\ m + 1 \in 1..(n + 1) + (uiCount - n) /\ m + 1 \in 1..n + 1
        BY <1>0, <2>1
      <3> QED BY <1>2, <1>6, <1>7, <2>1, <3>1
    <2>2. CASE m = n
      <3>1. /\ n + 1 \in 1..(n + 1) + (uiCount - n) /\ n + 1 \in 1..n + 1
            /\ ~ (n + 1 <= n) /\ (n + 1) - n = 1
        BY <1>0
      <3> QED BY <1>4, <1>6, <1>7, <2>2, <3>1
    <2>3. CASE m > n
      <3>1. /\ m + 1 \in 1..(n + 1) + (uiCount - n) /\ ~ (m + 1 <= n + 1)
            /\ (m + 1) - (n + 1) = m - n /\ m - n \in 1..uiCount - n /\ n + (m - n) = m
        BY <1>0, <2>3
      <3> QED BY <1>3, <1>7, <2>3, <3>1
    <2> QED BY <1>0, <2>1, <2>2, <2>3
  <1> QED BY <1>0, <1>7, <1>8 DEF InsertedAt

LEMMA AppendPlaces ==
    ASSUME ListInv, NEW x \in ListRecords, pxItems' = Append(pxItems, x)
    PROVE  InsertedAt(uiCount, x)
  <1>0. uiCount \in Nat /\ uiCount = Len(pxItems) /\ pxItems \in Seq(ListRecords)
    BY ListTypes DEF uiCount, ListInv
  <1>1. /\ pxItems' \in Seq(ListRecords) /\ Len(pxItems') = uiCount + 1
        /\ \A i \in 1..uiCount : pxItems'[i] = pxItems[i]
        /\ pxItems'[uiCount + 1] = x
    BY <1>0, AppendProperties
  <1>2. ASSUME NEW m \in 0..uiCount
        PROVE  pxItems'[m + 1]
                  = IF m < uiCount THEN pxItems[m + 1] ELSE IF m = uiCount THEN x ELSE pxItems[m]
    <2>1. m < uiCount => m + 1 \in 1..uiCount
      BY <1>0
    <2>2. m < uiCount \/ m = uiCount
      BY <1>0
    <2> QED BY <1>1, <2>1, <2>2
  <1> QED BY <1>1, <1>2 DEF InsertedAt

LEMMA StoreNew ==
    ASSUME ListInv, NEW k \in Keys, NEW v \in ListItems \cup {Null}, NEW n \in 0..uiCount,
           \A j \in 0..n - 1 : Key(j) < k, \A j \in n..uiCount - 1 : k < Key(j),
           InsertedAt(n, [uiKey |-> k, pvItem |-> v]),
           listAnswer' = [index |-> n, key |-> k, item |-> v]
    PROVE  ListInv' /\ MapPromise!Store(k, v)
  <1> DEFINE x == [uiKey |-> k, pvItem |-> v]
  <1>0. uiCount \in Nat /\ k \in Nat /\ n \in Nat
    BY ListTypes, ListAssumption DEF Keys
  <1>1. uiCount' = uiCount + 1
    BY DEF InsertedAt, uiCount
  <1>2. /\ \A m \in 0..n - 1 : pxItems'[m + 1] = pxItems[m + 1]
        /\ pxItems'[n + 1] = x
        /\ \A m \in n + 1..uiCount : pxItems'[m + 1] = pxItems[m]
    BY <1>0 DEF InsertedAt
  <1>3. \A m \in 0..n - 1 : Key(m)' = Key(m) /\ Item(m)' = Item(m)
    BY <1>2 DEF Key, Item
  <1>4. Key(n)' = k /\ Item(n)' = v
    BY <1>2 DEF Key, Item
  <1>5. \A m \in n + 1..uiCount : Key(m)' = Key(m - 1) /\ Item(m)' = Item(m - 1)
    <2>1. \A m \in n + 1..uiCount : (m - 1) + 1 = m
      BY <1>0
    <2> QED BY <1>2, <2>1 DEF Key, Item
  <1>6. ListInv'
    <2>1. ASSUME NEW a \in 0..uiCount, NEW b \in 0..uiCount, a < b PROVE Key(a)' < Key(b)'
      <3>1. CASE b < n
        <4>1. a \in 0..n - 1 /\ b \in 0..n - 1 /\ a \in 0..uiCount - 1 /\ b \in 0..uiCount - 1
          BY <1>0, <2>1, <3>1
        <4> QED BY <1>3, <2>1, <4>1, KeyOrder
      <3>2. CASE b = n
        <4>1. a \in 0..n - 1
          BY <1>0, <2>1, <3>2
        <4> QED BY <1>3, <1>4, <3>2, <4>1
      <3>3. CASE b > n
        <4>1. b \in n + 1..uiCount /\ b - 1 \in n..uiCount - 1 /\ b - 1 \in 0..uiCount - 1
          BY <1>0, <3>3
        <4>2. CASE a < n
          <5>1. a \in 0..n - 1 /\ a \in 0..uiCount - 1 /\ a < b - 1
            BY <1>0, <4>1, <4>2
          <5>2. Key(a) < Key(b - 1)
            BY <4>1, <5>1, KeyOrder
          <5> QED BY <1>3, <1>5, <4>1, <5>1, <5>2
        <4>3. CASE a = n
          BY <1>4, <1>5, <4>1, <4>3
        <4>4. CASE a > n
          <5>1. a \in n + 1..uiCount /\ a - 1 \in 0..uiCount - 1 /\ a - 1 < b - 1
            BY <1>0, <2>1, <4>1, <4>4
          <5> QED BY <1>5, <4>1, <5>1, KeyOrder
        <4> QED BY <1>0, <4>2, <4>3, <4>4
      <3> QED BY <1>0, <3>1, <3>2, <3>3
    <2>2. pxItems' \in Seq(ListRecords)
      BY DEF InsertedAt
    <2>3. uiCount' - 1 = uiCount
      BY <1>0, <1>1
    <2> QED BY <2>1, <2>2, <2>3 DEF ListInv
  <1>7. MapPlaced /\ MapPlaced'
    BY <1>6, MapIs, MapNext
  <1>8. /\ Stored' = {Key(m)' : m \in 0..uiCount}
        /\ \A m \in 0..uiCount : Map'[Key(m)'] = Item(m)'
        /\ Map' = [j \in Stored' |-> Map'[j]]
    <2>1. uiCount' - 1 = uiCount
      BY <1>0, <1>1
    <2> QED BY <1>7, <2>1 DEF MapPlaced
  <1>9. /\ Stored = {Key(i) : i \in 0..uiCount - 1}
        /\ \A i \in 0..uiCount - 1 : Map[Key(i)] = Item(i)
        /\ DOMAIN Map = Stored
    BY <1>7 DEF MapPlaced
  <1>10. ASSUME NEW i \in 0..uiCount - 1
         PROVE  \E m \in 0..uiCount : Key(m)' = Key(i) /\ Item(m)' = Item(i)
    <2>1. CASE i < n
      <3>1. i \in 0..n - 1 /\ i \in 0..uiCount
        BY <1>0, <2>1
      <3> QED BY <1>3, <3>1
    <2>2. CASE i >= n
      <3>1. i + 1 \in n + 1..uiCount /\ i + 1 \in 0..uiCount /\ (i + 1) - 1 = i
        BY <1>0, <2>2
      <3> QED BY <1>5, <3>1
    <2> QED BY <1>0, <2>1, <2>2
  <1>11. ASSUME NEW m \in 0..uiCount, m # n
         PROVE  \E i \in 0..uiCount - 1 : Key(m)' = Key(i) /\ Item(m)' = Item(i)
    <2>1. CASE m < n
      <3>1. m \in 0..n - 1 /\ m \in 0..uiCount - 1
        BY <1>0, <2>1
      <3> QED BY <1>3, <3>1
    <2>2. CASE m > n
      <3>1. m \in n + 1..uiCount /\ m - 1 \in 0..uiCount - 1
        BY <1>0, <2>2
      <3> QED BY <1>5, <3>1
    <2> QED BY <1>0, <1>11, <2>1, <2>2
  <1>12. \A i \in 0..uiCount - 1 : Key(i) # k
    <2> SUFFICES ASSUME NEW i \in 0..uiCount - 1 PROVE Key(i) # k
      OBVIOUS
    <2>1. i \in 0..n - 1 \/ i \in n..uiCount - 1
      BY <1>0
    <2> QED BY <1>0, <2>1, ListTypes
  <1> DEFINE new == [j \in Stored \cup {k} |-> IF j = k THEN v ELSE Map[j]]
  <1>13. Stored' = Stored \cup {k}
    <2>1. ASSUME NEW j \in Stored' PROVE j \in Stored \cup {k}
      <3>1. PICK m \in 0..uiCount : j = Key(m)'
        BY <1>8
      <3> QED BY <1>4, <1>9, <1>11, <3>1
    <2>2. ASSUME NEW j \in Stored PROVE j \in Stored'
      <3>1. PICK i \in 0..uiCount - 1 : j = Key(i)
        BY <1>9
      <3> QED BY <1>8, <1>10, <3>1
    <2>3. k \in Stored'
      <3>1. n \in 0..uiCount
        OBVIOUS
      <3> QED BY <1>4, <1>8, <3>1
    <2> QED BY <2>1, <2>2, <2>3
  <1>14. ASSUME NEW j \in Stored' PROVE Map'[j] = new[j]
    <2>1. CASE j = k
      <3>1. Map'[Key(n)'] = Item(n)'
        BY <1>8
      <3> QED BY <1>4, <1>13, <2>1, <3>1
    <2>2. CASE j # k
      <3>1. PICK i \in 0..uiCount - 1 : j = Key(i)
        BY <1>9, <1>13, <2>2
      <3>2. Map'[j] = Item(i)
        BY <1>8, <1>10, <3>1
      <3> QED BY <1>9, <1>13, <2>2, <3>1, <3>2
    <2> QED BY <2>1, <2>2
  <1>15. Map' = new
    BY <1>8, <1>13, <1>14
  <1>16. MapPromise!Index(k) = n
    <2>1. \A j \in n..uiCount - 1 : k <= Key(j)
      <3> SUFFICES ASSUME NEW j \in n..uiCount - 1 PROVE k <= Key(j)
        OBVIOUS
      <3>1. Key(j) \in Nat /\ k < Key(j)
        BY <1>0, ListTypes
      <3> QED BY <1>0, <3>1
    <2> QED BY <1>0, <2>1, IndexIs
  <1> QED BY <1>6, <1>9, <1>15, <1>16 DEF MapPromise!Store, MapPromise!Stored

LEMMA StoreOld ==
    ASSUME ListInv, NEW i \in 0..uiCount - 1, NEW v \in ListItems \cup {Null},
           pxItems' = [pxItems EXCEPT ![i + 1] = [uiKey |-> Key(i), pvItem |-> v]],
           listAnswer' = [index |-> i, key |-> Key(i), item |-> v]
    PROVE  ListInv' /\ MapPromise!Store(Key(i), v)
  <1> DEFINE x == [uiKey |-> Key(i), pvItem |-> v]
  <1>0. uiCount \in Nat /\ uiCount = Len(pxItems) /\ pxItems \in Seq(ListRecords) /\ Key(i) \in Keys
    BY ListTypes DEF uiCount, ListInv
  <1>1. i + 1 \in 1..Len(pxItems) /\ x \in ListRecords
    BY <1>0 DEF ListRecords
  <1>2. /\ pxItems' \in Seq(ListRecords) /\ uiCount' = uiCount
        /\ \A m \in 1..uiCount : pxItems'[m] = IF m = i + 1 THEN x ELSE pxItems[m]
    BY <1>0, <1>1, ExceptSeq DEF uiCount
  <1>3. \A m \in 0..uiCount - 1 : Key(m)' = Key(m) /\ Item(m)' = IF m = i THEN v ELSE Item(m)
    <2> SUFFICES ASSUME NEW m \in 0..uiCount - 1
                 PROVE  Key(m)' = Key(m) /\ Item(m)' = IF m = i THEN v ELSE Item(m)
      OBVIOUS
    <2>1. m + 1 \in 1..uiCount /\ (m + 1 = i + 1 <=> m = i)
      BY <1>0
    <2> QED BY <1>2, <2>1 DEF Key, Item
  <1>4. ListInv'
    BY <1>2, <1>3 DEF ListInv
  <1>5. MapPlaced /\ MapPlaced'
    BY <1>4, MapIs, MapNext
  <1>6. /\ Stored' = {Key(m)' : m \in 0..uiCount - 1}
        /\ \A m \in 0..uiCount - 1 : Map'[Key(m)'] = Item(m)'
        /\ Map' = [j \in Stored' |-> Map'[j]]
        /\ Stored = {Key(m) : m \in 0..uiCount - 1}
        /\ \A m \in 0..uiCount - 1 : Map[Key(m)] = Item(m)
        /\ DOMAIN Map = Stored
    BY <1>2, <1>5 DEF MapPlaced
  <1>7. Stored' = Stored /\ Key(i) \in Stored
    BY <1>3, <1>6
  <1> DEFINE new == [j \in Stored \cup {Key(i)} |-> IF j = Key(i) THEN v ELSE Map[j]]
  <1>8. ASSUME NEW j \in Stored PROVE Map'[j] = new[j]
    <2>1. PICK m \in 0..uiCount - 1 : j = Key(m)
      BY <1>6
    <2>2. m = i <=> j = Key(i)
      BY <2>1, KeyOrder
    <2> QED BY <1>3, <1>6, <2>1, <2>2
  <1>9. Stored \cup {Key(i)} = Stored
    BY <1>7
  <1>10. Map' = new
    BY <1>6, <1>7, <1>8, <1>9
  <1> QED BY <1>4, <1>6, <1>10, IndexOfKey DEF MapPromise!Store, MapPromise!Stored

(* The item at place n is taken out. *)
RemovedAt(n) ==
    /\ pxItems' \in Seq(ListRecords) /\ Len(pxItems') = uiCount - 1
    /\ \A m \in 0..uiCount - 2 :
          pxItems'[m + 1] = IF m < n THEN pxItems[m + 1] ELSE pxItems[m + 2]

LEMMA RemovePlaces ==
    ASSUME ListInv, NEW n \in 0..uiCount - 1, pxItems' = RemoveAt(pxItems, n + 1)
    PROVE  RemovedAt(n)
  <1> DEFINE before == SubSeq(pxItems, 1, n)
             behind == SubSeq(pxItems, n + 2, uiCount)
  <1>0. uiCount \in Nat /\ uiCount = Len(pxItems) /\ n \in Nat /\ pxItems \in Seq(ListRecords)
    BY ListTypes DEF uiCount, ListInv
  <1>1. \A i \in 1..uiCount : pxItems[i] \in ListRecords
    BY <1>0, ElementOfSeq
  <1>2. before \in Seq(ListRecords) /\ Len(before) = n /\ \A i \in 1..n : before[i] = pxItems[i]
    <2>1. \A i \in 1..n : pxItems[i] \in ListRecords
      BY <1>0, <1>1
    <2>2. /\ before \in Seq(ListRecords) /\ Len(before) = IF 1 <= n THEN n - 1 + 1 ELSE 0
          /\ \A i \in 1..n - 1 + 1 : before[i] = pxItems[1 + i - 1]
      BY <1>0, <2>1, SubSeqProperties
    <2> QED BY <1>0, <2>2
  <1>3. /\ behind \in Seq(ListRecords) /\ Len(behind) = uiCount - n - 1
        /\ \A i \in 1..uiCount - n - 1 : behind[i] = pxItems[n + 1 + i]
    <2> DEFINE a == n + 1
    <2>1. a \in 0..uiCount /\ uiCount \in 0..uiCount /\ a <= uiCount /\ a + 1 = n + 2
          /\ uiCount - a = uiCount - n - 1
      BY <1>0
    <2> HIDE DEF a
    <2>2. /\ SubSeq(pxItems, a + 1, uiCount) \in Seq(ListRecords)
          /\ Len(SubSeq(pxItems, a + 1, uiCount)) = uiCount - a
          /\ \A k \in 1..uiCount - a : SubSeq(pxItems, a + 1, uiCount)[k] = pxItems[a + k]
      BY <1>0, <2>1, PieceIs
    <2> QED BY <2>1, <2>2 DEF a
  <1>4. pxItems' = before \o behind
    <2>1. (n + 1) - 1 = n /\ (n + 1) + 1 = n + 2
      BY <1>0
    <2>2. pxItems' = SubSeq(pxItems, 1, (n + 1) - 1) \o SubSeq(pxItems, (n + 1) + 1, Len(pxItems))
      BY ZenonT(30) DEF RemoveAt
    <2> QED BY <2>1, <2>2 DEF uiCount
  <1> HIDE DEF before, behind
  <1>5. /\ pxItems' \in Seq(ListRecords) /\ Len(pxItems') = uiCount - 1
        /\ \A i \in 1..uiCount - 1 : pxItems'[i] = IF i <= n THEN before[i] ELSE behind[i - n]
    <2>1. /\ before \o behind \in Seq(ListRecords)
          /\ Len(before \o behind) = Len(before) + Len(behind)
          /\ \A i \in 1..Len(before) + Len(behind) :
                (before \o behind)[i]
                   = IF i <= Len(before) THEN before[i] ELSE behind[i - Len(before)]
      BY <1>2, <1>3, ConcatProperties
    <2>2. n + (uiCount - n - 1) = uiCount - 1
      BY <1>0
    <2> QED BY <1>2, <1>3, <1>4, <2>1, <2>2
  <1>6. ASSUME NEW m \in 0..uiCount - 2
        PROVE  pxItems'[m + 1] = IF m < n THEN pxItems[m + 1] ELSE pxItems[m + 2]
    <2>1. CASE m < n
      <3>1. m + 1 \in 1..n /\ m + 1 \in 1..uiCount - 1
        BY <1>0, <2>1
      <3> QED BY <1>2, <1>5, <2>1, <3>1
    <2>2. CASE m >= n
      <3>1. /\ m + 1 \in 1..uiCount - 1 /\ ~ (m + 1 <= n) /\ ~ (m < n)
            /\ (m + 1) - n \in 1..uiCount - n - 1 /\ n + 1 + ((m + 1) - n) = m + 2
        BY <1>0, <2>2
      <3> QED BY <1>3, <1>5, <3>1
    <2> QED BY <1>0, <2>1, <2>2
  <1> QED BY <1>5, <1>6 DEF RemovedAt

LEMMA TakeOut ==
    ASSUME ListInv, NEW n \in 0..uiCount - 1, RemovedAt(n),
           listAnswer' = [index |-> n, key |-> Key(n), item |-> Item(n)]
    PROVE  ListInv' /\ MapPromise!Delete(Key(n))
  <1>0. uiCount \in Nat /\ n \in Nat
    BY ListTypes
  <1>1. uiCount' = uiCount - 1
    BY DEF RemovedAt, uiCount
  <1> DEFINE From(m) == IF m < n THEN m ELSE m + 1
  <1>2. ASSUME NEW m \in 0..uiCount - 2
        PROVE  /\ From(m) \in 0..uiCount - 1 /\ From(m) # n
               /\ Key(m)' = Key(From(m)) /\ Item(m)' = Item(From(m))
    <2>1. From(m) \in 0..uiCount - 1 /\ From(m) # n
      BY <1>0
    <2>2. pxItems'[m + 1] = pxItems[From(m) + 1]
      <3>1. ~ (m < n) => From(m) + 1 = m + 2
        BY <1>0
      <3> QED BY <3>1 DEF RemovedAt
    <2> QED BY <2>1, <2>2 DEF Key, Item
  <1>3. ASSUME NEW i \in 0..uiCount - 1, i # n
        PROVE  \E m \in 0..uiCount - 2 : From(m) = i
    <2>1. CASE i < n
      <3>1. i \in 0..uiCount - 2 /\ From(i) = i
        BY <1>0, <2>1
      <3> QED BY <3>1
    <2>2. CASE i > n
      <3>1. i - 1 \in 0..uiCount - 2 /\ From(i - 1) = i
        BY <1>0, <2>2
      <3> QED BY <3>1
    <2> QED BY <1>0, <1>3, <2>1, <2>2
  <1>4. ListInv'
    <2>1. ASSUME NEW a \in 0..uiCount - 2, NEW b \in 0..uiCount - 2, a < b
          PROVE  Key(a)' < Key(b)'
      <3>1. From(a) < From(b)
        BY <1>0, <2>1
      <3> QED BY <1>2, <3>1, KeyOrder
    <2>2. uiCount' - 1 = uiCount - 2
      BY <1>0, <1>1
    <2> QED BY <2>1, <2>2 DEF ListInv, RemovedAt
  <1> HIDE DEF From
  <1>5. MapPlaced /\ MapPlaced'
    BY <1>4, MapIs, MapNext
  <1>6. /\ Stored' = {Key(m)' : m \in 0..uiCount - 2}
        /\ \A m \in 0..uiCount - 2 : Map'[Key(m)'] = Item(m)'
        /\ Map' = [j \in Stored' |-> Map'[j]]
    <2>1. uiCount' - 1 = uiCount - 2
      BY <1>0, <1>1
    <2> QED BY <1>5, <2>1 DEF MapPlaced
  <1>7. /\ Stored = {Key(i) : i \in 0..uiCount - 1}
        /\ \A i \in 0..uiCount - 1 : Map[Key(i)] = Item(i)
        /\ DOMAIN Map = Stored
    BY <1>5 DEF MapPlaced
  <1>8. Stored' = Stored \ {Key(n)}
    <2>1. ASSUME NEW j \in Stored' PROVE j \in Stored \ {Key(n)}
      <3>1. PICK m \in 0..uiCount - 2 : j = Key(m)'
        BY <1>6
      <3> QED BY <1>2, <1>7, <3>1, KeyOrder
    <2>2. ASSUME NEW j \in Stored \ {Key(n)} PROVE j \in Stored'
      <3>1. PICK i \in 0..uiCount - 1 : j = Key(i)
        BY <1>7
      <3>2. PICK m \in 0..uiCount - 2 : From(m) = i
        BY <1>3, <2>2, <3>1
      <3> QED BY <1>2, <1>6, <3>1, <3>2
    <2> QED BY <2>1, <2>2
  <1>9. ASSUME NEW j \in Stored' PROVE Map'[j] = Map[j]
    <2>1. PICK m \in 0..uiCount - 2 : j = Key(m)'
      BY <1>6
    <2>2. Map'[j] = Item(m)'
      BY <1>6, <2>1
    <2> QED BY <1>2, <1>7, <2>1, <2>2
  <1>10. Map' = [j \in Stored \ {Key(n)} |-> Map[j]]
    BY <1>6, <1>8, <1>9
  <1>11. Key(n) \in Stored /\ Map[Key(n)] = Item(n)
    BY <1>7
  <1> QED BY <1>4, <1>7, <1>10, <1>11, IndexOfKey
          DEF MapPromise!Delete, MapPromise!Answer, MapPromise!Stored

LEMMA DeleteStep ==
    ASSUME ListInv, NEW k \in Keys, DeleteItem(k)
    PROVE  ListInv' /\ MapPromise!Delete(k)
  <1>0. k \in Nat /\ uiCount \in Nat
    BY ListAssumption, ListTypes DEF Keys
  <1> DEFINE i == iBinarySearch(k)
  <1>1. CASE \E n \in 0..uiCount - 1 : Key(n) = k
    <2>1. PICK n \in 0..uiCount - 1 : Key(n) = k
      BY <1>1
    <2>2. i = n /\ ~ (i < 0)
      BY <1>0, <2>1, BinarySearchFinds
    <2>3. /\ pxItems' = RemoveAt(pxItems, n + 1)
          /\ listAnswer' = [index |-> n, key |-> Key(n), item |-> Item(n)]
      BY <2>1, <2>2 DEF DeleteItem
    <2>4. RemovedAt(n)
      BY <2>3, RemovePlaces
    <2> QED BY <2>1, <2>3, <2>4, TakeOut
  <1>2. CASE \A n \in 0..uiCount - 1 : Key(n) # k
    <2>1. i = -1
      BY <1>0, <1>2, BinarySearchFinds
    <2>2. Error
      BY <2>1 DEF DeleteItem
    <2>3. k \notin MapPromise!Stored
      BY <1>2, PromiseStored
    <2> QED BY <2>2, <2>3, ErrorRefuses DEF MapPromise!Delete
  <1> QED BY <1>1, <1>2

LEMMA PutItemStep ==
    ASSUME ListInv, NEW k \in Keys, NEW v \in ListItems \cup {Null}, PutItem(k, v)
    PROVE  ListInv' /\ MapPromise!Put(k, v)
  <1>0. k \in Nat /\ uiCount \in Nat
    BY ListAssumption, ListTypes DEF Keys
  <1> DEFINE i == iBinarySearch(k)
             n == Place(k)
  <1>1. CASE uiCount >= uiCapacity
    <2>1. Error
      BY <1>1 DEF PutItem
    <2> QED BY <1>1, <2>1, ErrorRefuses, FullIs DEF MapPromise!Put
  <1>2. CASE ~ (uiCount >= uiCapacity) /\ \E m \in 0..uiCount - 1 : Key(m) = k
    <2>1. PICK m \in 0..uiCount - 1 : Key(m) = k
      BY <1>2
    <2>2. i = m /\ i >= 0
      BY <1>0, <2>1, BinarySearchFinds
    <2>3. /\ pxItems' = [pxItems EXCEPT ![m + 1] = [uiKey |-> Key(m), pvItem |-> v]]
          /\ listAnswer' = [index |-> m, key |-> Key(m), item |-> v]
      BY <1>2, <2>1, <2>2 DEF PutItem
    <2>4. ListInv' /\ MapPromise!Store(Key(m), v)
      BY <2>3, StoreOld
    <2> QED BY <1>2, <2>1, <2>4, FullIs DEF MapPromise!Put
  <1>3. CASE ~ (uiCount >= uiCapacity) /\ \A m \in 0..uiCount - 1 : Key(m) # k
    <2> DEFINE x == [uiKey |-> k, pvItem |-> v]
    <2>1. i = -1 /\ ~ (i >= 0)
      BY <1>0, <1>3, BinarySearchFinds
    <2>2. /\ pxItems' = InsertAt(pxItems, n + 1, x)
          /\ listAnswer' = [index |-> n, key |-> k, item |-> v]
      BY <1>3, <2>1 DEF PutItem
    <2>3. /\ n \in 0..uiCount
          /\ \A j \in 0..n - 1 : Key(j) < k
          /\ \A j \in n..uiCount - 1 : k <= Key(j)
      BY <1>0, PlaceIs
    <2> HIDE DEF n
    <2>4. ASSUME NEW j \in n..uiCount - 1 PROVE k < Key(j)
      <3>1. j \in 0..uiCount - 1 /\ k <= Key(j)
        BY <1>0, <2>3
      <3>2. Key(j) # k /\ Key(j) \in Nat
        BY <1>3, <3>1, ListTypes
      <3> QED BY <1>0, <3>1, <3>2
    <2>5. x \in ListRecords
      BY DEF ListRecords
    <2>6. InsertedAt(n, x)
      BY <2>2, <2>3, <2>5, InsertPlaces
    <2>7. ListInv' /\ MapPromise!Store(k, v)
      BY <2>2, <2>3, <2>4, <2>6, StoreNew
    <2> QED BY <1>3, <2>7, FullIs DEF MapPromise!Put
  <1> QED BY <1>1, <1>2, <1>3

LEMMA AddStep ==
    ASSUME ListInv, NEW v \in ListItems \cup {Null}, AddItem(v)
    PROVE  ListInv' /\ MapPromise!Add(v)
  <1>0. uiCount \in Nat /\ KeyCount \in Nat \ {0}
    BY ListAssumption, ListTypes
  <1> DEFINE last == Key(uiCount - 1)
             k == IF uiCount = 0 THEN 0 ELSE (last + 1) % KeyCount
             promised == IF MapPromise!Stored = {} THEN 0
                         ELSE MapPromise!Greatest(MapPromise!Stored) + 1
  <1>1. uiCount = 0 => MapPromise!Stored = {}
    BY PromiseStored
  <1>2. ASSUME uiCount # 0
        PROVE  /\ last \in Nat /\ last < KeyCount
               /\ \A j \in 0..uiCount - 1 : Key(j) <= last
               /\ MapPromise!Stored # {}
               /\ MapPromise!Greatest(MapPromise!Stored) = last
    <2>1. uiCount - 1 \in 0..uiCount - 1
      BY <1>0, <1>2
    <2>2. last \in Nat /\ last < KeyCount
      BY <1>0, <2>1, ListTypes DEF Keys
    <2>3. ASSUME NEW j \in 0..uiCount - 1 PROVE Key(j) <= last
      <3>1. j = uiCount - 1 \/ j < uiCount - 1
        BY <1>0
      <3> QED BY <2>1, <2>2, <3>1, KeyOrder, ListTypes
    <2>4. last \in MapPromise!Stored /\ \A j \in MapPromise!Stored : j <= last
      BY <2>1, <2>3, PromiseStored
    <2>5. \A j \in MapPromise!Stored : j \in Nat
      BY PromiseStored, ListTypes
    <2>6. ASSUME NEW g \in MapPromise!Stored, \A j \in MapPromise!Stored : j <= g
          PROVE  g = last
      BY <2>2, <2>4, <2>5, <2>6
    <2>7. MapPromise!Greatest(MapPromise!Stored) = last
      BY <2>4, <2>6 DEF MapPromise!Greatest
    <2> QED BY <2>2, <2>3, <2>4, <2>7
  <1>3. uiCount # 0 => (last + 1) % KeyCount = IF last + 1 < KeyCount THEN last + 1 ELSE 0
    <2> SUFFICES ASSUME uiCount # 0
                 PROVE  (last + 1) % KeyCount = IF last + 1 < KeyCount THEN last + 1 ELSE 0
      OBVIOUS
    <2>1. /\ last + 1 \in Nat /\ last + 1 < 2 * KeyCount
          /\ last + 1 = KeyCount \/ last + 1 < KeyCount
      BY <1>0, <1>2
    <2>2. (last + 1) % KeyCount
             = IF last + 1 < KeyCount THEN last + 1 ELSE (last + 1) - KeyCount
      BY <1>0, <2>1, Remainder
    <2> QED BY <1>0, <1>2, <2>1, <2>2
  <1> HIDE DEF last
  <1>4. (uiCount > 0 /\ k = 0) <=> promised \notin Keys
    <2>1. CASE uiCount = 0
      BY <1>0, <1>1, <2>1 DEF Keys
    <2>2. CASE uiCount # 0
      <3>1. promised = last + 1
        BY <1>2, <2>2
      <3>2. last + 1 \in Keys <=> last + 1 < KeyCount
        BY <1>0, <1>2, <2>2 DEF Keys
      <3> QED BY <1>0, <1>2, <1>3, <2>2, <3>1, <3>2
    <2> QED BY <2>1, <2>2
  <1>5. CASE uiCount >= uiCapacity \/ (uiCount > 0 /\ k = 0)
    <2>1. Error
      BY <1>5 DEF AddItem, last
    <2> QED BY <1>4, <1>5, <2>1, ErrorRefuses, FullIs DEF MapPromise!Add
  <1>6. CASE ~ (uiCount >= uiCapacity \/ (uiCount > 0 /\ k = 0))
    <2> DEFINE x == [uiKey |-> k, pvItem |-> v]
    <2>1. /\ pxItems' = Append(pxItems, x)
          /\ listAnswer' = [index |-> uiCount, key |-> k, item |-> v]
      BY <1>6 DEF AddItem, last
    <2>2. k = promised /\ k \in Keys
      <3>1. CASE uiCount = 0
        BY <1>1, <1>4, <1>6, <3>1
      <3>2. CASE uiCount # 0
        BY <1>0, <1>2, <1>3, <1>4, <1>6, <3>2
      <3> QED BY <3>1, <3>2
    <2>3. ASSUME NEW j \in 0..uiCount - 1 PROVE Key(j) < k
      <3>1. uiCount # 0
        BY <1>0
      <3>2. k = last + 1 /\ Key(j) <= last /\ last \in Nat /\ Key(j) \in Nat
        BY <1>2, <2>2, <3>1, ListTypes
      <3> QED BY <3>2
    <2>4. \A j \in uiCount..uiCount - 1 : k < Key(j)
      BY <1>0
    <2> HIDE DEF k
    <2>5. x \in ListRecords
      BY <2>2 DEF ListRecords
    <2>6. InsertedAt(uiCount, x) /\ uiCount \in 0..uiCount
      BY <1>0, <2>1, <2>5, AppendPlaces
    <2>7. ListInv' /\ MapPromise!Store(k, v)
      BY <2>1, <2>2, <2>3, <2>4, <2>6, StoreNew
    <2> QED BY <1>4, <1>6, <2>2, <2>7, FullIs DEF MapPromise!Add, k
  <1> QED BY <1>5, <1>6

LEMMA ListStart == ListInit => ListInv /\ MapPromise!Init
  <1> SUFFICES ASSUME ListInit PROVE ListInv /\ MapPromise!Init
    OBVIOUS
  <1>1. pxItems = <<>> /\ uiCount = 0
    BY DEF ListInit, uiCount
  <1>2. ListInv
    BY <1>1 DEF ListInv
  <1>3. Stored = {}
    BY <1>1 DEF Stored
  <1>4. Map = [k \in {} |-> Null]
    BY <1>3 DEF Map
  <1> QED BY <1>2, <1>4 DEF ListInit, MapPromise!Init, MapPromise!Refused

LEMMA ListStep ==
    ListInv /\ [ListNext]_listVars => ListInv' /\ [MapPromise!Next]_MapPromise!vars
  <1> SUFFICES ASSUME ListInv, [ListNext]_listVars
               PROVE  ListInv' /\ [MapPromise!Next]_MapPromise!vars
    OBVIOUS
  <1>1. ASSUME NEW name, NEW k, Call(name, k) PROVE MapPromise!Called(name, k)
    BY <1>1 DEF Call, MapPromise!Called
  <1>2. CASE GetFirstItem /\ Call("first", 0)
    BY <1>1, <1>2, FirstStep DEF MapPromise!Next
  <1>3. ASSUME NEW v \in ListItems \cup {Null}, AddItem(v), Call("add", 0)
        PROVE  ListInv' /\ MapPromise!Next
    BY <1>1, <1>3, AddStep DEF MapPromise!Next
  <1>4. ASSUME NEW v \in ListItems \cup {Null}, NEW k \in Keys, PutItem(k, v), Call("put", k)
        PROVE  ListInv' /\ MapPromise!Next
    BY <1>1, <1>4, PutItemStep DEF MapPromise!Next
  <1>5. ASSUME NEW k \in Keys, GetItem(k) \/ \E i \in -1..uiCapacity : RepeatGetItem(k, i),
               Call("get", k)
        PROVE  ListInv' /\ MapPromise!Next
    <2>1. ListInv' /\ MapPromise!Get(k)
      BY <1>5, GetStep, RepeatStep
    <2> QED BY <1>1, <1>5, <2>1 DEF MapPromise!Next
  <1>6. ASSUME NEW k \in Keys, GetNextItem(k), Call("next", k)
        PROVE  ListInv' /\ MapPromise!Next
    BY <1>1, <1>6, NextStep DEF MapPromise!Next
  <1>7. ASSUME NEW k \in Keys, GetNearestItem(k), Call("nearest", k)
        PROVE  ListInv' /\ MapPromise!Next
    BY <1>1, <1>7, NearestStep DEF MapPromise!Next
  <1>8. ASSUME NEW k \in Keys, DeleteItem(k), Call("delete", k)
        PROVE  ListInv' /\ MapPromise!Next
    BY <1>1, <1>8, DeleteStep DEF MapPromise!Next
  <1>9. CASE UNCHANGED listVars
    BY <1>9, ListKept DEF listVars, MapPromise!vars
  <1> QED BY <1>2, <1>3, <1>4, <1>5, <1>6, <1>7, <1>8, <1>9 DEF ListNext

(* Through every sequence of calls the sorted array and its bisections are   *)
(* a map: every read finds what the map has, with the number of smaller keys *)
(* as its index, an index remembered from an earlier call leads to no other  *)
(* key's item, and a full list or an exhausted key refuses.                  *)
THEOREM ListCorrect == Spec => ListImplemented
  <1>1. Init => ListInv /\ MapPromise!Init
    BY ListStart DEF Init
  <1>2. [Next]_vars => [ListNext]_listVars
    BY DEF Next, Idle, vars, listVars
  <1>3. ListInv /\ [Next]_vars => ListInv' /\ [MapPromise!Next]_MapPromise!vars
    BY <1>2, ListStep
  <1> QED BY <1>1, <1>3, PTL DEF Spec, ListImplemented, MapPromise!Spec
-----------------------------------------------------------------------------
(* The helper functions. *)

(* The input of a helper is one that the callers give it. *)
MajorInput(in) ==
    \E v, w \in 0..Words, n \in 1..4 :
        in = [helper |-> "major", v |-> v, copies |-> [MajorCopies(v) EXCEPT ![n] = w]]
BitsInput(in) ==
    \E array \in {{}, 0..ArrayBits - 1}, index \in 0..ArrayBits - 1, count \in 1..ValueBits :
        \E bits \in SUBSET (0..count - 1) :
            in = [helper |-> "bits", array |-> array, index |-> index,
                  count |-> count, v |-> NumberOf(bits, count)]
CardInput(in) ==
    \E code \in Cards, bit \in 0..26 : in = [helper |-> "card", code |-> code, bit |-> bit]
DateInput(in) == \E day \in Days : in = [helper |-> "date", day |-> day]
TextInput(in) == \E ref, text \in Texts : in = [helper |-> "text", ref |-> ref, text |-> text]

HelpInv ==
    /\ input.helper = "major" => MajorInput(input)
    /\ input.helper = "bits" => BitsInput(input)
    /\ input.helper = "card" => CardInput(input)
    /\ input.helper = "date" => DateInput(input)
    /\ input.helper = "text" => TextInput(input)

LEMMA HelpStep == HelpInv /\ HelpNext => HelpInv'
  <1> SUFFICES ASSUME HelpInv, HelpNext PROVE HelpInv'
    OBVIOUS
  <1>1. \/ MajorInput(input')
        \/ BitsInput(input')
        \/ CardInput(input')
        \/ DateInput(input')
        \/ TextInput(input')
    <2>1. CASE \E v, w \in 0..Words, n \in 1..4 :
                  input' = [helper |-> "major", v |-> v, copies |-> [MajorCopies(v) EXCEPT ![n] = w]]
      BY <2>1, Zenon DEF MajorInput
    <2>2. CASE \E array \in {{}, 0..ArrayBits - 1}, index \in 0..ArrayBits - 1,
                  count \in 1..ValueBits :
                  /\ index + count <= ArrayBits
                  /\ \E bits \in SUBSET (0..count - 1) :
                         input' = [helper |-> "bits", array |-> array, index |-> index,
                                   count |-> count, v |-> NumberOf(bits, count)]
      BY <2>2, Zenon DEF BitsInput
    <2>3. CASE \E code \in Cards, bit \in 0..26 :
                  input' = [helper |-> "card", code |-> code, bit |-> bit]
      BY <2>3, Zenon DEF CardInput
    <2>4. CASE \E day \in Days : input' = [helper |-> "date", day |-> day]
      BY <2>4, Zenon DEF DateInput
    <2>5. CASE \E ref, text \in Texts : input' = [helper |-> "text", ref |-> ref, text |-> text]
      BY <2>5, Zenon DEF TextInput
    <2> QED BY <2>1, <2>2, <2>3, <2>4, <2>5, Zenon DEF HelpNext
  <1>2. \A in : /\ MajorInput(in) => in.helper = "major"
                /\ BitsInput(in) => in.helper = "bits"
                /\ CardInput(in) => in.helper = "card"
                /\ DateInput(in) => in.helper = "date"
                /\ TextInput(in) => in.helper = "text"
    <2> TAKE in
    <2>1. ASSUME MajorInput(in) PROVE in.helper = "major"
      <3>1. PICK v, copies : in = [helper |-> "major", v |-> v, copies |-> copies]
        BY <2>1, Zenon DEF MajorInput
      <3> QED BY <3>1
    <2>2. ASSUME BitsInput(in) PROVE in.helper = "bits"
      <3>1. PICK array, index, count, v :
                in = [helper |-> "bits", array |-> array, index |-> index, count |-> count, v |-> v]
        BY <2>2, Zenon DEF BitsInput
      <3> QED BY <3>1
    <2> QED BY <2>1, <2>2 DEF CardInput, DateInput, TextInput
  <1> QED BY <1>1, <1>2 DEF HelpInv

LEMMA HelpInvariance == Spec => []HelpInv
  <1>1. Init => HelpInv
    BY DEF Init, HelpInit, HelpInv
  <1>2. HelpInv /\ [Next]_vars => HelpInv'
    <2> SUFFICES ASSUME HelpInv, [Next]_vars PROVE HelpInv'
      OBVIOUS
    <2>1. CASE UNCHANGED input
      BY <2>1 DEF HelpInv
    <2>2. CASE HelpNext
      BY <2>2, HelpStep
    <2> QED BY <2>1, <2>2 DEF Next, Idle, vars
  <1> QED BY <1>1, <1>2, PTL DEF Spec

-----------------------------------------------------------------------------
(* Values kept in copies. *)

LEMMA MajorIs ==
    ASSUME NEW v \in 0..Words, NEW w \in 0..Words, NEW n \in 1..4
    PROVE  MajorValue([MajorCopies(v) EXCEPT ![n] = w]) = v
  <1> DEFINE c == [MajorCopies(v) EXCEPT ![n] = w]
  <1>1. Words \in Nat
    BY HelpAssumption
  <1>2. /\ c[1] = (IF n = 1 THEN w ELSE v) /\ c[2] = (IF n = 2 THEN w ELSE Words - v)
        /\ c[3] = (IF n = 3 THEN w ELSE v) /\ c[4] = (IF n = 4 THEN w ELSE Words - v)
    BY DEF MajorCopies, Complement
  <1> HIDE DEF c
  <1> DEFINE a == Complement(c[2])
             b == Complement(c[4])
             x == c[1]
             y == c[3]
  <1>3. /\ x = (IF n = 1 THEN w ELSE v) /\ y = (IF n = 3 THEN w ELSE v)
        /\ a = (IF n = 2 THEN Words - w ELSE v) /\ b = (IF n = 4 THEN Words - w ELSE v)
    BY <1>1, <1>2 DEF Complement
  <1>4. MajorValue(c) = IF x # a THEN IF a = b /\ a = y THEN a
                                      ELSE IF x = y /\ x = b THEN x ELSE -1
                        ELSE IF y = a \/ b = a THEN x ELSE -1
    BY DEF MajorValue
  <1> HIDE DEF a, b, x, y
  <1>5. n = 1 \/ n = 2 \/ n = 3 \/ n = 4
    OBVIOUS
  <1>6. MajorValue(c) = v
    BY <1>3, <1>4, <1>5
  <1> QED BY <1>6 DEF c

LEMMA MajorAlways == HelpInv => MajorCorrects
  <1> SUFFICES ASSUME HelpInv, input.helper = "major" PROVE MajorValue(input.copies) = input.v
    BY DEF MajorCorrects
  <1>1. PICK v \in 0..Words, w \in 0..Words, n \in 1..4 :
            input = [helper |-> "major", v |-> v, copies |-> [MajorCopies(v) EXCEPT ![n] = w]]
    BY Zenon DEF HelpInv, MajorInput
  <1> DEFINE copies == [MajorCopies(v) EXCEPT ![n] = w]
  <1>2. MajorValue(copies) = v
    BY MajorIs
  <1> HIDE DEF copies
  <1>3. input = [helper |-> "major", v |-> v, copies |-> copies]
    BY <1>1 DEF copies
  <1> QED BY <1>2, <1>3

-----------------------------------------------------------------------------
(* The search for a text. *)

LEMMA LeastIs ==
    ASSUME NEW S, S \subseteq Nat, S # {}
    PROVE  Min(S) \in S /\ \A k \in S : Min(S) <= k
  <1>1. \E m \in S : \A k \in S : m <= k
    BY LeastNatural
  <1> QED BY <1>1 DEF Min

LEMMA LeastOf ==
    ASSUME NEW S, S \subseteq Nat, NEW m \in S, \A k \in S : m <= k
    PROVE  Min(S) = m
  <1>1. Min(S) \in S /\ \A k \in S : Min(S) <= k
    BY LeastIs
  <1>2. Min(S) \in Nat /\ m \in Nat /\ Min(S) <= m /\ m <= Min(S)
    BY <1>1
  <1> QED BY <1>2

(* How far the comparison at place i comes. *)
Comparing(ref, text, i) ==
    LET stops == {k \in 1..Len(ref) : i + k > Len(text) \/ text[i + k] = 0}
    IN  IF stops = {} THEN Len(ref) ELSE Min(stops) - 1

StandsAt(ref, text, i) == SubSeq(text, i + 1, i + Len(ref)) = ref

LEMMA ComparedTo ==
    ASSUME NEW ref \in Seq(Nat), NEW text \in Seq(Nat), NEW i \in Nat, i < Len(text)
    PROVE  /\ Comparing(ref, text, i) \in 0..Len(ref)
           /\ Comparing(ref, text, i) = Len(ref) <=>
                  \A k \in 1..Len(ref) : i + k <= Len(text) /\ text[i + k] # 0
           /\ Comparing(ref, text, i) < Len(ref) => i + Comparing(ref, text, i) <= Len(text)
  <1> DEFINE r == Len(ref)
             n == Len(text)
             stops == {k \in 1..r : i + k > n \/ text[i + k] = 0}
             c == Comparing(ref, text, i)
  <1>1. r \in Nat /\ n \in Nat /\ i < n /\ i \in Nat
    BY LenProperties
  <1>2. c = IF stops = {} THEN r ELSE Min(stops) - 1
    BY DEF Comparing
  <1> HIDE DEF r, n, c
  <1>3. CASE stops = {}
    <2>1. \A k \in 1..r : ~ (i + k > n) /\ text[i + k] # 0
      BY <1>3
    <2>4. ASSUME NEW k \in 1..r, ~ (i + k > n) PROVE i + k <= n
      BY <1>1, <2>4
    <2>2. \A k \in 1..r : i + k <= n /\ text[i + k] # 0
      BY <2>1, <2>4
    <2>3. c = r
      BY <1>2, <1>3
    <2> QED BY <1>1, <2>2, <2>3 DEF r, n, c
  <1>4. CASE stops # {}
    <2> DEFINE m == Min(stops)
    <2>1. stops \subseteq Nat
      BY <1>1
    <2>2. m \in stops /\ \A k \in stops : m <= k
      <3> HIDE DEF stops
      <3> QED BY <1>4, <2>1, LeastIs
    <2> HIDE DEF m
    <2>3. m \in 1..r /\ (i + m > n \/ text[i + m] = 0)
      BY <2>2
    <2>4. c = m - 1
      BY <1>2, <1>4 DEF m
    <2>5. c \in 0..r /\ c # r
      BY <1>1, <2>3, <2>4
    <2>6. ~ (i + m <= n /\ text[i + m] # 0)
      BY <1>1, <2>3
    <2>7. i + c <= n
      <3> SUFFICES ASSUME ~ (i + c <= n) PROVE FALSE
        OBVIOUS
      <3>1. m - 1 \in 1..r /\ i + (m - 1) > n /\ ~ (m <= m - 1)
        BY <1>1, <2>3, <2>4
      <3> QED BY <2>2, <3>1
    <2> QED BY <2>3, <2>5, <2>6, <2>7 DEF r, n, c
  <1> QED BY <1>3, <1>4

(* A text without zeros stands where it is found. *)
LEMMA Standing ==
    ASSUME NEW ref \in Seq(Nat), NEW text \in Seq(Nat), NEW i \in Nat, i < Len(text),
           \A k \in 1..Len(ref) : ref[k] # 0, i + Len(ref) <= Len(text), StandsAt(ref, text, i)
    PROVE  Comparing(ref, text, i) = Len(ref)
  <1> DEFINE r == Len(ref)
  <1>1. r \in Nat /\ Len(text) \in Nat
    BY LenProperties
  <1>2. i \in 0..Len(text) /\ i + r \in 0..Len(text) /\ i <= i + r /\ (i + r) - i = r
    BY <1>1
  <1>3. \A k \in 1..(i + r) - i : SubSeq(text, i + 1, i + r)[k] = text[i + k]
    BY <1>2, PieceIs
  <1>4. \A k \in 1..r : ref[k] = text[i + k]
    BY <1>2, <1>3 DEF StandsAt
  <1> HIDE DEF r
  <1>5. \A k \in 1..r : i + k <= Len(text) /\ text[i + k] # 0
    <2> TAKE k \in 1..r
    <2>1. i + k <= Len(text)
      BY <1>1 DEF r
    <2>2. text[i + k] # 0
      BY <1>4 DEF r
    <2> QED BY <2>1, <2>2
  <1> QED BY <1>5, ComparedTo DEF r

LEMMA FoundFirst ==
    ASSUME NEW ref \in Seq(Nat), NEW text \in Seq(Nat), text # <<>>,
           \A k \in 1..Len(ref) : ref[k] # 0
    PROVE  LET places == {i \in 0..Len(text) - Len(ref) : StandsAt(ref, text, i)}
           IN  FindText(ref, text) = IF places = {} THEN -1 ELSE Min(places)
  <1> DEFINE r == Len(ref)
             n == Len(text)
             Here(i) == Comparing(ref, text, i) = r /\ StandsAt(ref, text, i)
             TooLong(i) == Comparing(ref, text, i) < r /\ i + Comparing(ref, text, i) = n
             last == {i \in 0..n - 1 : Here(i) \/ TooLong(i)}
             places == {i \in 0..n - r : StandsAt(ref, text, i)}
             found == FindText(ref, text)
  <1>1. r \in Nat /\ n \in Nat /\ n > 0
    BY LenProperties, EmptySeq
  <1>2. found = IF last # {} /\ Here(Min(last)) THEN Min(last) ELSE -1
    BY DEF FindText, Comparing, StandsAt
  <1>3. ASSUME NEW i \in 0..n - 1
        PROVE  /\ Here(i) <=> i \in places
               /\ TooLong(i) => \A k \in places : k < i
    <2> DEFINE c == Comparing(ref, text, i)
    <2>1. i \in Nat /\ i < n
      BY <1>1
    <2>2. /\ c \in 0..r
          /\ c = r <=> \A k \in 1..r : i + k <= n /\ text[i + k] # 0
      BY <2>1, ComparedTo
    <2>3. ASSUME Here(i) PROVE i \in places
      <3>1. \A k \in 1..r : i + k <= n
        BY <2>2, <2>3
      <3>2. i + r <= n
        <4>1. CASE r = 0
          BY <1>1, <2>1, <4>1
        <4>2. CASE r # 0
          <5>1. r \in 1..r
            BY <1>1, <4>2
          <5> QED BY <3>1, <5>1
        <4> QED BY <4>1, <4>2
      <3>3. i \in 0..n - r
        BY <1>1, <2>1, <3>2
      <3> QED BY <2>3, <3>3
    <2>4. ASSUME i \in places PROVE Here(i)
      <3>1. i + r <= n /\ StandsAt(ref, text, i)
        BY <1>1, <2>1, <2>4
      <3>2. c = r
        BY <2>1, <3>1, Standing
      <3> QED BY <3>1, <3>2
    <2>5. ASSUME TooLong(i), NEW k \in places PROVE k < i
      <3>1. c < r /\ i + c = n /\ c \in 0..r
        BY <2>2, <2>5
      <3>2. k \in 0..n - r
        OBVIOUS
      <3> HIDE DEF c
      <3> QED BY <1>1, <2>1, <3>1, <3>2
    <2> QED BY <2>3, <2>4, <2>5
  <1>4. places \subseteq Nat /\ last \subseteq Nat
    BY <1>1
  <1>5. r = 0 => 0 \in places
    <2> SUFFICES ASSUME r = 0 PROVE 0 \in places
      OBVIOUS
    <2>1. ref = <<>>
      BY EmptySeq
    <2>2. 0 \in 0..n /\ 0 <= 0 /\ 0 + 0 = 0 /\ 0 - 0 = 0
      BY <1>1
    <2>3. SubSeq(text, 0 + 1, 0) \in Seq(Nat) /\ Len(SubSeq(text, 0 + 1, 0)) = 0 - 0
      BY <2>2, PieceIs
    <2>4. SubSeq(text, 0 + 1, 0) = <<>>
      BY <2>3, EmptySeq
    <2>5. StandsAt(ref, text, 0)
      BY <2>1, <2>4 DEF StandsAt
    <2> QED BY <1>1, <2>5
  <1>6. \A i \in places : i \in 0..n - 1 \/ r = 0
    BY <1>1
  <1> HIDE DEF places, last, found
  <1>7. CASE places = {}
    <2>1. ASSUME last # {} PROVE ~ Here(Min(last))
      <3>1. Min(last) \in last
        BY <1>4, <2>1, LeastIs
      <3>2. Min(last) \in 0..n - 1
        BY <3>1 DEF last
      <3> QED BY <1>3, <1>7, <3>2
    <2>2. found = -1
      BY <1>2, <2>1
    <2> QED BY <1>7, <2>2 DEF found, places
  <1>8. CASE places # {}
    <2> DEFINE m == Min(places)
               l == Min(last)
    <2>1. m \in places /\ m \in Nat /\ \A k \in places : m <= k
      BY <1>4, <1>8, LeastIs
    <2>2. m \in 0..n - 1
      <3>1. CASE r = 0
        <4>1. m <= 0
          BY <1>5, <2>1, <3>1
        <4> QED BY <1>1, <2>1, <4>1
      <3>2. CASE r # 0
        BY <1>6, <2>1, <3>2
      <3> QED BY <3>1, <3>2
    <2>3. m \in last
      <3>1. Here(m)
        BY <1>3, <2>1, <2>2
      <3> QED BY <2>2, <3>1 DEF last
    <2>4. l \in last /\ l \in Nat /\ l <= m
      BY <1>4, <2>3, LeastIs
    <2>5. l \in 0..n - 1 /\ (Here(l) \/ TooLong(l))
      BY <2>4 DEF last
    <2> HIDE DEF m, l
    <2>6. Here(l)
      <3> SUFFICES ASSUME TooLong(l) PROVE FALSE
        BY <2>5
      <3>1. m < l
        BY <1>3, <2>1, <2>5
      <3> QED BY <2>1, <2>4, <3>1
    <2>7. l = m
      <3>1. l \in places
        BY <1>3, <2>5, <2>6
      <3> QED BY <2>1, <2>4, <3>1
    <2>8. found = m
      BY <1>2, <2>3, <2>6, <2>7 DEF l
    <2> QED BY <1>8, <2>8 DEF m, found, places
  <1> QED BY <1>7, <1>8

LEMMA TextAlways == HelpInv => TextFound
  <1> SUFFICES ASSUME HelpInv, input.helper = "text" PROVE TextFound
    BY DEF TextFound
  <1>1. PICK ref \in Texts, text \in Texts : input = [helper |-> "text", ref |-> ref, text |-> text]
    BY Zenon DEF HelpInv, TextInput
  <1>2. input.ref = ref /\ input.text = text /\ ref \in Seq(Nat) /\ text \in Seq(Nat)
    BY <1>1, HelpAssumption
  <1> DEFINE places == {i \in 0..Len(text) - Len(ref) : SubSeq(text, i + 1, i + Len(ref)) = ref}
  <1>3. ASSUME 0 \notin {ref[k] : k \in DOMAIN ref}, text # <<>>
        PROVE  FindText(ref, text) = IF places = {} THEN -1 ELSE Min(places)
    <2>1. DOMAIN ref = 1..Len(ref)
      BY <1>2, LenProperties
    <2>2. \A k \in 1..Len(ref) : ref[k] # 0
      BY <1>3, <2>1
    <2>3. LET found == {i \in 0..Len(text) - Len(ref) : StandsAt(ref, text, i)}
          IN  FindText(ref, text) = IF found = {} THEN -1 ELSE Min(found)
      BY <1>2, <1>3, <2>2, FoundFirst
    <2> QED BY <2>3 DEF StandsAt
  <1> QED BY <1>2, <1>3 DEF TextFound

-----------------------------------------------------------------------------
(* Dates. *)

(* The days in front of a year, and those of it in front of the next month.  *)
YearStart(y) == (y - 1) \div 4 + 365 * y
YearLength(y) == IF y % 4 # 0 \/ y = 0 THEN 365 ELSE 366
MonthEnd(y, m) == IF m < 12 THEN MONTAB(y)[m + 1] ELSE YearLength(y)

(* The day that begins so many days later than 1900 does. *)
IsDay(days, y, m, d) ==
    /\ y \in Nat \ {0} /\ m \in 1..12 /\ d \in Nat \ {0}
    /\ days = YearStart(y) + MONTAB(y)[m] + d - 1
    /\ MONTAB(y)[m] + d <= MonthEnd(y, m)

LEMMA MonthsRise ==
    ASSUME NEW year \in Nat
    PROVE  /\ MONTAB(year)[1] = 0
           /\ \A month \in 1..12 :
                 /\ MONTAB(year)[month] \in 0..335
                 /\ MonthEnd(year, month) \in 31..YearLength(year) /\ MONTAB(year)[month] < MonthEnd(year, month)
                 /\ \A later \in 1..12 : month < later => MonthEnd(year, month) <= MONTAB(year)[later]
  <1>1. CASE year % 4 # 0 \/ year = 0
    <2>1. MONTAB(year) = mos /\ YearLength(year) = 365
      BY <1>1 DEF MONTAB, YearLength
    <2> QED BY <2>1 DEF MonthEnd, mos
  <1>2. CASE ~ (year % 4 # 0 \/ year = 0)
    <2>1. MONTAB(year) = lmos /\ YearLength(year) = 366
      BY <1>2 DEF MONTAB, YearLength
    <2> QED BY <2>1 DEF MonthEnd, lmos
  <1> QED BY <1>1, <1>2

LEMMA MonthBounds ==
    ASSUME NEW year \in Nat, NEW month \in 1..12
    PROVE  /\ MONTAB(year)[month] \in Nat /\ MonthEnd(year, month) \in Nat
           /\ MonthEnd(year, month) <= YearLength(year)
           /\ MONTAB(year)[month] < MonthEnd(year, month)
           /\ YearLength(year) \in 365..366
  <1>1. YearLength(year) \in 365..366
    BY DEF YearLength
  <1>2. MONTAB(year)[month] \in 0..335
    BY MonthsRise
  <1>3. MonthEnd(year, month) \in 31..YearLength(year) /\ MONTAB(year)[month] < MonthEnd(year, month)
    BY MonthsRise
  <1> QED BY <1>1, <1>2, <1>3

LEMMA MonthOrder ==
    ASSUME NEW year \in Nat, NEW month \in 1..12, NEW later \in 1..12, month < later
    PROVE  MonthEnd(year, month) <= MONTAB(year)[later]
  BY MonthsRise

LEMMA YearsFollow ==
    ASSUME NEW year \in Nat \ {0}
    PROVE  /\ YearStart(year) \in Nat /\ 365 * year <= YearStart(year)
           /\ YearStart(year + 1) = YearStart(year) + YearLength(year)
           /\ \A later \in Nat : year <= later => YearStart(year) <= YearStart(later)
  <1>1. (year - 1) \div 4 \in Nat
    OBVIOUS
  <1>2. YearStart(year) \in Nat /\ 365 * year <= YearStart(year)
    BY <1>1 DEF YearStart
  <1>3. YearStart(year + 1) = YearStart(year) + YearLength(year)
    <2>1. year \div 4 = (year - 1) \div 4 + (IF year % 4 = 0 THEN 1 ELSE 0)
      OBVIOUS
    <2>2. (year + 1) - 1 = year /\ 365 * (year + 1) = 365 * year + 365
      OBVIOUS
    <2> QED BY <2>1, <2>2 DEF YearStart, YearLength
  <1>4. ASSUME NEW later \in Nat, year <= later PROVE YearStart(year) <= YearStart(later)
    <2>1. (year - 1) \div 4 <= (later - 1) \div 4 /\ 365 * year <= 365 * later
      BY <1>4
    <2> QED BY <1>1, <2>1 DEF YearStart
  <1> QED BY <1>2, <1>3, <1>4

LEMMA GreatestOf ==
    ASSUME NEW S, S \subseteq Nat, NEW m \in S, \A k \in S : k <= m
    PROVE  Max(S) = m
  <1>1. \E x \in S : \A y \in S : x >= y
    BY SMT
  <1>2. Max(S) \in S /\ \A y \in S : Max(S) >= y
    BY <1>1 DEF Max
  <1>3. Max(S) \in Nat /\ m \in Nat /\ Max(S) <= m /\ m <= Max(S)
    BY <1>2
  <1> QED BY <1>3

(* The conversion looks for the last year that begins by the day. *)
LEMMA StartIs ==
    ASSUME NEW y \in Nat
    PROVE  DAYS_TO_32(y, 0) + 365 * y = YearStart(y)
  <1>1. MONTAB(y)[1] = 0 /\ 0 + 1 = 1
    BY MonthsRise
  <1>2. DAYS_TO_32(y, 0) = (y - 1) \div 4
    BY <1>1 DEF DAYS_TO_32
  <1> QED BY <1>2 DEF YearStart

LEMMA GreatestYear ==
    ASSUME NEW days \in Nat, NEW y \in Nat \ {0},
           YearStart(y) <= days, days < YearStart(y + 1)
    PROVE  Max({z \in 0..days \div 365 : DAYS_TO_32(z, 0) + 365 * z <= days}) = y
  <1> DEFINE Years == {z \in 0..days \div 365 : DAYS_TO_32(z, 0) + 365 * z <= days}
  <1>1. y \in Years
    <2>1. 365 * y <= YearStart(y) /\ YearStart(y) \in Nat
      BY YearsFollow
    <2>2. y \in 0..days \div 365
      BY <2>1
    <2> QED BY <2>2, StartIs
  <1>2. ASSUME NEW z \in Years PROVE z <= y
    <2>1. z \in Nat /\ YearStart(z) <= days
      BY StartIs
    <2> SUFFICES ASSUME ~ (z <= y) PROVE FALSE
      OBVIOUS
    <2>2. y + 1 \in Nat \ {0} /\ y + 1 <= z
      BY <2>1
    <2>3. YearStart(y + 1) <= YearStart(z) /\ YearStart(y + 1) \in Nat
      BY <2>1, <2>2, YearsFollow
    <2>4. z \in Nat \ {0}
      BY <2>1, <2>2
    <2>5. YearStart(z) \in Nat
      BY <2>4, YearsFollow
    <2> QED BY <2>1, <2>3, <2>5
  <1>3. Years \subseteq Nat
    OBVIOUS
  <1>4. \A z \in Years : z <= y
    BY <1>2
  <1> HIDE DEF Years
  <1>5. Max(Years) = y
    BY <1>1, <1>3, <1>4, GreatestOf
  <1> QED BY <1>5 DEF Years

LEMMA GreatestMonth ==
    ASSUME NEW y \in Nat, NEW m \in 1..12, NEW rest \in Nat,
           MONTAB(y)[m] <= rest, rest < MonthEnd(y, m)
    PROVE  Max({n \in 1..12 : MONTAB(y)[n] <= rest}) = m
  <1> DEFINE Months == {n \in 1..12 : MONTAB(y)[n] <= rest}
  <1>1. m \in Months
    OBVIOUS
  <1>2. ASSUME NEW n \in Months PROVE n <= m
    <2> SUFFICES ASSUME m < n PROVE FALSE
      OBVIOUS
    <2>1. n \in 1..12 /\ MONTAB(y)[n] <= rest
      OBVIOUS
    <2>2. MonthEnd(y, m) <= MONTAB(y)[n] /\ MONTAB(y)[n] \in Nat /\ MonthEnd(y, m) \in Nat
      BY <2>1, MonthBounds, MonthOrder
    <2> HIDE DEF Months
    <2> QED BY <2>1, <2>2
  <1>3. Months \subseteq Nat
    OBVIOUS
  <1>4. \A n \in Months : n <= m
    BY <1>2
  <1> HIDE DEF Months
  <1>5. Max(Months) = m
    BY <1>1, <1>3, <1>4, GreatestOf
  <1> QED BY <1>5 DEF Months

(* What the parts of a day are in the numbers of its date. *)
LEMMA DayParts ==
    ASSUME NEW days \in Nat, NEW y, NEW m, NEW d, IsDay(days, y, m, d)
    PROVE  /\ YearStart(y) \in Nat /\ YearStart(y) <= days /\ days < YearStart(y + 1)
           /\ days - YearStart(y) \in Nat
           /\ MONTAB(y)[m] \in Nat /\ MONTAB(y)[m] <= days - YearStart(y)
           /\ days - YearStart(y) < MonthEnd(y, m)
           /\ days - YearStart(y) - MONTAB(y)[m] + 1 = d
  <1>1. /\ y \in Nat \ {0} /\ m \in 1..12 /\ d \in Nat \ {0}
        /\ days = YearStart(y) + MONTAB(y)[m] + d - 1
        /\ MONTAB(y)[m] + d <= MonthEnd(y, m)
    BY DEF IsDay
  <1>2. YearStart(y) \in Nat /\ YearStart(y + 1) = YearStart(y) + YearLength(y)
    BY <1>1, YearsFollow
  <1>3. MONTAB(y)[m] \in Nat /\ MonthEnd(y, m) \in Nat /\ MonthEnd(y, m) <= YearLength(y)
    BY <1>1, MonthBounds
  <1>4. YearLength(y) \in Nat
    BY DEF YearLength
  <1>5. ASSUME NEW s \in Nat, NEW l \in Nat, NEW t \in Nat, NEW e \in Nat, NEW x \in Nat \ {0},
               days = s + t + x - 1, t + x <= e, e <= l
        PROVE  /\ s <= days /\ days < s + l /\ days - s \in Nat
               /\ t <= days - s /\ days - s < e /\ days - s - t + 1 = x
    BY <1>5
  <1> DEFINE s == YearStart(y)
             l == YearLength(y)
             t == MONTAB(y)[m]
             e == MonthEnd(y, m)
  <1>6. /\ s \in Nat /\ l \in Nat /\ t \in Nat /\ e \in Nat /\ d \in Nat \ {0}
        /\ days = s + t + d - 1 /\ t + d <= e /\ e <= l
    BY <1>1, <1>2, <1>3, <1>4
  <1>7. YearStart(y + 1) = s + l
    BY <1>2
  <1> HIDE DEF s, l, t, e
  <1>8. /\ s <= days /\ days < s + l /\ days - s \in Nat
        /\ t <= days - s /\ days - s < e /\ days - s - t + 1 = d
    BY <1>5, <1>6
  <1> QED BY <1>6, <1>7, <1>8 DEF s, l, t, e

(* The conversion finds year, month and day. *)
LEMMA DateOf ==
    ASSUME NEW day \in Nat, NEW y, NEW m, NEW d, IsDay(25567 + day, y, m, d)
    PROVE  UnixToDateTime(day) = <<y - 100, m, d>>
  <1> DEFINE days == 25567 + day
             year == Max({z \in 0..days \div 365 : DAYS_TO_32(z, 0) + 365 * z <= days})
             rest == days - (DAYS_TO_32(year, 0) + 365 * year)
             month == Max({n \in 1..12 : MONTAB(year)[n] <= rest})
  <1>1. UnixToDateTime(day) = <<year - 100, month, rest - MONTAB(year)[month] + 1>>
    BY DEF UnixToDateTime
  <1>2. days \in Nat /\ IsDay(days, y, m, d)
    OBVIOUS
  <1>3. y \in Nat \ {0} /\ m \in 1..12
    BY DEF IsDay
  <1> HIDE DEF days
  <1>4. /\ YearStart(y) \in Nat /\ YearStart(y) <= days /\ days < YearStart(y + 1)
        /\ days - YearStart(y) \in Nat
        /\ MONTAB(y)[m] \in Nat /\ MONTAB(y)[m] <= days - YearStart(y)
        /\ days - YearStart(y) < MonthEnd(y, m)
        /\ days - YearStart(y) - MONTAB(y)[m] + 1 = d
    BY <1>2, DayParts
  <1>5. year = y
    BY <1>2, <1>3, <1>4, GreatestYear
  <1> HIDE DEF year
  <1>6. rest = days - YearStart(y)
    BY <1>3, <1>5, StartIs
  <1> HIDE DEF rest
  <1>7. month = m
    <2>1. rest \in Nat /\ MONTAB(y)[m] <= rest /\ rest < MonthEnd(y, m)
      BY <1>4, <1>6
    <2>2. y \in Nat
      BY <1>3
    <2>3. Max({n \in 1..12 : MONTAB(y)[n] <= rest}) = m
      BY <1>3, <2>1, <2>2, GreatestMonth
    <2> QED BY <1>5, <2>3
  <1> HIDE DEF month
  <1> QED BY <1>1, <1>4, <1>5, <1>6, <1>7

(* Every day has a date. *)
LEMMA HasMonth ==
    ASSUME NEW y \in Nat, NEW rest \in Nat, rest < YearLength(y)
    PROVE  \E m \in 1..12 : MONTAB(y)[m] <= rest /\ rest < MonthEnd(y, m)
  <1> DEFINE before == {k \in 0..11 : MONTAB(y)[12 - k] <= rest}
             k == Min(before)
  <1>1. k \in before /\ \A i \in before : k <= i
    <2>1. 11 \in before
      <3>1. MONTAB(y)[1] = 0
        BY MonthsRise
      <3> QED BY <3>1
    <2>2. before \subseteq Nat
      OBVIOUS
    <2> HIDE DEF before
    <2> QED BY <2>1, <2>2, LeastIs
  <1>2. k \in 0..11 /\ MONTAB(y)[12 - k] <= rest
    BY <1>1
  <1> HIDE DEF k
  <1>3. rest < MonthEnd(y, 12 - k)
    <2>1. CASE k = 0
      BY <2>1 DEF MonthEnd
    <2>2. CASE k # 0
      <3>1. k - 1 \in 0..11 /\ 12 - (k - 1) = (12 - k) + 1 /\ 12 - k < 12 /\ ~ (k <= k - 1)
        BY <1>2, <2>2
      <3>2. ~ (MONTAB(y)[(12 - k) + 1] <= rest)
        BY <1>1, <3>1
      <3>3. MONTAB(y)[(12 - k) + 1] \in Nat
        <4>1. (12 - k) + 1 \in 1..12
          BY <1>2, <2>2
        <4> QED BY <4>1, MonthBounds
      <3> QED BY <3>1, <3>2, <3>3 DEF MonthEnd
    <2> QED BY <2>1, <2>2
  <1>4. 12 - k \in 1..12
    BY <1>2
  <1> QED BY <1>2, <1>3, <1>4

(* The days that the model converts, from 1900 on. *)
ConvertedDays == {x \in Nat : 36524 <= x /\ x <= 73107}

LEMMA HasYear ==
    ASSUME NEW days \in ConvertedDays
    PROVE  \E y \in 100..200 : YearStart(y) <= days /\ days < YearStart(y + 1)
  <1> DEFINE before == {k \in 0..100 : YearStart(200 - k) <= days}
             k == Min(before)
  <1>1. k \in before /\ \A i \in before : k <= i
    <2>1. 100 \in before
      BY DEF YearStart, ConvertedDays
    <2>2. before \subseteq Nat
      OBVIOUS
    <2> HIDE DEF before
    <2> QED BY <2>1, <2>2, LeastIs
  <1>2. k \in 0..100 /\ YearStart(200 - k) <= days
    BY <1>1
  <1> HIDE DEF k
  <1>3. days < YearStart((200 - k) + 1)
    <2>1. CASE k = 0
      BY <2>1 DEF YearStart, ConvertedDays
    <2>2. CASE k # 0
      <3>1. k - 1 \in 0..100 /\ 200 - (k - 1) = (200 - k) + 1 /\ ~ (k <= k - 1)
        BY <1>2, <2>2
      <3>2. ~ (YearStart((200 - k) + 1) <= days)
        BY <1>1, <3>1
      <3>3. YearStart((200 - k) + 1) \in Nat
        <4>1. (200 - k) + 1 \in Nat \ {0}
          BY <1>2
        <4> QED BY <4>1, YearsFollow
      <3> QED BY <3>2, <3>3 DEF ConvertedDays
    <2> QED BY <2>1, <2>2
  <1>4. 200 - k \in 100..200
    BY <1>2
  <1> QED BY <1>2, <1>3, <1>4

LEMMA HasDate ==
    ASSUME NEW days \in ConvertedDays
    PROVE  \E y \in 100..200, m \in 1..12, d \in Nat \ {0} : IsDay(days, y, m, d)
  <1>1. PICK y \in 100..200 : YearStart(y) <= days /\ days < YearStart(y + 1)
    BY HasYear
  <1>2. y \in Nat \ {0} /\ y \in Nat /\ days \in Nat
    BY DEF ConvertedDays
  <1>3. YearStart(y) \in Nat /\ YearStart(y + 1) = YearStart(y) + YearLength(y)
    BY <1>2, YearsFollow
  <1>4. YearLength(y) \in Nat
    BY DEF YearLength
  <1> DEFINE rest == days - YearStart(y)
  <1>5. rest \in Nat /\ rest < YearLength(y)
    BY <1>1, <1>2, <1>3, <1>4
  <1>6. days = YearStart(y) + rest
    BY <1>2, <1>3
  <1> HIDE DEF rest
  <1>7. PICK m \in 1..12 : MONTAB(y)[m] <= rest /\ rest < MonthEnd(y, m)
    BY <1>2, <1>5, HasMonth
  <1>8. MONTAB(y)[m] \in Nat /\ MonthEnd(y, m) \in Nat
    BY <1>2, MonthBounds
  <1> DEFINE t == MONTAB(y)[m]
             e == MonthEnd(y, m)
             s == YearStart(y)
             d == rest - t + 1
  <1>9. ASSUME NEW u \in Nat, NEW v \in Nat, NEW w \in Nat, NEW r \in Nat, u <= r, r < v, days = w + r
        PROVE  /\ r - u + 1 \in Nat \ {0} /\ days = w + u + (r - u + 1) - 1
               /\ u + (r - u + 1) <= v
    BY <1>9
  <1>10. t \in Nat /\ e \in Nat /\ s \in Nat /\ t <= rest /\ rest < e /\ days = s + rest
    BY <1>3, <1>6, <1>7, <1>8
  <1> HIDE DEF t, e, s
  <1>11. d \in Nat \ {0} /\ days = s + t + d - 1 /\ t + d <= e
    BY <1>5, <1>9, <1>10
  <1> HIDE DEF d
  <1>12. IsDay(days, y, m, d)
    BY <1>2, <1>7, <1>11 DEF IsDay, s, t, e
  <1> QED BY <1>11, <1>12

(* The days that the calendar gives a month of so many years after 1900. *)
DaysIn(y, m) == MonthLength(1900 + y, m)

(* The months have the calendar's lengths, but February 2100 has not. *)
LEMMA MonthLengths ==
    ASSUME NEW y \in 100..200, NEW m \in 1..12
    PROVE  /\ DaysIn(y, m) \in 28..31
           /\ MONTAB(y)[m] + DaysIn(y, m) <= MonthEnd(y, m)
           /\ ~ (y = 200 /\ m = 2) => MONTAB(y)[m] + DaysIn(y, m) = MonthEnd(y, m)
  <1>1. y # 200 => (LeapYear(1900 + y) <=> y % 4 = 0)
    BY DEF LeapYear
  <1>2. y = 200 => (~ LeapYear(1900 + y) /\ y % 4 = 0)
    BY DEF LeapYear
  <1>3. CASE y % 4 # 0
    <2>1. MONTAB(y) = mos /\ YearLength(y) = 365 /\ ~ LeapYear(1900 + y)
      BY <1>1, <1>2, <1>3 DEF MONTAB, YearLength
    <2> QED BY <2>1 DEF MonthEnd, DaysIn, MonthLength, mos
  <1>4. CASE y % 4 = 0
    <2>1. MONTAB(y) = lmos /\ YearLength(y) = 366
      BY <1>4 DEF MONTAB, YearLength
    <2>2. y # 200 => LeapYear(1900 + y)
      BY <1>1, <1>4
    <2> QED BY <1>2, <2>1, <2>2 DEF MonthEnd, DaysIn, MonthLength, lmos
  <1> QED BY <1>3, <1>4
(* A day is in front of the last of its month, or it is the last.            *)
WithinMonth(y, m, d) ==
    /\ d < DaysIn(y, m) => MONTAB(y)[m] + (d + 1) <= MonthEnd(y, m)
    /\ ~ (d < DaysIn(y, m)) => MONTAB(y)[m] + d = MonthEnd(y, m)

LEMMA LastOfMonth ==
    ASSUME NEW days, NEW y \in 100..200, NEW m \in 1..12, NEW d, IsDay(days, y, m, d),
           days + 1 \in ConvertedDays, days \in Nat
    PROVE  WithinMonth(y, m, d)
  <1> DEFINE l == DaysIn(y, m)
             t == MONTAB(y)[m]
             e == MonthEnd(y, m)
  <1>1. /\ d \in Nat \ {0} /\ days = YearStart(y) + t + d - 1 /\ t + d <= e
    BY DEF IsDay
  <1>2. l \in 28..31 /\ t + l <= e /\ (~ (y = 200 /\ m = 2) => t + l = e)
    BY MonthLengths
  <1>3. t \in Nat /\ e \in Nat
    <2>1. y \in Nat
      OBVIOUS
    <2> QED BY <2>1, MonthBounds
  <1>4. CASE ~ (y = 200 /\ m = 2)
    <2> HIDE DEF l, t, e
    <2>1. (d < l => t + (d + 1) <= e) /\ (~ (d < l) => t + d = e)
      BY <1>1, <1>2, <1>3, <1>4
    <2> QED BY <2>1, Zenon DEF WithinMonth, l, t, e
  <1>5. CASE y = 200 /\ m = 2
    <2>1. YearStart(200) = 73049
      BY DEF YearStart
    <2>2. MONTAB(200)[2] = 31
      BY DEF MONTAB, lmos
    <2>3. d + 1 <= 28
      <3>1. YearStart(y) = 73049 /\ t = 31
        BY <1>5, <2>1, <2>2
      <3>2. days + 1 <= 73107
        BY DEF ConvertedDays
      <3>3. days = 73049 + 31 + d - 1
        BY <1>1, <3>1
      <3> HIDE DEF t
      <3> QED BY <1>1, <3>2, <3>3
    <2> HIDE DEF l, t, e
    <2>4. d < l /\ t + (d + 1) <= e
      BY <1>1, <1>2, <1>3, <2>3
    <2> QED BY <2>4, Zenon DEF WithinMonth, l, t, e
  <1> QED BY <1>4, <1>5

(* The next day has the calendar's next date. *)
IsNextDay(days, y, m, d) ==
    /\ d < DaysIn(y, m) => IsDay(days, y, m, d + 1)
    /\ ~ (d < DaysIn(y, m)) /\ m < 12 => IsDay(days, y, m + 1, 1)
    /\ ~ (d < DaysIn(y, m)) /\ m = 12 => IsDay(days, y + 1, 1, 1)

LEMMA NextIsDay ==
    ASSUME NEW days, NEW y \in 100..200, NEW m \in 1..12, NEW d, IsDay(days, y, m, d),
           days + 1 \in ConvertedDays, days \in Nat
    PROVE  IsNextDay(days + 1, y, m, d)
  <1> DEFINE t == MONTAB(y)[m]
             e == MonthEnd(y, m)
             s == YearStart(y)
  <1>1. y \in Nat \ {0} /\ y \in Nat /\ d \in Nat \ {0} /\ days = s + t + d - 1 /\ t + d <= e
    BY DEF IsDay
  <1>2. t \in Nat /\ e \in Nat /\ s \in Nat
    BY <1>1, MonthBounds, YearsFollow
  <1>6. /\ d < DaysIn(y, m) => t + (d + 1) <= e
        /\ ~ (d < DaysIn(y, m)) => t + d = e
    <2>1. WithinMonth(y, m, d)
      BY LastOfMonth
    <2> QED BY <2>1, Zenon DEF WithinMonth
  <1>3. ASSUME d < DaysIn(y, m) PROVE IsDay(days + 1, y, m, d + 1)
    <2>1. t + (d + 1) <= e
      BY <1>3, <1>6
    <2>2. days + 1 = s + t + (d + 1) - 1 /\ d + 1 \in Nat \ {0}
      <3> HIDE DEF s, t
      <3> QED BY <1>1, <1>2
    <2> QED BY <1>1, <2>1, <2>2 DEF IsDay
  <1>4. ASSUME ~ (d < DaysIn(y, m)), m < 12 PROVE IsDay(days + 1, y, m + 1, 1)
    <2>1. t + d = e
      BY <1>4, <1>6
    <2>2. m + 1 \in 1..12 /\ e = MONTAB(y)[m + 1]
      BY <1>4 DEF MonthEnd
    <2>3. MONTAB(y)[m + 1] < MonthEnd(y, m + 1) /\ MonthEnd(y, m + 1) \in Nat
      BY <1>1, <2>2, MonthBounds
    <2>4. days + 1 = s + e + 1 - 1
      <3> HIDE DEF s, t, e
      <3> QED BY <1>1, <1>2, <2>1
    <2>5. days + 1 = YearStart(y) + MONTAB(y)[m + 1] + 1 - 1
      BY <2>2, <2>4
    <2>6. MONTAB(y)[m + 1] + 1 <= MonthEnd(y, m + 1)
      <3>1. e < MonthEnd(y, m + 1)
        BY <2>2, <2>3
      <3> HIDE DEF e
      <3>2. e + 1 <= MonthEnd(y, m + 1)
        BY <1>2, <2>3, <3>1
      <3> QED BY <2>2, <3>2
    <2> HIDE DEF s, t, e
    <2> QED BY <1>1, <2>2, <2>5, <2>6 DEF IsDay
  <1>5. ASSUME ~ (d < DaysIn(y, m)), m = 12 PROVE IsDay(days + 1, y + 1, 1, 1)
    <2>1. t + d = e
      BY <1>5, <1>6
    <2>2. e = YearLength(y) /\ YearStart(y + 1) = s + YearLength(y)
      BY <1>1, <1>5, YearsFollow DEF MonthEnd
    <2>3. y + 1 \in Nat /\ y + 1 \in Nat \ {0}
      OBVIOUS
    <2>4. MONTAB(y + 1)[1] = 0
      BY <2>3, MonthsRise
    <2>5. 0 < MonthEnd(y + 1, 1) /\ MonthEnd(y + 1, 1) \in Nat
      <3>1. 1 \in 1..12
        OBVIOUS
      <3> HIDE DEF s, t, e
      <3>2. MonthEnd(y + 1, 1) \in Nat /\ MONTAB(y + 1)[1] < MonthEnd(y + 1, 1)
        BY <2>3, <3>1, MonthBounds
      <3> QED BY <2>4, <3>2
    <2>6. days + 1 = YearStart(y + 1) + 0 + 1 - 1
      <3>1. YearStart(y + 1) = s + e
        BY <2>2
      <3> HIDE DEF s, t, e
      <3> QED BY <1>1, <1>2, <2>1, <3>1
    <2>7. 0 + 1 <= MonthEnd(y + 1, 1)
      BY <2>5
    <2> HIDE DEF s, t, e
    <2>8. 1 \in 1..12 /\ 1 \in Nat \ {0}
      OBVIOUS
    <2> QED BY <2>3, <2>4, <2>6, <2>7, <2>8 DEF IsDay
  <1> QED BY <1>3, <1>4, <1>5 DEF IsNextDay

LEMMA IsConverted ==
    ASSUME NEW x \in Int, 36524 <= x, x <= 73107
    PROVE  x \in ConvertedDays
  BY DEF ConvertedDays

LEMMA DaysConverted ==
    ASSUME NEW day \in FirstDay..LastDay - 1
    PROVE  /\ day \in Nat /\ day + 1 \in Nat
           /\ 25567 + day \in Nat /\ 25567 + day \in ConvertedDays
           /\ (25567 + day) + 1 = 25567 + (day + 1)
           /\ 25567 + (day + 1) \in ConvertedDays
           /\ (25567 + day) - 25567 = day
  <1>1. FirstDay = 10957 /\ LastDay - 1 = 47539
    BY DEF FirstDay, LastDay
  <1>3. day \in Int /\ 10957 <= day /\ day <= 47539
    <2>1. FirstDay \in Int /\ LastDay - 1 \in Int
      BY <1>1
    <2>2. ASSUME NEW a \in Int, NEW b \in Int, NEW x \in a..b
          PROVE  x \in Int /\ a <= x /\ x <= b
      OBVIOUS
    <2>3. day \in Int /\ FirstDay <= day /\ day <= LastDay - 1
      BY <2>1, <2>2
    <2> QED BY <1>1, <2>3
  <1>2. 25567 + day \in ConvertedDays /\ 25567 + (day + 1) \in ConvertedDays
    <2>1. 36524 <= 25567 + day /\ 25567 + day <= 73107
      BY <1>3
    <2>2. 36524 <= 25567 + (day + 1) /\ 25567 + (day + 1) <= 73107
      BY <1>3
    <2>3. 25567 + day \in Int /\ 25567 + (day + 1) \in Int
      BY <1>3
    <2>5. 25567 + day \in ConvertedDays
      BY <2>1, <2>3, IsConverted
    <2>6. 25567 + (day + 1) \in ConvertedDays
      BY <2>2, <2>3, IsConverted
    <2> QED BY <2>5, <2>6
  <1> QED BY <1>2, <1>3

LEMMA NextConverted ==
    ASSUME NEW day \in FirstDay..LastDay - 1
    PROVE  UnixToDateTime(day + 1) = NextDate(UnixToDateTime(day))
  <1> DEFINE days == 25567 + day
  <1>1. days \in Nat /\ day \in Nat /\ day + 1 \in Nat
    BY DaysConverted
  <1>12. days \in ConvertedDays
    BY DaysConverted
  <1>13. days + 1 = 25567 + (day + 1)
    BY DaysConverted
  <1>14. days + 1 \in ConvertedDays
    BY <1>13, DaysConverted
  <1> HIDE DEF days
  <1>2. PICK y \in 100..200, m \in 1..12, d \in Nat \ {0} : IsDay(days, y, m, d)
    BY <1>12, HasDate
  <1> DEFINE l == DaysIn(y, m)
             date == UnixToDateTime(day)
             next == UnixToDateTime(day + 1)
  <1>3. date = <<y - 100, m, d>>
    BY <1>1, <1>2, DateOf DEF days
  <1>4. 2000 + (y - 100) = 1900 + y /\ (y - 100) + 1 = (y + 1) - 100
    OBVIOUS
  <1>5. NextDate(date) = IF d < l THEN <<y - 100, m, d + 1>>
                         ELSE IF m < 12 THEN <<y - 100, m + 1, 1>> ELSE <<(y + 1) - 100, 1, 1>>
    <2> HIDE DEF date
    <2>1. date[1] = y - 100 /\ date[2] = m /\ date[3] = d
      BY <1>3
    <2> QED BY <1>4, <2>1 DEF NextDate, DaysIn
  <1>6. \A z, n, e : IsDay(days + 1, z, n, e) => next = <<z - 100, n, e>>
    BY <1>1, <1>13, DateOf
  <1> HIDE DEF date, next
  <1>10. /\ d < l => IsDay(days + 1, y, m, d + 1)
         /\ ~ (d < l) /\ m < 12 => IsDay(days + 1, y, m + 1, 1)
         /\ ~ (d < l) /\ m = 12 => IsDay(days + 1, y + 1, 1, 1)
    <2>1. IsNextDay(days + 1, y, m, d)
      BY <1>1, <1>2, <1>14, NextIsDay
    <2> QED BY <2>1, Zenon DEF IsNextDay
  <1>11. m < 12 \/ (m = 12 /\ ~ (m < 12))
    OBVIOUS
  <1> HIDE DEF l
  <1>7. CASE d < l
    BY <1>5, <1>6, <1>7, <1>10, <1>11, Zenon DEF date, next
  <1>8. CASE ~ (d < l) /\ m < 12
    BY <1>5, <1>6, <1>8, <1>10, <1>11, Zenon DEF date, next
  <1>9. CASE ~ (d < l) /\ m = 12
    BY <1>5, <1>6, <1>9, <1>10, <1>11, Zenon DEF date, next
  <1> QED BY <1>7, <1>8, <1>9, <1>11

LEMMA BackConverted ==
    ASSUME NEW day \in FirstDay..LastDay - 1
    PROVE  DateTimeToUnix(UnixToDateTime(day)) = day
  <1> DEFINE days == 25567 + day
  <1>1. days \in ConvertedDays /\ day \in Nat
    BY DaysConverted
  <1>2. days - 25567 = day
    BY DaysConverted
  <1> HIDE DEF days
  <1>3. PICK y \in 100..200, m \in 1..12, d \in Nat \ {0} : IsDay(days, y, m, d)
    BY <1>1, HasDate
  <1> DEFINE date == UnixToDateTime(day)
  <1>4. date = <<y - 100, m, d>>
    BY <1>1, <1>3, DateOf DEF days
  <1> HIDE DEF date
  <1>5. date[1] = y - 100 /\ date[2] = m /\ date[3] = d
    BY <1>4
  <1>6. m # 0 /\ 100 + (y - 100) = y /\ (m - 1) + 1 = m
    OBVIOUS
  <1>7. DateTimeToUnix(date) = DAYS_TO_32(y, m - 1) - 1 + 365 * y + d - 25567
    BY <1>5, <1>6 DEF DateTimeToUnix
  <1>8. DAYS_TO_32(y, m - 1) = (y - 1) \div 4 + MONTAB(y)[m]
    BY <1>6 DEF DAYS_TO_32
  <1> DEFINE q == (y - 1) \div 4
             t == MONTAB(y)[m]
  <1>9. q \in Nat /\ t \in Nat /\ days = q + 365 * y + t + d - 1
    <2>1. y \in Nat /\ q \in Nat
      OBVIOUS
    <2>2. t \in Nat
      BY <2>1, MonthBounds
    <2>3. days = YearStart(y) + t + d - 1
      BY <1>3 DEF IsDay
    <2>4. YearStart(y) = q + 365 * y
      BY DEF YearStart
    <2> QED BY <2>1, <2>2, <2>3, <2>4
  <1>10. DateTimeToUnix(date) = q + t - 1 + 365 * y + d - 25567
    <2>1. DAYS_TO_32(y, m - 1) = q + t
      BY <1>8
    <2> HIDE DEF q, t
    <2> QED BY <1>7, <1>9, <2>1
  <1> HIDE DEF q, t
  <1>11. DateTimeToUnix(date) = days - 25567
    BY <1>9, <1>10
  <1> QED BY <1>2, <1>11 DEF date

LEMMA DateAlways == HelpInv => DateConverted
  <1> SUFFICES ASSUME HelpInv, input.helper = "date"
               PROVE  /\ UnixToDateTime(input.day + 1) = NextDate(UnixToDateTime(input.day))
                      /\ DateTimeToUnix(UnixToDateTime(input.day)) = input.day
    BY DEF DateConverted
  <1>1. PICK day \in Days : input = [helper |-> "date", day |-> day]
    BY Zenon DEF HelpInv, DateInput
  <1>2. input.day = day /\ day \in FirstDay..LastDay - 1
    BY <1>1, HelpAssumption
  <1> QED BY <1>2, NextConverted, BackConverted
-----------------------------------------------------------------------------
(* Numbers in arrays of bits. *)

(* A number is put together from its highest bit on. *)
Rising(upper, bits, count) ==
    /\ NumberOf(bits, count) = upper[count] /\ upper[0] = 0
    /\ \A n \in 1..count : upper[n] = 2 * upper[n - 1] + (IF count - n \in bits THEN 1 ELSE 0)

LEMMA HornerSteps ==
    ASSUME NEW bits, NEW count \in Nat
    PROVE  \E upper \in [0..count -> Nat] : Rising(upper, bits, count)
  <1> DEFINE Bit(i) == IF i \in bits THEN 1 ELSE 0
             Rise(g) == g = [n \in 0..count |-> IF n = 0 THEN 0
                                 ELSE 2 * g[n - 1] + (IF count - n \in bits THEN 1 ELSE 0)]
             upper == CHOOSE g : Rise(g)
             step == [n \in 1..count |-> [v \in Nat |-> 2 * v + Bit(count - n)]]
  <1>1. NumberOf(bits, count) = upper[count]
    BY DEF NumberOf
  <1>2. \A i : Bit(i) \in 0..1
    OBVIOUS
  <1>3. \A g : Rise(g) => \A n \in 0..count : g[n] = IF n = 0 THEN 0 ELSE 2 * g[n - 1] + Bit(count - n)
    BY Zenon
  <1>4. ASSUME NEW g, g = [n \in 0..count |-> g[n]],
               \A n \in 0..count : g[n] = IF n = 0 THEN 0 ELSE 2 * g[n - 1] + Bit(count - n)
        PROVE  Rise(g)
    BY <1>4
  <1> HIDE DEF Bit, Rise
  <1>5. step \in [1..count -> [Nat -> Nat]]
    BY <1>2
  <1>6. \A n \in 1..count, v \in Nat : step[n][v] = 2 * v + Bit(count - n)
    OBVIOUS
  <1> HIDE DEF step
  <1>7. PICK g \in [0..count -> Nat] : g[0] = 0 /\ \A n \in 1..count : g[n] = step[n][g[n - 1]]
    <2>1. \E g \in [0..count -> Nat] : Follows(g, 0, step, count)
      BY <1>5, StepByStep
    <2> QED BY <2>1, Zenon DEF Follows
  <1>8. Rise(g)
    <2>1. \A n \in 0..count : g[n] = IF n = 0 THEN 0 ELSE 2 * g[n - 1] + Bit(count - n)
      <3> SUFFICES ASSUME NEW n \in 1..count PROVE g[n] = 2 * g[n - 1] + Bit(count - n)
        BY <1>7
      <3>1. g[n - 1] \in Nat
        BY <1>7
      <3> QED BY <1>6, <1>7, <3>1
    <2>2. g = [n \in 0..count |-> g[n]]
      BY <1>7
    <2> QED BY <1>4, <2>1, <2>2
  <1>9. Rise(upper)
    BY <1>8, Zenon
  <1> HIDE DEF upper
  <1>10. \A n \in 0..count : upper[n] = IF n = 0 THEN 0 ELSE 2 * upper[n - 1] + Bit(count - n)
    BY <1>3, <1>9
  <1>11. upper[0] = 0 /\ \A n \in 1..count : upper[n] = 2 * upper[n - 1] + Bit(count - n)
    BY <1>10
  <1>12. upper = [n \in 0..count |-> upper[n]]
    <2>1. upper = [n \in 0..count |-> IF n = 0 THEN 0
                       ELSE 2 * upper[n - 1] + (IF count - n \in bits THEN 1 ELSE 0)]
      BY <1>9, Zenon DEF Rise
    <2> QED BY <2>1, Zenon
  <1> DEFINE S == {n \in 0..count : upper[n] \in Nat}
  <1>13. \A n \in 0..count : n \in S
    <2>1. 0 \in S
      BY <1>11
    <2>2. ASSUME NEW n \in 1..count, n - 1 \in S PROVE n \in S
      <3>1. upper[n - 1] \in Nat /\ upper[n] = 2 * upper[n - 1] + Bit(count - n)
        BY <1>11, <2>2
      <3>2. Bit(count - n) \in 0..1
        BY <1>2
      <3>3. upper[n] \in Nat
        BY <3>1, <3>2
      <3> QED BY <3>3
    <2> HIDE DEF S
    <2> QED BY <2>1, <2>2, EachStep
  <1>14. upper \in [0..count -> Nat]
    BY <1>12, <1>13
  <1>15. \A n \in 1..count : upper[n] = 2 * upper[n - 1] + (IF count - n \in bits THEN 1 ELSE 0)
    BY <1>11, Zenon DEF Bit
  <1>16. Rising(upper, bits, count)
    BY <1>1, <1>11, <1>15, Zenon DEF Rising
  <1> QED BY <1>14, <1>16

(* Its bits are found by halving it. *)
LEMMA HalvingSteps ==
    ASSUME NEW v \in Nat, NEW count \in Nat
    PROVE  \E shifted \in [0..count -> Nat] :
              /\ BitsOf(v, count) = {i \in 0..count - 1 : shifted[i] % 2 = 1}
              /\ shifted[0] = v /\ \A i \in 1..count : shifted[i] = shifted[i - 1] \div 2
  <1> DEFINE Fall(g) == g = [i \in 0..count |-> IF i = 0 THEN v ELSE g[i - 1] \div 2]
             shifted == CHOOSE g : Fall(g)
             step == [n \in 1..count |-> [x \in Nat |-> x \div 2]]
  <1>1. BitsOf(v, count) = {i \in 0..count - 1 : shifted[i] % 2 = 1}
    BY DEF BitsOf
  <1>2. \A g : Fall(g) => \A n \in 0..count : g[n] = IF n = 0 THEN v ELSE g[n - 1] \div 2
    BY Zenon
  <1>3. ASSUME NEW g, g = [n \in 0..count |-> g[n]],
               \A n \in 0..count : g[n] = IF n = 0 THEN v ELSE g[n - 1] \div 2
        PROVE  Fall(g)
    BY <1>3
  <1> HIDE DEF Fall
  <1>4. step \in [1..count -> [Nat -> Nat]]
    OBVIOUS
  <1>5. \A n \in 1..count, x \in Nat : step[n][x] = x \div 2
    OBVIOUS
  <1> HIDE DEF step
  <1>6. PICK g \in [0..count -> Nat] : g[0] = v /\ \A n \in 1..count : g[n] = step[n][g[n - 1]]
    <2>1. \E g \in [0..count -> Nat] : Follows(g, v, step, count)
      BY <1>4, StepByStep
    <2> QED BY <2>1, Zenon DEF Follows
  <1>7. Fall(g)
    <2>1. \A n \in 0..count : g[n] = IF n = 0 THEN v ELSE g[n - 1] \div 2
      <3> SUFFICES ASSUME NEW n \in 1..count PROVE g[n] = g[n - 1] \div 2
        BY <1>6
      <3>1. g[n - 1] \in Nat
        BY <1>6
      <3> QED BY <1>5, <1>6, <3>1
    <2>2. g = [n \in 0..count |-> g[n]]
      BY <1>6
    <2> QED BY <1>3, <2>1, <2>2
  <1>8. Fall(shifted)
    BY <1>7, Zenon
  <1> HIDE DEF shifted
  <1>9. \A n \in 0..count : shifted[n] = IF n = 0 THEN v ELSE shifted[n - 1] \div 2
    BY <1>2, <1>8
  <1>10. shifted[0] = v /\ \A n \in 1..count : shifted[n] = shifted[n - 1] \div 2
    BY <1>9
  <1>11. shifted = [n \in 0..count |-> shifted[n]]
    <2>1. shifted = [i \in 0..count |-> IF i = 0 THEN v ELSE shifted[i - 1] \div 2]
      BY <1>8, Zenon DEF Fall
    <2> QED BY <2>1, Zenon
  <1> DEFINE S == {n \in 0..count : shifted[n] \in Nat}
  <1>12. \A n \in 0..count : n \in S
    <2>1. 0 \in S
      BY <1>10
    <2>2. ASSUME NEW n \in 1..count, n - 1 \in S PROVE n \in S
      <3>1. shifted[n - 1] \in Nat /\ shifted[n] = shifted[n - 1] \div 2
        BY <1>10, <2>2
      <3>2. shifted[n] \in Nat
        BY <3>1
      <3> QED BY <3>2
    <2> HIDE DEF S
    <2> QED BY <2>1, <2>2, EachStep
  <1>13. shifted \in [0..count -> Nat]
    BY <1>11, <1>12
  <1> QED BY <1>1, <1>10, <1>13

LEMMA BitsOfNumber ==
    ASSUME NEW count \in Nat, NEW bits, bits \subseteq 0..count - 1
    PROVE  NumberOf(bits, count) \in Nat /\ BitsOf(NumberOf(bits, count), count) = bits
  <1> DEFINE v == NumberOf(bits, count)
             Bit(i) == IF i \in bits THEN 1 ELSE 0
  <1>1. PICK upper \in [0..count -> Nat] :
            /\ v = upper[count] /\ upper[0] = 0
            /\ \A n \in 1..count : upper[n] = 2 * upper[n - 1] + Bit(count - n)
    <2>1. \E upper \in [0..count -> Nat] : Rising(upper, bits, count)
      BY HornerSteps
    <2> QED BY <2>1, Zenon DEF Rising
  <1>2. \A i : Bit(i) \in 0..1 /\ (Bit(i) = 1 <=> i \in bits)
    OBVIOUS
  <1> HIDE DEF v, Bit
  <1>3. v \in Nat
    BY <1>1
  <1>4. PICK shifted \in [0..count -> Nat] :
            /\ BitsOf(v, count) = {i \in 0..count - 1 : shifted[i] % 2 = 1}
            /\ shifted[0] = v /\ \A i \in 1..count : shifted[i] = shifted[i - 1] \div 2
    BY <1>3, HalvingSteps
  <1> DEFINE S == {k \in 0..count : shifted[k] = upper[count - k]}
  <1>5. \A k \in 0..count : k \in S
    <2>1. 0 \in S
      BY <1>1, <1>4
    <2>2. ASSUME NEW k \in 1..count, k - 1 \in S PROVE k \in S
      <3> DEFINE n == count - (k - 1)
      <3>1. n \in 1..count /\ n - 1 = count - k /\ n - 1 \in 0..count
        OBVIOUS
      <3>2. shifted[k - 1] = upper[n]
        BY <2>2
      <3> HIDE DEF n
      <3>3. upper[n] = 2 * upper[n - 1] + Bit(count - n) /\ upper[n - 1] \in Nat
        BY <1>1, <3>1
      <3>4. Bit(count - n) \in 0..1
        BY <1>2
      <3>5. upper[n] \div 2 = upper[n - 1]
        <4>1. ASSUME NEW x \in Nat, NEW b \in 0..1 PROVE (2 * x + b) \div 2 = x
          BY <4>1
        <4> QED BY <3>3, <3>4, <4>1
      <3>6. shifted[k] = upper[count - k]
        BY <1>4, <3>1, <3>2, <3>5
      <3> QED BY <3>6
    <2> HIDE DEF S
    <2> QED BY <2>1, <2>2, EachStep
  <1>6. ASSUME NEW i \in 0..count - 1 PROVE shifted[i] % 2 = 1 <=> i \in bits
    <2> DEFINE n == count - i
    <2>1. n \in 1..count /\ count - n = i /\ n - 1 \in 0..count /\ i \in 0..count
      OBVIOUS
    <2>2. shifted[i] = upper[n]
      BY <1>5, <2>1
    <2> HIDE DEF n
    <2>3. upper[n] = 2 * upper[n - 1] + Bit(i) /\ upper[n - 1] \in Nat
      BY <1>1, <2>1
    <2>4. Bit(i) \in 0..1
      BY <1>2
    <2>5. upper[n] % 2 = Bit(i)
      BY <2>3, <2>4
    <2> QED BY <1>2, <2>2, <2>5
  <1>7. BitsOf(v, count) = bits
    BY <1>4, <1>6
  <1> QED BY <1>3, <1>7 DEF v

(* A number is read where it was put, and nothing else is touched. *)
Reads(v, array, index, count) ==
    LET kept == AddValueToArray(v, array, index, count)
        place == index..index + count - 1
    IN  ExtractValue(kept, index, count) = v /\ kept \ place = array \ place

LEMMA ReadBack ==
    ASSUME NEW array, NEW index \in Nat, NEW count \in Nat, NEW bits, bits \subseteq 0..count - 1
    PROVE  Reads(NumberOf(bits, count), array, index, count)
  <1> DEFINE kept == AddValueToArray(NumberOf(bits, count), array, index, count)
             place == index..index + count - 1
             ones == {index + i : i \in {j \in 0..count - 1 : count - 1 - j \in bits}}
  <1>1. kept = (array \ place) \cup ones
    BY BitsOfNumber DEF AddValueToArray
  <1>2. ones \subseteq place
    OBVIOUS
  <1>3. ASSUME NEW i \in 0..count - 1 PROVE index + count - 1 - i \in kept <=> i \in bits
    <2> DEFINE j == count - 1 - i
    <2>1. j \in 0..count - 1 /\ count - 1 - j = i /\ index + count - 1 - i = index + j
      OBVIOUS
    <2>2. index + j \in place
      BY <2>1
    <2>3. index + j \in ones <=> i \in bits
      <3>1. ASSUME i \in bits PROVE index + j \in ones
        BY <2>1, <3>1
      <3>2. ASSUME index + j \in ones PROVE i \in bits
        <4>1. PICK k \in 0..count - 1 : index + j = index + k /\ count - 1 - k \in bits
          BY <3>2
        <4>2. k = j
          BY <2>1, <4>1
        <4> QED BY <2>1, <4>1, <4>2
      <3> QED BY <3>1, <3>2
    <2> HIDE DEF j, ones, place, kept
    <2> QED BY <1>1, <2>1, <2>2, <2>3
  <1> HIDE DEF kept, ones
  <1>4. {i \in 0..count - 1 : index + count - 1 - i \in kept} = bits
    BY <1>3
  <1>5. ExtractValue(kept, index, count) = NumberOf(bits, count)
    BY <1>4 DEF ExtractValue
  <1>6. kept \ place = array \ place
    <2> HIDE DEF place
    <2> QED BY <1>1, <1>2
  <1> QED BY <1>5, <1>6, Zenon DEF Reads, kept, place

LEMMA BitsAlways == HelpInv => BitsKept
  <1> SUFFICES ASSUME HelpInv, input.helper = "bits" PROVE BitsKept
    BY DEF BitsKept
  <1>1. PICK array \in {{}, 0..ArrayBits - 1}, index \in 0..ArrayBits - 1, count \in 1..ValueBits :
            \E bits \in SUBSET (0..count - 1) :
                input = [helper |-> "bits", array |-> array, index |-> index,
                         count |-> count, v |-> NumberOf(bits, count)]
    BY Zenon DEF HelpInv, BitsInput
  <1>2. PICK bits \in SUBSET (0..count - 1) :
            input = [helper |-> "bits", array |-> array, index |-> index,
                     count |-> count, v |-> NumberOf(bits, count)]
    BY <1>1
  <1>3. input.array = array /\ input.index = index /\ input.count = count /\ input.v = NumberOf(bits, count)
    BY <1>2
  <1>4. index \in Nat /\ count \in Nat /\ bits \subseteq 0..count - 1
    BY HelpAssumption
  <1>5. Reads(input.v, input.array, input.index, input.count)
    <2>1. Reads(NumberOf(bits, count), array, index, count)
      BY <1>4, ReadBack
    <2> QED BY <1>3, <2>1, Zenon
  <1> QED BY <1>5, Zenon DEF BitsKept, Reads
-----------------------------------------------------------------------------
(* Card codes. *)

LEMMA OddFlips ==
    ASSUME NEW A, IsFiniteSet(A), NEW x, x \notin A
    PROVE  Odd(A \cup {x}) <=> ~ Odd(A)
  <1>1. Cardinality(A \cup {x}) = Cardinality(A) + 1 /\ Cardinality(A) \in Nat
    BY FS_AddElement, FS_CardinalityType
  <1>2. ASSUME NEW c \in Nat PROVE (c + 1) % 2 = 1 <=> ~ (c % 2 = 1)
    BY <1>2
  <1> QED BY <1>1, <1>2 DEF Odd

(* Changing whether x belongs to a set changes its parity. *)
Toggled(A, x) == (A \ {x}) \cup ({x} \ A)

LEMMA OddToggles ==
    ASSUME NEW A, IsFiniteSet(A), NEW x
    PROVE  Odd(Toggled(A, x)) <=> ~ Odd(A)
  <1>1. CASE x \notin A
    <2>1. Toggled(A, x) = A \cup {x}
      BY <1>1 DEF Toggled
    <2> QED BY <1>1, <2>1, OddFlips, Zenon
  <1>2. CASE x \in A
    <2> DEFINE B == A \ {x}
    <2>1. Toggled(A, x) = B /\ A = B \cup {x} /\ x \notin B /\ B \subseteq A
      BY <1>2 DEF Toggled
    <2> HIDE DEF B
    <2>2. IsFiniteSet(B)
      BY <2>1, FS_Subset, Zenon
    <2>3. Odd(B \cup {x}) <=> ~ Odd(B)
      BY <2>1, <2>2, OddFlips, Zenon
    <2> QED BY <2>1, <2>3, Zenon
  <1> QED BY <1>1, <1>2, Zenon

(* A frame of 26 bits that carries the code whose bits are given. *)
Carries(frame, bits) ==
    /\ frame \subseteq 0..25
    /\ \A i \in 0..23 : 24 - i \in frame <=> i \in bits
    /\ FirstParity(frame, 26) /\ SecondParity(frame, 26)

FirstHalf(frame) == {b \in frame : b \in 1..12}
SecondHalf(frame) == {b \in frame : b \in 13..24}

LEMMA HalvesAre ==
    ASSUME NEW frame
    PROVE  /\ FirstParity(frame, 26) <=> (Odd(FirstHalf(frame)) <=> 0 \in frame)
           /\ SecondParity(frame, 26) <=> (Odd(SecondHalf(frame)) <=> 25 \notin frame)
  <1>1. 26 \div 2 = 13 /\ 13 - 1 = 12 /\ 26 - 2 = 24 /\ 26 - 1 = 25
    OBVIOUS
  <1>2. Halves(frame, 26).first = FirstHalf(frame)
    BY <1>1 DEF Halves, FirstHalf
  <1>3. Halves(frame, 26).second = SecondHalf(frame)
    BY <1>1 DEF Halves, SecondHalf
  <1>4. FirstParity(frame, 26) <=> (Odd(FirstHalf(frame)) <=> 0 \in frame)
    BY <1>2, Zenon DEF FirstParity
  <1>5. SecondParity(frame, 26) <=> (Odd(SecondHalf(frame)) <=> 26 - 1 \notin frame)
    BY <1>3, Zenon DEF SecondParity
  <1> QED BY <1>1, <1>4, <1>5

LEMMA FrameCarries ==
    ASSUME NEW code
    PROVE  Carries(WiegandFrame(code), BitsOf(code, 24)) /\ BitsOf(code, 24) \subseteq 0..23
  <1> DEFINE bits == BitsOf(code, 24)
             data == {24 - i : i \in bits}
             first == {b \in {0} : Odd(data \cap (1..12))}
             second == {b \in {25} : ~ Odd(data \cap (13..24))}
             frame == WiegandFrame(code)
  <1>1. bits \subseteq 0..23
    BY DEF BitsOf
  <1>2. frame = data \cup first \cup second
    BY DEF WiegandFrame
  <1> HIDE DEF bits, frame
  <1>3. data \subseteq 1..24
    BY <1>1
  <1>4. ASSUME NEW i \in 0..23 PROVE 24 - i \in data <=> i \in bits
    <2>1. ASSUME 24 - i \in data PROVE i \in bits
      <3>1. PICK k \in bits : 24 - i = 24 - k
        BY <2>1
      <3>2. k = i
        BY <1>1, <3>1
      <3> QED BY <3>1, <3>2
    <2> QED BY <2>1
  <1> HIDE DEF data
  <1>5. FirstHalf(frame) = data \cap (1..12)
    BY <1>2, <1>3 DEF FirstHalf
  <1>6. SecondHalf(frame) = data \cap (13..24)
    BY <1>2, <1>3 DEF SecondHalf
  <1>7. 0 \in frame <=> Odd(data \cap (1..12))
    <2>1. 0 \notin data /\ 0 \notin second
      BY <1>3
    <2>2. 0 \in first <=> Odd(data \cap (1..12))
      BY Zenon
    <2> HIDE DEF first, second
    <2> QED BY <1>2, <2>1, <2>2, Zenon
  <1>8. 25 \in frame <=> ~ Odd(data \cap (13..24))
    <2>1. 25 \notin data /\ 25 \notin first
      BY <1>3
    <2>2. 25 \in second <=> ~ Odd(data \cap (13..24))
      BY Zenon
    <2> HIDE DEF first, second
    <2> QED BY <1>2, <2>1, <2>2, Zenon
  <1>9. FirstParity(frame, 26) /\ SecondParity(frame, 26)
    BY <1>5, <1>6, <1>7, <1>8, HalvesAre, Zenon
  <1>10. frame \subseteq 0..25
    <2>1. first \subseteq {0} /\ second \subseteq {25}
      OBVIOUS
    <2> HIDE DEF first, second
    <2>2. data \subseteq 0..25 /\ {0} \subseteq 0..25 /\ {25} \subseteq 0..25
      BY <1>3
    <2> QED BY <1>2, <2>1, <2>2
  <1>11. ASSUME NEW i \in 0..23 PROVE 24 - i \in frame <=> i \in bits
    <2>1. 24 - i \in 1..24
      OBVIOUS
    <2>2. 24 - i \notin first /\ 24 - i \notin second
      BY <2>1
    <2> QED BY <1>2, <1>4, <2>2
  <1> QED BY <1>1, <1>9, <1>10, <1>11 DEF Carries, frame, bits

LEMMA CodeRead ==
    ASSUME NEW bits, bits \subseteq 0..23, NEW frame, Carries(frame, bits)
    PROVE  CardCode(frame, 26) = bits
  <1>1. CardCode(frame, 26) = {i \in 0..31 : i < 24 /\ 24 - i \in frame}
    BY DEF CardCode
  <1>2. \A i \in 0..31 : i < 24 <=> i \in 0..23
    OBVIOUS
  <1>3. \A i \in 0..23 : 24 - i \in frame <=> i \in bits
    BY DEF Carries
  <1>4. ASSUME NEW i \in CardCode(frame, 26) PROVE i \in bits
    <2>1. i \in 0..23 /\ 24 - i \in frame
      BY <1>1, <1>2
    <2> QED BY <1>3, <2>1
  <1>5. ASSUME NEW i \in bits PROVE i \in CardCode(frame, 26)
    <2>1. i \in 0..31 /\ i < 24 /\ 24 - i \in frame
      BY <1>3
    <2> QED BY <1>1, <2>1
  <1> QED BY <1>4, <1>5

LEMMA FrameRead ==
    ASSUME NEW bits, bits \subseteq 0..23, NEW frame, Carries(frame, bits)
    PROVE  DecodeWiegand(frame, 26) = bits
  <1>1. FirstParity(frame, 26) /\ SecondParity(frame, 26)
    BY DEF Carries
  <1>2. DecodeWiegand(frame, 26) = IF FirstParity(frame, 26) /\ SecondParity(frame, 26)
                                   THEN CardCode(frame, 26) ELSE {-1}
    BY DEF DecodeWiegand
  <1>3. CardCode(frame, 26) = bits
    BY CodeRead
  <1> QED BY <1>1, <1>2, <1>3

LEMMA ShortFrameRead ==
    ASSUME NEW bits, bits \subseteq 0..23, NEW frame, Carries(frame, bits)
    PROVE  DecodeWiegand({b - 1 : b \in frame \ {0}}, 25) = bits
  <1> DEFINE short == {b - 1 : b \in frame \ {0}}
             all == {b + 1 : b \in short}
  <1>1. frame \subseteq 0..25 /\ SecondParity(frame, 26) /\ \A i \in 0..23 : 24 - i \in frame <=> i \in bits
    BY DEF Carries
  <1>2. all = frame \ {0}
    <2>1. ASSUME NEW b \in frame \ {0} PROVE b \in all
      <3>1. b - 1 \in short /\ b = (b - 1) + 1
        BY <1>1
      <3> QED BY <3>1
    <2>2. ASSUME NEW b \in all PROVE b \in frame \ {0}
      <3>1. PICK s \in short : b = s + 1
        OBVIOUS
      <3>2. PICK f \in frame \ {0} : s = f - 1
        OBVIOUS
      <3>3. b = f
        BY <1>1, <3>1, <3>2
      <3> QED BY <3>3
    <2> QED BY <2>1, <2>2
  <1>3. DecodeWiegand(short, 25) = IF SecondParity(all, 26) THEN CardCode(all, 26) ELSE {-1}
    BY DEF DecodeWiegand
  <1> HIDE DEF short, all
  <1>4. SecondHalf(all) = SecondHalf(frame) /\ (25 \in all <=> 25 \in frame)
    BY <1>2 DEF SecondHalf
  <1>5. SecondParity(all, 26)
    BY <1>1, <1>4, HalvesAre, Zenon
  <1>6. CardCode(all, 26) = CardCode(frame, 26)
    <2>1. \A i \in 0..31 : i < 24 => (24 - i \in all <=> 24 - i \in frame)
      BY <1>2
    <2>2. 26 - 2 = 24
      OBVIOUS
    <2> QED BY <2>1, <2>2 DEF CardCode
  <1>7. CardCode(frame, 26) = bits
    BY CodeRead
  <1> QED BY <1>3, <1>5, <1>6, <1>7 DEF short

(* One wrong bit is in one of the halves, or one of their parity bits. *)
LEMMA DamageSeen ==
    ASSUME NEW bits, NEW frame, Carries(frame, bits), NEW bit \in 0..25
    PROVE  DecodeWiegand(Toggled(frame, bit), 26) = {-1}
  <1> DEFINE damaged == Toggled(frame, bit)
  <1>1. frame \subseteq 0..25 /\ FirstParity(frame, 26) /\ SecondParity(frame, 26)
    BY DEF Carries
  <1>2. IsFiniteSet(FirstHalf(frame)) /\ IsFiniteSet(SecondHalf(frame))
    <2>1. IsFiniteSet(1..12) /\ IsFiniteSet(13..24)
      <3>1. 1 \in Int /\ 12 \in Int /\ 13 \in Int /\ 24 \in Int
        OBVIOUS
      <3> QED BY <3>1, FS_Interval, Zenon
    <2>2. FirstHalf(frame) \subseteq 1..12 /\ SecondHalf(frame) \subseteq 13..24
      BY DEF FirstHalf, SecondHalf
    <2> QED BY <2>1, <2>2, FS_Subset
  <1>3. /\ Odd(FirstHalf(frame)) <=> 0 \in frame
        /\ Odd(SecondHalf(frame)) <=> 25 \notin frame
    BY <1>1, HalvesAre, Zenon
  <1>4. CASE bit = 0
    <2>1. FirstHalf(damaged) = FirstHalf(frame) /\ (0 \in damaged <=> 0 \notin frame)
      BY <1>4 DEF FirstHalf, Toggled
    <2> HIDE DEF damaged
    <2>2. ~ FirstParity(damaged, 26)
      BY <1>3, <2>1, HalvesAre, Zenon
    <2> QED BY <2>2 DEF DecodeWiegand, damaged
  <1>5. CASE bit \in 1..12
    <2>1. FirstHalf(damaged) = Toggled(FirstHalf(frame), bit) /\ (0 \in damaged <=> 0 \in frame)
      BY <1>5 DEF FirstHalf, Toggled
    <2> HIDE DEF damaged
    <2>2. Odd(FirstHalf(damaged)) <=> ~ Odd(FirstHalf(frame))
      BY <1>2, <2>1, OddToggles, Zenon
    <2>3. ~ FirstParity(damaged, 26)
      BY <1>3, <2>1, <2>2, HalvesAre, Zenon
    <2> QED BY <2>3 DEF DecodeWiegand, damaged
  <1>6. CASE bit \in 13..24
    <2>1. SecondHalf(damaged) = Toggled(SecondHalf(frame), bit) /\ (25 \in damaged <=> 25 \in frame)
      BY <1>6 DEF SecondHalf, Toggled
    <2> HIDE DEF damaged
    <2>2. Odd(SecondHalf(damaged)) <=> ~ Odd(SecondHalf(frame))
      BY <1>2, <2>1, OddToggles, Zenon
    <2>3. ~ SecondParity(damaged, 26)
      BY <1>3, <2>1, <2>2, HalvesAre, Zenon
    <2> QED BY <2>3 DEF DecodeWiegand, damaged
  <1>7. CASE bit = 25
    <2>1. SecondHalf(damaged) = SecondHalf(frame) /\ (25 \in damaged <=> 25 \notin frame)
      BY <1>7 DEF SecondHalf, Toggled
    <2> HIDE DEF damaged
    <2>2. ~ SecondParity(damaged, 26)
      BY <1>3, <2>1, HalvesAre, Zenon
    <2> QED BY <2>2 DEF DecodeWiegand, damaged
  <1> QED BY <1>4, <1>5, <1>6, <1>7

LEMMA ConvertedTwice ==
    ASSUME NEW bits, bits \subseteq 0..23
    PROVE  Converted(Converted(bits)) = bits
  <1> DEFINE once == Converted(bits)
             Turned(b) == IF b \in 0..15 THEN 15 - b ELSE 39 - b
  <1>1. \A b \in 0..23 : Turned(b) \in 0..23 /\ Turned(Turned(b)) = b /\ (Turned(b) \in 0..15 <=> b \in 0..15)
    OBVIOUS
  <1>2. ASSUME NEW s, s \subseteq 0..23 PROVE Converted(s) = {Turned(b) : b \in s}
    <2>1. s \cap (24..31) = {}
      BY <1>2
    <2>2. \A b \in s : b \in 0..15 \/ b \in 16..23
      BY <1>2
    <2>3. \A b \in 16..23 : b \notin 0..15
      OBVIOUS
    <2> QED BY <2>1, <2>2, <2>3 DEF Converted
  <1> HIDE DEF Turned
  <1>3. once = {Turned(b) : b \in bits}
    BY <1>2
  <1>4. once \subseteq 0..23
    BY <1>1, <1>3
  <1> HIDE DEF once
  <1>5. Converted(once) = {Turned(b) : b \in once}
    BY <1>2, <1>4
  <1>6. {Turned(b) : b \in once} = bits
    BY <1>1, <1>3
  <1> QED BY <1>5, <1>6 DEF once

LEMMA CardAlways == HelpInv => CardRead
  <1> SUFFICES ASSUME HelpInv, input.helper = "card" PROVE CardRead
    BY DEF CardRead
  <1>1. PICK code \in Cards, bit \in 0..26 : input = [helper |-> "card", code |-> code, bit |-> bit]
    BY Zenon DEF HelpInv, CardInput
  <1>2. input.code = code /\ input.bit = bit
    BY <1>1
  <1> DEFINE frame == WiegandFrame(code)
             bits == BitsOf(code, 24)
  <1>3. Carries(frame, bits) /\ bits \subseteq 0..23
    BY FrameCarries
  <1> HIDE DEF frame, bits
  <1>4. DecodeWiegand(frame, 26) = bits
    BY <1>3, FrameRead
  <1>5. DecodeWiegand({b - 1 : b \in frame \ {0}}, 25) = bits
    BY <1>3, ShortFrameRead
  <1>6. bit < 26 => DecodeWiegand(Toggled(frame, bit), 26) = {-1}
    <2> SUFFICES ASSUME bit < 26 PROVE DecodeWiegand(Toggled(frame, bit), 26) = {-1}
      OBVIOUS
    <2>1. bit \in 0..25
      OBVIOUS
    <2> QED BY <1>3, <2>1, DamageSeen
  <1>7. Converted(Converted(bits)) = bits
    BY <1>3, ConvertedTwice
  <1> QED BY <1>2, <1>4, <1>5, <1>6, <1>7 DEF CardRead, Toggled, frame, bits

-----------------------------------------------------------------------------
(* The helpers do on every input what their callers rely on: a value with a  *)
(* damaged copy is read, a number is got back from an array of bits, a card  *)
(* code from its frame and never from a frame with a wrong bit, a date is    *)
(* the calendar's and converts back, and a text is found where it stands     *)
(* first.                                                                    *)
THEOREM HelpCorrect == Spec => []HelpersAgree
  <1>1. HelpInv => HelpersAgree
    BY MajorAlways, BitsAlways, CardAlways, DateAlways, TextAlways, Zenon DEF HelpersAgree
  <1> QED BY <1>1, HelpInvariance, PTL
=============================================================================

----------------------------- MODULE PacketsProof -----------------------------
(***************************************************************************)
(* What SGP2 packs into bytes is read back, for all attributes, buffer     *)
(* sizes, puts and messages of the protocol: a packet is accepted as soon  *)
(* as it is whole and not before, and a message fits into its packet.  So  *)
(* are the messages and shuttles of the older protocol.  No packet of      *)
(* either is accepted when one of its bytes has become another.            *)
(***************************************************************************)
EXTENDS Library, LeastElement

-----------------------------------------------------------------------------
(* Numbers and bytes. *)

HalfWord == {n \in Nat : n < 65536}

LEMMA HalfIs ==
    ASSUME NEW n \in Nat, n < 65536
    PROVE  n \in HalfWord
  BY DEF HalfWord

(* The low and the high byte of a number of sixteen bits. *)
Low(n) == n % 256
High(n) == (n \div 256) % 256

LEMMA Bytes ==
    ASSUME NEW n \in Nat
    PROVE  Low(n) \in Byte /\ High(n) \in Byte
  BY DEF Byte, Low, High

LEMMA BytesValue ==
    ASSUME NEW n \in HalfWord
    PROVE  Low(n) + 256 * High(n) = n
  <1>1. n \in Nat /\ n < 65536
    BY DEF HalfWord
  <1>2. n \div 256 \in Nat /\ n \div 256 < 256 /\ (n % 256) + 256 * (n \div 256) = n
    BY <1>1
  <1>3. (n \div 256) % 256 = n \div 256
    BY <1>2
  <1> QED BY <1>2, <1>3 DEF Low, High

LEMMA PairIs ==
    ASSUME NEW S, NEW a \in S, NEW b \in S
    PROVE  <<a, b>> \in Seq(S) /\ Len(<<a, b>>) = 2 /\ <<a, b>>[1] = a /\ <<a, b>>[2] = b
  OBVIOUS

LEMMA ShortIs ==
    ASSUME NEW n \in Nat
    PROVE  /\ Short(n) \in Seq(Byte) /\ Len(Short(n)) = 2
           /\ Short(n)[1] = Low(n) /\ Short(n)[2] = High(n)
  <1>1. Low(n) \in Byte /\ High(n) \in Byte
    BY Bytes
  <1>2. Short(n) = <<Low(n), High(n)>>
    BY DEF Short, Low, High
  <1> QED BY <1>1, <1>2, PairIs

LEMMA PrefixOf ==
    ASSUME NEW S, NEW s \in Seq(S), NEW n \in 0..Len(s)
    PROVE  /\ Prefix(s, n) \in Seq(S) /\ Len(Prefix(s, n)) = n
           /\ \A i \in 1..n : Prefix(s, n)[i] = s[i]
  <1>1. Len(s) \in Nat /\ 0 \in 0..Len(s) /\ 0 <= n /\ n - 0 = n /\ 0 + 1 = 1
    BY LenProperties
  <1>2. /\ SubSeq(s, 0 + 1, n) \in Seq(S) /\ Len(SubSeq(s, 0 + 1, n)) = n - 0
        /\ \A i \in 1..n - 0 : SubSeq(s, 0 + 1, n)[i] = s[0 + i]
    BY <1>1, PieceIs
  <1>3. \A i \in 1..n : 0 + i = i
    BY <1>1
  <1> QED BY <1>1, <1>2, <1>3 DEF Prefix

(* A number of sixteen bits is put together from the highest on. *)
LEMMA NumberSteps ==
    ASSUME NEW bits
    PROVE  \E upper \in [0..16 -> Nat] :
              /\ Number(bits) = upper[16] /\ upper[0] = 0
              /\ \A n \in 1..16 : upper[n] = 2 * upper[n - 1] + (IF 16 - n \in bits THEN 1 ELSE 0)
  <1> DEFINE Bit(i) == IF i \in bits THEN 1 ELSE 0
             Steps(g) == g = [n \in 0..16 |-> IF n = 0 THEN 0
                                              ELSE 2 * g[n - 1] + (IF 16 - n \in bits THEN 1 ELSE 0)]
             upper == CHOOSE g : Steps(g)
             step == [n \in 1..16 |-> [v \in Nat |-> 2 * v + Bit(16 - n)]]
  <1>1. Number(bits) = upper[16]
    BY DEF Number
  <1>2. \A i : Bit(i) \in 0..1
    OBVIOUS
  <1>3. \A g : Steps(g) => \A n \in 0..16 : g[n] = IF n = 0 THEN 0 ELSE 2 * g[n - 1] + Bit(16 - n)
    BY Zenon
  <1>4. ASSUME NEW g, g = [n \in 0..16 |-> g[n]],
               \A n \in 0..16 : g[n] = IF n = 0 THEN 0 ELSE 2 * g[n - 1] + Bit(16 - n)
        PROVE  Steps(g)
    BY <1>4
  <1> HIDE DEF Bit, Steps
  <1>5. step \in [1..16 -> [Nat -> Nat]]
    BY <1>2
  <1>6. \A n \in 1..16, v \in Nat : step[n][v] = 2 * v + Bit(16 - n)
    OBVIOUS
  <1> HIDE DEF step
  <1>7. PICK g \in [0..16 -> Nat] : g[0] = 0 /\ \A n \in 1..16 : g[n] = step[n][g[n - 1]]
    <2>1. \E g \in [0..16 -> Nat] : Follows(g, 0, step, 16)
      BY <1>5, StepByStep
    <2> QED BY <2>1, Zenon DEF Follows
  <1>8. Steps(g)
    <2>1. \A n \in 0..16 : g[n] = IF n = 0 THEN 0 ELSE 2 * g[n - 1] + Bit(16 - n)
      <3> SUFFICES ASSUME NEW n \in 1..16 PROVE g[n] = 2 * g[n - 1] + Bit(16 - n)
        BY <1>7
      <3>1. g[n - 1] \in Nat
        BY <1>7
      <3> QED BY <1>6, <1>7, <3>1
    <2>2. g = [n \in 0..16 |-> g[n]]
      BY <1>7
    <2> QED BY <1>4, <2>1, <2>2
  <1>9. Steps(upper)
    BY <1>8, Zenon
  <1> HIDE DEF upper
  <1>10. \A n \in 0..16 : upper[n] = IF n = 0 THEN 0 ELSE 2 * upper[n - 1] + Bit(16 - n)
    BY <1>3, <1>9
  <1>11. upper[0] = 0 /\ \A n \in 1..16 : upper[n] = 2 * upper[n - 1] + Bit(16 - n)
    BY <1>10
  <1>12. \A n \in 0..16 : upper[n] \in Nat
    <2> DEFINE S == {n \in 0..16 : upper[n] \in Nat}
    <2>1. 0 \in S
      BY <1>11
    <2>2. ASSUME NEW n \in 1..16, n - 1 \in S PROVE n \in S
      <3>1. upper[n - 1] \in Nat
        BY <2>2
      <3>2. ASSUME NEW v \in Nat, NEW b \in 0..1 PROVE 2 * v + b \in Nat
        OBVIOUS
      <3>3. 2 * upper[n - 1] + Bit(16 - n) \in Nat
        BY <1>2, <3>1, <3>2
      <3>4. upper[n] \in Nat /\ n \in 0..16
        BY <1>11, <3>3
      <3> QED BY <3>4
    <2> HIDE DEF S
    <2>3. \A n \in 0..16 : n \in S
      BY <2>1, <2>2, EachStep
    <2> QED BY <2>3 DEF S
  <1>13. \E u \in [0..16 -> Nat] :
            /\ upper[16] = u[16] /\ u[0] = 0
            /\ \A n \in 1..16 : u[n] = 2 * u[n - 1] + Bit(16 - n)
    <2> DEFINE u == [n \in 0..16 |-> upper[n]]
    <2>1. u \in [0..16 -> Nat] /\ \A n \in 0..16 : u[n] = upper[n]
      BY <1>12
    <2> HIDE DEF u
    <2>2. \A n \in 1..16 : n \in 0..16 /\ n - 1 \in 0..16
      OBVIOUS
    <2>3. upper[16] = u[16] /\ u[0] = 0 /\ \A n \in 1..16 : u[n] = 2 * u[n - 1] + Bit(16 - n)
      BY <1>11, <2>1, <2>2
    <2> QED BY <2>1, <2>3
  <1> QED BY <1>1, <1>13, Zenon DEF Bit

(* The checksum is a number of sixteen bits, whatever the bytes are. *)
LEMMA NumberIs ==
    ASSUME NEW bits
    PROVE  Number(bits) \in HalfWord
  <1> DEFINE Bit(i) == IF i \in bits THEN 1 ELSE 0
  <1>1. PICK upper \in [0..16 -> Nat] :
            /\ Number(bits) = upper[16] /\ upper[0] = 0
            /\ \A n \in 1..16 : upper[n] = 2 * upper[n - 1] + (IF 16 - n \in bits THEN 1 ELSE 0)
    BY NumberSteps, Zenon
  <1>2. \A i : Bit(i) \in 0..1
    OBVIOUS
  <1>10. \A n \in 1..16 : upper[n] = 2 * upper[n - 1] + Bit(16 - n)
    BY <1>1, Zenon
  <1> HIDE DEF Bit
  <1> DEFINE top == <<1, 2, 4, 8, 16, 32, 64, 128, 256, 512, 1024, 2048, 4096, 8192, 16384,
                      32768, 65536>>
             S == {n \in 0..16 : upper[n] \in Nat /\ upper[n] < top[n + 1]}
  <1>11. /\ \A n \in 1..16 : top[n] \in Nat /\ top[n + 1] = 2 * top[n]
         /\ top[1] = 1
    OBVIOUS
  <1>12. top[17] = 65536
    OBVIOUS
  <1> HIDE DEF top
  <1>13. 0 \in S
    BY <1>1, <1>11
  <1>14. ASSUME NEW n \in 1..16, n - 1 \in S PROVE n \in S
    <2>1. n \in 0..16 /\ n # 0 /\ (n - 1) + 1 = n
      OBVIOUS
    <2>2. upper[n - 1] \in Nat /\ upper[n - 1] < top[n] /\ upper[n] = 2 * upper[n - 1] + Bit(16 - n)
      BY <1>10, <1>14, <2>1
    <2>3. top[n] \in Nat /\ top[n + 1] = 2 * top[n]
      BY <1>11
    <2>4. Bit(16 - n) \in 0..1
      BY <1>2
    <2>5. upper[n] \in Nat /\ upper[n] < top[n + 1]
      BY <2>2, <2>3, <2>4
    <2> QED BY <2>1, <2>5
  <1> HIDE DEF S
  <1>15. 16 \in S
    <2>1. \A n \in 0..16 : n \in S
      BY <1>13, <1>14, EachStep
    <2> QED BY <2>1
  <1>16. upper[16] \in Nat /\ upper[16] < top[17]
    <2>1. 16 + 1 = 17
      OBVIOUS
    <2> QED BY <1>15, <2>1 DEF S
  <1>17. upper[16] < 65536
    <2> DEFINE v == upper[16]
               t == top[17]
    <2>1. v < t /\ t = 65536
      BY <1>12, <1>16
    <2> HIDE DEF v, t
    <2>2. v < 65536
      BY <2>1
    <2> QED BY <2>2 DEF v
  <1> QED BY <1>1, <1>16, <1>17, HalfIs

(* Such a number tells its bits. *)
LEMMA NumberDiffers ==
    ASSUME NEW v \in SUBSET (0..15), NEW w \in SUBSET (0..15), Number(v) = Number(w)
    PROVE  v = w
  <1>1. PICK x \in [0..16 -> Nat] :
            /\ Number(v) = x[16] /\ x[0] = 0
            /\ \A n \in 1..16 : x[n] = 2 * x[n - 1] + (IF 16 - n \in v THEN 1 ELSE 0)
    BY NumberSteps, Zenon
  <1>2. PICK y \in [0..16 -> Nat] :
            /\ Number(w) = y[16] /\ y[0] = 0
            /\ \A n \in 1..16 : y[n] = 2 * y[n - 1] + (IF 16 - n \in w THEN 1 ELSE 0)
    BY NumberSteps, Zenon
  <1> DEFINE S == {k \in 0..16 : x[16 - k] = y[16 - k]}
  <1>3. ASSUME NEW n \in 1..16, x[n] = y[n] PROVE x[n - 1] = y[n - 1] /\ (16 - n \in v <=> 16 - n \in w)
    <2>1. x[n - 1] \in Nat /\ y[n - 1] \in Nat
      OBVIOUS
    <2>2. x[n] = 2 * x[n - 1] + (IF 16 - n \in v THEN 1 ELSE 0)
      BY <1>1
    <2>3. y[n] = 2 * y[n - 1] + (IF 16 - n \in w THEN 1 ELSE 0)
      BY <1>2
    <2>4. ASSUME NEW a \in Nat, NEW b \in Nat, NEW c \in 0..1, NEW d \in 0..1, 2 * a + c = 2 * b + d
          PROVE  a = b /\ c = d
      BY <2>4
    <2> DEFINE c == IF 16 - n \in v THEN 1 ELSE 0
               d == IF 16 - n \in w THEN 1 ELSE 0
    <2>5. 2 * x[n - 1] + c = 2 * y[n - 1] + d
      BY <1>3, <2>2, <2>3, Zenon
    <2>8. c \in 0..1 /\ d \in 0..1
      OBVIOUS
    <2>6. c = d => (16 - n \in v <=> 16 - n \in w)
      OBVIOUS
    <2> HIDE DEF c, d
    <2>7. x[n - 1] = y[n - 1] /\ c = d
      BY <2>1, <2>4, <2>5, <2>8
    <2> QED BY <2>6, <2>7
  <1>4. 0 \in S
    <2>1. x[16] = y[16]
      BY <1>1, <1>2, Zenon
    <2>2. 16 - 0 = 16
      OBVIOUS
    <2> QED BY <2>1, <2>2
  <1>5. ASSUME NEW k \in 1..16, k - 1 \in S PROVE k \in S
    <2> DEFINE n == 17 - k
    <2>1. n \in 1..16 /\ 16 - (k - 1) = n /\ n - 1 = 16 - k
      OBVIOUS
    <2> HIDE DEF n
    <2>2. x[n] = y[n]
      BY <1>5, <2>1
    <2>3. x[16 - k] = y[16 - k]
      BY <1>3, <2>1, <2>2
    <2> QED BY <2>3
  <1> HIDE DEF S
  <1>6. \A k \in 0..16 : k \in S
    BY <1>4, <1>5, EachStep
  <1>7. ASSUME NEW i \in 0..15 PROVE i \in v <=> i \in w
    <2> DEFINE n == 16 - i
    <2>1. n \in 1..16 /\ 16 - n = i /\ i \in 0..16
      OBVIOUS
    <2>2. x[16 - i] = y[16 - i]
      BY <1>6, <2>1 DEF S
    <2>3. x[n] = y[n]
      BY <2>2
    <2> HIDE DEF n
    <2>4. 16 - n \in v <=> 16 - n \in w
      BY <1>3, <2>1, <2>3
    <2> QED BY <2>1, <2>4
  <1> QED BY <1>7

LEMMA ChecksumIs ==
    ASSUME NEW bytes
    PROVE  usGetCRC16(bytes) \in HalfWord
  <1>1. PICK bits : usGetCRC16(bytes) = Number(bits)
    BY Zenon DEF usGetCRC16, Crc
  <1> QED BY <1>1, NumberIs, Zenon

(* The sum of a message's bytes is a byte. *)
LEMMA SumIs ==
    ASSUME NEW bytes \in Seq(Byte)
    PROVE  Sum(bytes) \in Byte
  <1> DEFINE n == Len(bytes)
             Steps(g) == g = [k \in 0..n |-> IF k = 0 THEN 0 ELSE (g[k - 1] + bytes[k]) % 256]
             sum == CHOOSE g : Steps(g)
             step == [k \in 1..n |-> [v \in Byte |-> (v + bytes[k]) % 256]]
  <1>1. n \in Nat /\ \A k \in 1..n : bytes[k] \in Byte
    BY LenProperties, ElementOfSeq
  <1>2. Sum(bytes) = sum[n]
    BY DEF Sum
  <1>3. \A g : Steps(g) =>
              \A k \in 0..n : g[k] = IF k = 0 THEN 0 ELSE (g[k - 1] + bytes[k]) % 256
    BY Zenon
  <1>4. ASSUME NEW g, g = [k \in 0..n |-> g[k]],
               \A k \in 0..n : g[k] = IF k = 0 THEN 0 ELSE (g[k - 1] + bytes[k]) % 256
        PROVE  Steps(g)
    BY <1>4
  <1> HIDE DEF Steps, n
  <1>5. \A v \in Byte, k \in 1..n : (v + bytes[k]) % 256 \in Byte
    <2>1. ASSUME NEW v \in Byte, NEW w \in Byte PROVE (v + w) % 256 \in Byte
      BY DEF Byte
    <2> QED BY <1>1, <2>1
  <1>6. step \in [1..n -> [Byte -> Byte]]
    BY <1>5
  <1>7. \A k \in 1..n, v \in Byte : step[k][v] = (v + bytes[k]) % 256
    OBVIOUS
  <1> HIDE DEF step
  <1>8. PICK g \in [0..n -> Byte] : g[0] = 0 /\ \A k \in 1..n : g[k] = step[k][g[k - 1]]
    <2>1. 0 \in Byte
      BY DEF Byte
    <2>2. \E g \in [0..n -> Byte] : Follows(g, 0, step, n)
      BY <1>1, <1>6, <2>1, StepByStep
    <2> QED BY <2>2, Zenon DEF Follows
  <1>9. Steps(g)
    <2>1. \A k \in 0..n : g[k] = IF k = 0 THEN 0 ELSE (g[k - 1] + bytes[k]) % 256
      <3> SUFFICES ASSUME NEW k \in 1..n PROVE g[k] = (g[k - 1] + bytes[k]) % 256
        BY <1>1, <1>8
      <3>1. k - 1 \in 0..n
        BY <1>1
      <3>2. g[k - 1] \in Byte
        BY <1>8, <3>1
      <3> QED BY <1>7, <1>8, <3>2
    <2>2. g = [k \in 0..n |-> g[k]]
      BY <1>8
    <2> QED BY <1>4, <2>1, <2>2
  <1>10. Steps(sum)
    BY <1>9, Zenon
  <1> HIDE DEF sum
  <1>11. \A k \in 0..n : sum[k] = IF k = 0 THEN 0 ELSE (sum[k - 1] + bytes[k]) % 256
    BY <1>3, <1>10
  <1> DEFINE S == {k \in 0..n : sum[k] \in Byte}
  <1>12. 0 \in S
    <2>1. sum[0] = 0 /\ 0 \in 0..n
      BY <1>1, <1>11
    <2> QED BY <2>1 DEF Byte
  <1>13. ASSUME NEW k \in 1..n, k - 1 \in S PROVE k \in S
    <2>1. k \in 0..n /\ k # 0
      BY <1>1
    <2> QED BY <1>5, <1>11, <1>13, <2>1
  <1> HIDE DEF S
  <1>14. n \in S
    <2>1. \A k \in 0..n : k \in S
      BY <1>1, <1>12, <1>13, EachStep
    <2> QED BY <1>1, <2>1
  <1> QED BY <1>2, <1>14 DEF S


-----------------------------------------------------------------------------
(* What a packet consists of. *)

IsAttr(attr) ==
    /\ attr \in [global : BOOLEAN, response : BOOLEAN, address : Nat,
                 type : KnownTypes, error : 0..15]
    /\ attr.address \div 65536 < 65536

HeaderSize(attr) == IF attr.global THEN 8 ELSE 5

(* The bytes b start as the packet of these attributes does. *)
HasHeader(b, attr) ==
    /\ b[1] = Sync(attr.global, attr.response)
    /\ b[HeaderSize(attr) - 2] = attr.type + 16 * attr.error
    /\ attr.global => \A i \in 1..4 : b[1 + i] = Long(attr.address)[i]
    /\ ~attr.global => b[2] = Low(attr.address)

LEMMA LongIs ==
    ASSUME NEW n \in Nat
    PROVE  /\ Long(n) \in Seq(Byte) /\ Len(Long(n)) = 4
           /\ Long(n)[1] = Low(n) /\ Long(n)[2] = High(n)
           /\ Long(n)[3] = Low(n \div 65536) /\ Long(n)[4] = High(n \div 65536)
  <1> DEFINE m == n \div 65536
             q == Short(n) \o Short(m)
  <1>1. m \in Nat
    OBVIOUS
  <1>2. Long(n) = q
    BY DEF Long
  <1> HIDE DEF m
  <1>3. /\ Short(n) \in Seq(Byte) /\ Len(Short(n)) = 2
        /\ Short(n)[1] = Low(n) /\ Short(n)[2] = High(n)
    BY ShortIs
  <1>4. /\ Short(m) \in Seq(Byte) /\ Len(Short(m)) = 2
        /\ Short(m)[1] = Low(m) /\ Short(m)[2] = High(m)
    BY <1>1, ShortIs
  <1>5. q \in Seq(Byte) /\ Joins(q, Short(n), Short(m))
    BY <1>3, <1>4, ConcatIs
  <1> HIDE DEF q
  <1>6. q[1] = Low(n) /\ q[2] = High(n) /\ q[3] = Low(m) /\ q[4] = High(m) /\ Len(q) = 4
    <2>1. 1 \in 1..2 /\ 2 \in 1..2 /\ 2 + 1 = 3 /\ 2 + 2 = 4
      OBVIOUS
    <2> QED BY <1>3, <1>4, <1>5, <2>1 DEF Joins
  <1> QED BY <1>2, <1>5, <1>6 DEF m

LEMMA SyncIs ==
    ASSUME NEW attr, IsAttr(attr)
    PROVE  /\ Sync(attr.global, attr.response) \in Byte
           /\ TypeAt(Sync(attr.global, attr.response)) = HeaderSize(attr) - 2
           /\ Sync(attr.global, attr.response) \in GlobalSyncs <=> attr.global
           /\ Sync(attr.global, attr.response) \in ResponseSyncs <=> attr.response
           /\ Sync(attr.global, attr.response) \in RequestSyncs <=> ~attr.response
           /\ attr.global \in BOOLEAN /\ attr.response \in BOOLEAN
  <1>1. attr.global \in BOOLEAN /\ attr.response \in BOOLEAN
    BY DEF IsAttr
  <1>2. Sync(TRUE, TRUE) = 136 /\ Sync(TRUE, FALSE) = 119 /\ Sync(FALSE, TRUE) = 170 /\ Sync(FALSE, FALSE) = 85
    BY DEF Sync
  <1>3. /\ 136 \in GlobalSyncs /\ 119 \in GlobalSyncs /\ 170 \notin GlobalSyncs /\ 85 \notin GlobalSyncs
        /\ 136 \in ResponseSyncs /\ 119 \notin ResponseSyncs /\ 170 \in ResponseSyncs /\ 85 \notin ResponseSyncs
        /\ 136 \notin RequestSyncs /\ 119 \in RequestSyncs /\ 170 \notin RequestSyncs /\ 85 \in RequestSyncs
    BY DEF GlobalSyncs, ResponseSyncs, RequestSyncs
  <1>4. /\ 136 \in Byte /\ 119 \in Byte /\ 170 \in Byte /\ 85 \in Byte
    BY DEF Byte
  <1>5. TypeAt(136) = 6 /\ TypeAt(119) = 6 /\ TypeAt(170) = 3 /\ TypeAt(85) = 3
    BY <1>3 DEF TypeAt
  <1>6. HeaderSize(attr) - 2 = IF attr.global THEN 6 ELSE 3
    BY DEF HeaderSize
  <1> DEFINE g == attr.global
             r == attr.response
             sync == Sync(g, r)
             p == HeaderSize(attr) - 2
             Right(y) == /\ y \in Byte /\ TypeAt(y) = p
                         /\ y \in GlobalSyncs <=> g
                         /\ y \in ResponseSyncs <=> r
                         /\ y \in RequestSyncs <=> ~r
  <1>7. g \in BOOLEAN /\ r \in BOOLEAN /\ p = IF g THEN 6 ELSE 3
    BY <1>1, <1>6
  <1> HIDE DEF g, r, p, sync
  <1>8. Right(sync)
    <2>1. CASE g /\ r
      <3>1. sync = 136
        BY <1>2, <1>7, <2>1 DEF sync
      <3> QED BY <1>3, <1>4, <1>5, <1>7, <2>1, <3>1, Zenon
    <2>2. CASE g /\ ~r
      <3>1. sync = 119
        BY <1>2, <1>7, <2>2 DEF sync
      <3> QED BY <1>3, <1>4, <1>5, <1>7, <2>2, <3>1, Zenon
    <2>3. CASE ~g /\ r
      <3>1. sync = 170
        BY <1>2, <1>7, <2>3 DEF sync
      <3> QED BY <1>3, <1>4, <1>5, <1>7, <2>3, <3>1, Zenon
    <2>4. CASE ~g /\ ~r
      <3>1. sync = 85
        BY <1>2, <1>7, <2>4 DEF sync
      <3> QED BY <1>3, <1>4, <1>5, <1>7, <2>4, <3>1, Zenon
    <2> QED BY <1>7, <2>1, <2>2, <2>3, <2>4
  <1> QED BY <1>1, <1>8 DEF g, r, p, sync

LEMMA HeaderIs ==
    ASSUME NEW attr, IsAttr(attr)
    PROVE  /\ Header(attr) \in Seq(Byte) /\ Len(Header(attr)) = HeaderSize(attr)
           /\ HasHeader(Header(attr), attr)
  <1> DEFINE sync == Sync(attr.global, attr.response)
             kind == attr.type + 16 * attr.error
             where == IF attr.global THEN Long(attr.address) ELSE <<Low(attr.address)>>
             n == IF attr.global THEN 4 ELSE 1
  <1>1. sync \in Byte /\ attr.global \in BOOLEAN /\ attr.address \in Nat
    BY SyncIs DEF IsAttr
  <1>2. kind \in Byte
    BY DEF IsAttr, KnownTypes, Byte
  <1>3. Low(attr.address) \in Byte
    BY <1>1, Bytes
  <1>4. where \in Seq(Byte) /\ Len(where) = n /\ n \in Nat
        /\ (~attr.global => where[1] = Low(attr.address))
    <2>1. ASSUME NEW a \in Byte PROVE <<a>> \in Seq(Byte) /\ Len(<<a>>) = 1 /\ <<a>>[1] = a
      OBVIOUS
    <2>2. Long(attr.address) \in Seq(Byte) /\ Len(Long(attr.address)) = 4
      BY <1>1, LongIs
    <2>3. CASE attr.global
      BY <2>2, <2>3
    <2>4. CASE ~attr.global
      <3> DEFINE a == Low(attr.address)
      <3> HIDE DEF a
      <3>1. a \in Byte
        BY <1>3 DEF a
      <3>2. <<a>> \in Seq(Byte) /\ Len(<<a>>) = 1 /\ <<a>>[1] = a
        BY <2>1, <3>1
      <3>3. where = <<a>> /\ n = 1
        BY <2>4 DEF a
      <3> QED BY <3>2, <3>3 DEF a
    <2> QED BY <2>3, <2>4
  <1>5. Header(attr) = <<sync>> \o where \o <<kind, 0, 0>>
    BY DEF Header, Low
  <1> HIDE DEF sync, kind, where, n
  <1>6. /\ <<sync>> \in Seq(Byte) /\ Len(<<sync>>) = 1 /\ <<sync>>[1] = sync
        /\ <<kind, 0, 0>> \in Seq(Byte) /\ Len(<<kind, 0, 0>>) = 3 /\ <<kind, 0, 0>>[1] = kind
    BY <1>1, <1>2 DEF Byte
  <1> DEFINE first == <<sync>>
             rest == <<kind, 0, 0>>
             front == first \o where
             whole == front \o rest
  <1>60. first \in Seq(Byte) /\ Len(first) = 1 /\ first[1] = sync
    BY <1>6
  <1>61. rest \in Seq(Byte) /\ Len(rest) = 3 /\ rest[1] = kind
    BY <1>6
  <1> HIDE DEF first, rest
  <1>7. /\ front \in Seq(Byte) /\ Len(front) = n + 1 /\ front[1] = sync
        /\ \A i \in 1..n : front[1 + i] = where[i]
    <2>1. front \in Seq(Byte) /\ Joins(front, first, where)
      <3>1. first \in Seq(Byte) /\ where \in Seq(Byte)
        BY <1>4, <1>60
      <3> QED BY <3>1, ConcatIs
    <2> HIDE DEF front
    <2>2. 1 \in 1..Len(first)
      BY <1>60
    <2> QED BY <1>4, <1>60, <2>1, <2>2 DEF Joins
  <1> HIDE DEF front
  <1>8. /\ whole \in Seq(Byte) /\ Len(whole) = n + 4 /\ whole[n + 2] = kind
        /\ \A i \in 1..n + 1 : whole[i] = front[i]
    <2>1. whole \in Seq(Byte) /\ Joins(whole, front, rest)
      <3>1. front \in Seq(Byte) /\ rest \in Seq(Byte)
        BY <1>7, <1>61
      <3> QED BY <3>1, ConcatIs
    <2> HIDE DEF whole
    <2>2. 1 \in 1..Len(rest) /\ (n + 1) + 1 = n + 2 /\ (n + 1) + 3 = n + 4
      BY <1>4, <1>61
    <2> QED BY <1>7, <1>61, <2>1, <2>2 DEF Joins
  <1> HIDE DEF whole
  <1>9. n + 4 = HeaderSize(attr) /\ n + 2 = HeaderSize(attr) - 2
    BY DEF HeaderSize, n
  <1>10. Header(attr) = whole
    BY <1>5 DEF whole, front, first, rest
  <1>11. \A i \in 1..n : whole[1 + i] = where[i]
    <2>1. \A i \in 1..n : 1 + i \in 1..n + 1
      BY <1>4
    <2> QED BY <1>7, <1>8, <2>1
  <1>12. whole[1] = sync
    <2>1. 1 \in 1..n + 1
      BY <1>4 DEF n
    <2> QED BY <1>7, <1>8, <2>1
  <1>13. attr.global => \A i \in 1..4 : whole[1 + i] = Long(attr.address)[i]
    BY <1>11 DEF where, n
  <1>14. ~attr.global => whole[2] = Low(attr.address)
    <2>1. n \in Nat /\ (~attr.global => 1 \in 1..n) /\ 1 + 1 = 2
      BY <1>4 DEF n
    <2> QED BY <1>4, <1>11, <2>1
  <1>15. HasHeader(whole, attr)
    BY <1>8, <1>9, <1>12, <1>13, <1>14 DEF HasHeader, sync, kind
  <1> HIDE DEF n
  <1>16. Len(whole) = HeaderSize(attr) /\ whole \in Seq(Byte)
    BY <1>8, <1>9
  <1> QED BY <1>10, <1>15, <1>16


HasData(b, attr, data) == \A i \in 1..Len(data) : b[HeaderSize(attr) + i] = data[i]

(* A packet that is being built, and one that is whole. *)
IsOpen(b, attr, data) ==
    /\ b \in Seq(Byte) /\ data \in Seq(Byte)
    /\ Len(b) = HeaderSize(attr) + Len(data)
    /\ HasHeader(b, attr) /\ HasData(b, attr, data)

EndsChecked(b) ==
    /\ b[Len(b) - 1] = Low(usGetCRC16(Prefix(b, Len(b) - 2)))
    /\ b[Len(b)] = High(usGetCRC16(Prefix(b, Len(b) - 2)))

IsPacket(b, attr, data) ==
    /\ b \in Seq(Byte) /\ data \in Seq(Byte) /\ Len(data) \in HalfWord
    /\ Len(b) = HeaderSize(attr) + Len(data) + 2
    /\ HasHeader(b, attr) /\ HasData(b, attr, data)
    /\ b[HeaderSize(attr) - 1] = Low(Len(data)) /\ b[HeaderSize(attr)] = High(Len(data))
    /\ EndsChecked(b)

LEMMA SizeIs == ASSUME NEW attr PROVE HeaderSize(attr) \in {5, 8}
  BY DEF HeaderSize

LEMMA SameHeader ==
    ASSUME NEW attr, NEW b, NEW c, HasHeader(b, attr),
           \A i \in 1..HeaderSize(attr) - 2 : c[i] = b[i]
    PROVE  HasHeader(c, attr)
  <1>1. CASE attr.global
    <2>1. HeaderSize(attr) - 2 = 6
      BY <1>1 DEF HeaderSize
    <2>2. /\ 1 \in 1..6 /\ 6 \in 1..6
          /\ \A i \in 1..4 : 1 + i \in 1..6
      OBVIOUS
    <2> QED BY <1>1, <2>1, <2>2 DEF HasHeader
  <1>2. CASE ~attr.global
    <2>1. HeaderSize(attr) - 2 = 3
      BY <1>2 DEF HeaderSize
    <2>2. 1 \in 1..3 /\ 2 \in 1..3 /\ 3 \in 1..3
      OBVIOUS
    <2> QED BY <1>2, <2>1, <2>2 DEF HasHeader
  <1> QED BY <1>1, <1>2

LEMMA HeaderOpen ==
    ASSUME NEW attr, IsAttr(attr)
    PROVE  IsOpen(Header(attr), attr, <<>>)
  <1>1. <<>> \in Seq(Byte) /\ Len(<<>>) = 0
    OBVIOUS
  <1>2. HeaderSize(attr) + 0 = HeaderSize(attr)
    BY SizeIs
  <1>3. HasData(Header(attr), attr, <<>>)
    BY <1>1 DEF HasData
  <1> QED BY <1>1, <1>2, <1>3, HeaderIs DEF IsOpen

LEMMA ExtendedIs ==
    ASSUME NEW attr, NEW b, NEW data, NEW more \in Seq(Byte), IsOpen(b, attr, data)
    PROVE  /\ IsOpen(b \o more, attr, data \o more)
           /\ Len(b \o more) = Len(b) + Len(more)
  <1> DEFINE h == HeaderSize(attr)
             c == b \o more
             d == data \o more
  <1>1. h \in {5, 8}
    BY SizeIs
  <1>2. /\ b \in Seq(Byte) /\ data \in Seq(Byte) /\ Len(b) = h + Len(data)
        /\ Len(data) \in Nat /\ Len(more) \in Nat /\ Len(b) \in Nat
    BY LenProperties DEF IsOpen
  <1>3. c \in Seq(Byte) /\ Joins(c, b, more)
    BY <1>2, ConcatIs
  <1>4. d \in Seq(Byte) /\ Joins(d, data, more)
    BY <1>2, ConcatIs
  <1> HIDE DEF h, c, d
  <1>5. Len(c) = Len(b) + Len(more) /\ Len(c) = h + Len(d)
    BY <1>1, <1>2, <1>3, <1>4 DEF Joins
  <1>6. HasHeader(c, attr)
    <2>1. \A i \in 1..h - 2 : i \in 1..Len(b)
      BY <1>1, <1>2
    <2>2. \A i \in 1..h - 2 : c[i] = b[i]
      BY <1>3, <2>1 DEF Joins
    <2>3. HasHeader(b, attr)
      BY DEF IsOpen
    <2> QED BY <2>2, <2>3, SameHeader DEF h
  <1>7. \A i \in 1..Len(d) : c[h + i] = d[i]
    <2> SUFFICES ASSUME NEW i \in 1..Len(d) PROVE c[h + i] = d[i]
      OBVIOUS
    <2>1. CASE i <= Len(data)
      <3>1. i \in 1..Len(data) /\ h + i \in 1..Len(b)
        BY <1>1, <1>2, <2>1
      <3>2. c[h + i] = b[h + i] /\ d[i] = data[i]
        BY <1>3, <1>4, <3>1 DEF Joins
      <3>3. b[h + i] = data[i]
        BY <3>1 DEF IsOpen, HasData, h
      <3> QED BY <3>2, <3>3
    <2>2. CASE ~ (i <= Len(data))
      <3> DEFINE j == i - Len(data)
      <3>1. /\ j \in 1..Len(more) /\ Len(data) + j = i /\ Len(b) + j = h + i
        BY <1>1, <1>2, <1>4, <2>2 DEF Joins
      <3> HIDE DEF j
      <3>2. c[Len(b) + j] = more[j] /\ d[Len(data) + j] = more[j]
        BY <1>3, <1>4, <3>1 DEF Joins
      <3> QED BY <3>1, <3>2
    <2> QED BY <2>1, <2>2
  <1> QED BY <1>2, <1>3, <1>4, <1>5, <1>6, <1>7 DEF IsOpen, HasData, h, c, d

LEMMA SamePrefix ==
    ASSUME NEW S, NEW a \in Seq(S), NEW b \in Seq(S), NEW n \in 0..Len(a), n <= Len(b),
           \A i \in 1..n : a[i] = b[i]
    PROVE  Prefix(a, n) = Prefix(b, n)
  <1>1. n \in 0..Len(b)
    BY LenProperties
  <1>2. Prefix(a, n) \in Seq(S) /\ Len(Prefix(a, n)) = n /\ \A i \in 1..n : Prefix(a, n)[i] = a[i]
    BY PrefixOf
  <1>3. Prefix(b, n) \in Seq(S) /\ Len(Prefix(b, n)) = n /\ \A i \in 1..n : Prefix(b, n)[i] = b[i]
    BY <1>1, PrefixOf
  <1> QED BY <1>2, <1>3, SeqEqual

(* A checksum of the bytes q behind them. *)
LEMMA ChecksumBehind ==
    ASSUME NEW q \in Seq(Byte)
    PROVE  LET b == q \o Short(usGetCRC16(q))
           IN  b \in Seq(Byte) /\ EndsChecked(b) /\ Joins(b, q, Short(usGetCRC16(q))) /\ Len(b) = Len(q) + 2
  <1> DEFINE crc == usGetCRC16(q)
             t == Short(crc)
             b == q \o t
  <1>1. crc \in Nat
    <2>1. crc \in HalfWord
      BY ChecksumIs, Zenon
    <2> HIDE DEF crc
    <2> QED BY <2>1 DEF HalfWord
  <1> HIDE DEF crc
  <1>2. t \in Seq(Byte) /\ Len(t) = 2 /\ t[1] = Low(crc) /\ t[2] = High(crc)
    BY <1>1, ShortIs
  <1> HIDE DEF t
  <1>3. b \in Seq(Byte) /\ Joins(b, q, t)
    BY <1>2, ConcatIs
  <1> HIDE DEF b
  <1>4. Len(q) \in Nat /\ Len(b) = Len(q) + 2
    BY <1>2, <1>3, LenProperties DEF Joins
  <1>5. b[Len(q) + 1] = Low(crc) /\ b[Len(q) + 2] = High(crc)
    <2>1. 1 \in 1..2 /\ 2 \in 1..2
      OBVIOUS
    <2> QED BY <1>2, <1>3, <2>1 DEF Joins
  <1>6. Prefix(b, Len(b) - 2) = q
    <2>1. Len(b) - 2 = Len(q) /\ Len(q) \in 0..Len(b)
      BY <1>4
    <2>2. /\ Prefix(b, Len(q)) \in Seq(Byte) /\ Len(Prefix(b, Len(q))) = Len(q)
          /\ \A i \in 1..Len(q) : Prefix(b, Len(q))[i] = b[i]
      BY <1>3, <2>1, PrefixOf
    <2>3. \A i \in 1..Len(q) : Prefix(b, Len(q))[i] = q[i]
      BY <1>3, <2>2 DEF Joins
    <2>4. Prefix(b, Len(q)) = q
      BY <2>2, <2>3, SeqEqual
    <2> QED BY <2>1, <2>4
  <1>7. EndsChecked(b)
    <2>1. Len(b) - 1 = Len(q) + 1 /\ Len(b) = Len(q) + 2
      BY <1>4
    <2> QED BY <1>5, <1>6, <2>1 DEF EndsChecked, crc
  <1> QED BY <1>3, <1>4, <1>7 DEF b, t, crc


LEMMA AssembledIs ==
    ASSUME NEW attr, IsAttr(attr), NEW p, NEW data, IsOpen(p.bytes, attr, data), Len(data) \in HalfWord
    PROVE  /\ IsPacket(Assembled(p).bytes, attr, data)
           /\ Len(Assembled(p).bytes) = Len(p.bytes) + 2
           /\ Assembled(p).size = p.size
  <1> DEFINE h == HeaderSize(attr)
             b == p.bytes
             low == [b EXCEPT ![h - 1] = Low(Len(data))]
             sized == [low EXCEPT ![h] = High(Len(data))]
             whole == sized \o Short(usGetCRC16(sized))
  <1>1. h \in {5, 8}
    BY SizeIs
  <1>2. /\ b \in Seq(Byte) /\ data \in Seq(Byte) /\ Len(b) = h + Len(data)
        /\ Len(data) \in Nat /\ Len(b) \in Nat
    BY LenProperties DEF IsOpen
  <1>3. TypeAt(b[1]) = h - 2
    <2>1. b[1] = Sync(attr.global, attr.response)
      BY DEF IsOpen, HasHeader
    <2>2. TypeAt(Sync(attr.global, attr.response)) = h - 2
      BY SyncIs
    <2> QED BY <2>1, <2>2
  <1>4. Assembled(p) = [bytes |-> whole, size |-> p.size]
    <2> DEFINE n == Len(b) - ((h - 2) + 2)
               u == Short(n)
    <2>1. n = Len(data)
      BY <1>1, <1>2
    <2>2. u[1] = Low(Len(data)) /\ u[2] = High(Len(data))
      BY <1>2, <2>1, ShortIs
    <2>3. (h - 2) + 1 = h - 1 /\ (h - 2) + 2 = h
      BY <1>1
    <2> DEFINE s == TypeAt(b[1])
               size == Short(Len(b) - (s + 2))
               both == [b EXCEPT ![s + 1] = size[1], ![s + 2] = size[2]]
    <2>4. Assembled(p) = [bytes |-> both \o Short(usGetCRC16(both)), size |-> p.size]
      BY Zenon DEF Assembled
    <2>5. size = u /\ s + 1 = h - 1 /\ s + 2 = h
      BY <1>3, <2>3
    <2> HIDE DEF u, s, size
    <2>6. both = sized
      BY <2>2, <2>5, Zenon
    <2> QED BY <2>4, <2>6, Zenon
  <1> HIDE DEF h, b
  <1>5. /\ low \in Seq(Byte) /\ Len(low) = Len(b)
        /\ \A i \in 1..Len(b) : low[i] = IF i = h - 1 THEN Low(Len(data)) ELSE b[i]
    <2>1. Low(Len(data)) \in Byte
      BY <1>2, Bytes
    <2>2. h - 1 \in 1..Len(b)
      BY <1>1, <1>2
    <2> QED BY <1>2, <2>1, <2>2, ExceptSeq
  <1> HIDE DEF low
  <1>6. /\ sized \in Seq(Byte) /\ Len(sized) = Len(b)
        /\ \A i \in 1..Len(b) : sized[i] = IF i = h THEN High(Len(data)) ELSE low[i]
    <2>1. High(Len(data)) \in Byte
      BY <1>2, Bytes
    <2>2. h \in 1..Len(low)
      BY <1>1, <1>2, <1>5
    <2>3. /\ sized \in Seq(Byte) /\ Len(sized) = Len(low)
          /\ \A i \in 1..Len(low) : sized[i] = IF i = h THEN High(Len(data)) ELSE low[i]
      BY <1>5, <2>1, <2>2, ExceptSeq
    <2> QED BY <1>5, <2>3
  <1> HIDE DEF sized
  <1>7. /\ whole \in Seq(Byte) /\ EndsChecked(whole) /\ Joins(whole, sized, Short(usGetCRC16(sized)))
        /\ Len(whole) = Len(sized) + 2
    BY <1>6, ChecksumBehind
  <1> HIDE DEF whole
  <1>8. \A i \in 1..Len(b) : whole[i] = IF i = h - 1 THEN Low(Len(data))
                                       ELSE IF i = h THEN High(Len(data)) ELSE b[i]
    <2> SUFFICES ASSUME NEW i \in 1..Len(b)
                 PROVE  whole[i] = IF i = h - 1 THEN Low(Len(data))
                                   ELSE IF i = h THEN High(Len(data)) ELSE b[i]
      OBVIOUS
    <2>1. whole[i] = sized[i]
      BY <1>6, <1>7 DEF Joins
    <2>2. h - 1 # h
      BY <1>1
    <2> QED BY <1>5, <1>6, <2>1, <2>2
  <1>9. HasHeader(whole, attr)
    <2>1. \A i \in 1..h - 2 : i \in 1..Len(b) /\ i # h - 1 /\ i # h
      BY <1>1, <1>2
    <2>2. \A i \in 1..h - 2 : whole[i] = b[i]
      BY <1>8, <2>1
    <2>3. HasHeader(b, attr)
      BY DEF IsOpen, b
    <2> QED BY <2>2, <2>3, SameHeader DEF h
  <1>10. \A i \in 1..Len(data) : whole[h + i] = data[i]
    <2> SUFFICES ASSUME NEW i \in 1..Len(data) PROVE whole[h + i] = data[i]
      OBVIOUS
    <2>1. h + i \in 1..Len(b) /\ h + i # h /\ h + i # h - 1
      BY <1>1, <1>2
    <2>2. whole[h + i] = b[h + i]
      BY <1>8, <2>1
    <2>3. b[h + i] = data[i]
      BY DEF IsOpen, HasData, h, b
    <2> QED BY <2>2, <2>3
  <1>11. whole[h - 1] = Low(Len(data)) /\ whole[h] = High(Len(data))
    <2>1. h - 1 \in 1..Len(b) /\ h \in 1..Len(b) /\ h - 1 # h
      BY <1>1, <1>2
    <2> QED BY <1>8, <2>1
  <1>12. IsPacket(whole, attr, data) /\ Len(whole) = Len(b) + 2
    <2>1. Len(whole) = Len(b) + 2 /\ Len(whole) = h + Len(data) + 2
      BY <1>2, <1>6, <1>7
    <2> QED BY <1>2, <1>7, <1>9, <1>10, <1>11, <2>1 DEF IsPacket, HasData, h
  <1>13. Assembled(p).bytes = whole /\ Assembled(p).size = p.size
    BY <1>4
  <1> QED BY <1>12, <1>13 DEF b

(* Attributes and data determine a packet. *)
LEMMA PacketUnique ==
    ASSUME NEW attr, IsAttr(attr), NEW data, NEW b, NEW c,
           IsPacket(b, attr, data), IsPacket(c, attr, data)
    PROVE  b = c
  <1> DEFINE h == HeaderSize(attr)
             n == h + Len(data)
  <1>1. h \in {5, 8}
    BY SizeIs
  <1>2. /\ b \in Seq(Byte) /\ c \in Seq(Byte) /\ Len(data) \in Nat /\ n \in Nat
        /\ Len(b) = n + 2 /\ Len(c) = n + 2 /\ data \in Seq(Byte)
    <2>1. b \in Seq(Byte) /\ c \in Seq(Byte) /\ data \in Seq(Byte)
      BY DEF IsPacket
    <2>2. Len(b) = HeaderSize(attr) + Len(data) + 2 /\ Len(c) = HeaderSize(attr) + Len(data) + 2
      BY DEF IsPacket
    <2>3. Len(data) \in Nat
      BY <2>1, LenProperties
    <2> QED BY <1>1, <2>1, <2>2, <2>3
  <1>3. ASSUME NEW i \in 1..n PROVE b[i] = c[i]
    <2>1. CASE i \in 1..h - 2
      <3>1. HasHeader(b, attr) /\ HasHeader(c, attr)
        BY DEF IsPacket
      <3>2. CASE attr.global
        <4>1. h - 2 = 6
          BY <3>2 DEF HeaderSize
        <4>2. i = 1 \/ i = 6 \/ (i - 1 \in 1..4 /\ 1 + (i - 1) = i)
          BY <2>1, <4>1
        <4> QED BY <3>1, <3>2, <4>1, <4>2 DEF HasHeader
      <3>3. CASE ~attr.global
        <4>1. h - 2 = 3
          BY <3>3 DEF HeaderSize
        <4>2. i = 1 \/ i = 2 \/ i = 3
          BY <2>1, <4>1
        <4> QED BY <3>1, <3>3, <4>1, <4>2 DEF HasHeader
      <3> QED BY <3>2, <3>3
    <2>2. CASE i \in {h - 1, h}
      BY <2>2 DEF IsPacket
    <2>3. CASE i > h
      <3> DEFINE j == i - h
      <3>1. j \in 1..Len(data) /\ h + j = i
        BY <1>1, <1>2, <2>3
      <3> HIDE DEF j
      <3>2. b[h + j] = data[j] /\ c[h + j] = data[j]
        BY <3>1 DEF IsPacket, HasData
      <3> QED BY <3>1, <3>2
    <2>4. i \in 1..h - 2 \/ i \in {h - 1, h} \/ i > h
      BY <1>1, <1>2
    <2> QED BY <2>1, <2>2, <2>3, <2>4
  <1> HIDE DEF h, n
  <1>4. Prefix(b, n) = Prefix(c, n)
    <2>1. n \in 0..Len(b) /\ n <= Len(c)
      BY <1>2
    <2> QED BY <1>2, <1>3, <2>1, SamePrefix
  <1>5. b[n + 1] = c[n + 1] /\ b[n + 2] = c[n + 2]
    <2>1. Len(b) - 2 = n /\ Len(c) - 2 = n /\ Len(b) - 1 = n + 1 /\ Len(c) - 1 = n + 1
      BY <1>2
    <2>2. EndsChecked(b) /\ EndsChecked(c)
      BY DEF IsPacket
    <2> QED BY <1>2, <1>4, <2>1, <2>2 DEF EndsChecked
  <1>6. \A i \in 1..n + 2 : b[i] = c[i]
    <2>1. \A i \in 1..n + 2 : i \in 1..n \/ i = n + 1 \/ i = n + 2
      BY <1>2
    <2> QED BY <1>3, <1>5, <2>1
  <1> QED BY <1>2, <1>6, SeqEqual


(* The type and the error code share a byte. *)
LEMMA CodeIs ==
    ASSUME NEW attr, IsAttr(attr)
    PROVE  /\ (attr.type + 16 * attr.error) % 16 = attr.type
           /\ (attr.type + 16 * attr.error) \div 16 = attr.error
           /\ attr.type \in KnownTypes
  <1>1. attr.type \in KnownTypes /\ attr.error \in 0..15
    BY DEF IsAttr
  <1>2. ASSUME NEW t \in 0..15, NEW e \in 0..15
        PROVE  (t + 16 * e) % 16 = t /\ (t + 16 * e) \div 16 = e
    OBVIOUS
  <1>3. attr.type \in 0..15
    BY <1>1 DEF KnownTypes
  <1> HIDE DEF KnownTypes
  <1>4. ASSUME NEW t, t = attr.type, NEW e, e = attr.error
        PROVE  (t + 16 * e) % 16 = t /\ (t + 16 * e) \div 16 = e
    BY <1>1, <1>2, <1>3, <1>4
  <1> QED BY <1>1, <1>4, Zenon

(* What is accepted of the bytes a that have arrived of a packet b. *)
LEMMA ParsedIs ==
    ASSUME NEW attr, IsAttr(attr), NEW data, NEW b, IsPacket(b, attr, data),
           NEW a \in Seq(Byte), \A i \in 1..Len(a) : i <= Len(b) => a[i] = b[i], NEW syncs
    PROVE  Parsed(a, syncs) = IF Len(a) >= Len(b) /\ Sync(attr.global, attr.response) \in syncs
                              THEN Len(b) ELSE 0
  <1> DEFINE h == HeaderSize(attr)
             n == Len(data)
             s == TypeAt(a[1])
             size == s + 2 + ShortAt(a, s + 1) + 2
             Bad == \/ a = <<>> \/ a[1] \notin syncs \/ Len(a) < s + 4
                    \/ a[s] % 16 \notin KnownTypes \/ size > Len(a)
                    \/ usGetCRC16(Prefix(a, size - 2)) # ShortAt(a, size - 1)
  <1>1. Parsed(a, syncs) = IF Bad THEN 0 ELSE size
    BY Zenon DEF Parsed
  <1>2. h \in {5, 8}
    BY SizeIs
  <1>3. /\ Len(a) \in Nat /\ n \in Nat /\ n \in HalfWord /\ Len(b) = h + n + 2
        /\ b \in Seq(Byte)
    BY LenProperties DEF IsPacket
  <1>4. s \in {3, 6}
    BY DEF TypeAt
  <1>5. CASE Len(a) < h + 2
    <2>1. ~ (Len(a) >= Len(b))
      BY <1>2, <1>3, <1>5
    <2>2. Bad
      <3>1. CASE Len(a) < 1
        <4>1. Len(a) < s + 4
          BY <1>3, <1>4, <3>1
        <4> QED BY <4>1
      <3>2. CASE Len(a) >= 1
        <4>1. 1 \in 1..Len(a) /\ 1 <= Len(b)
          BY <1>2, <1>3, <3>2
        <4>2. a[1] = Sync(attr.global, attr.response)
          BY <4>1 DEF IsPacket, HasHeader
        <4>3. s = h - 2
          BY <4>2, SyncIs
        <4> HIDE DEF s, h
        <4>4. Len(a) < s + 4
          BY <1>2, <1>3, <1>5, <4>3
        <4> QED BY <4>4
      <3> QED BY <1>3, <3>1, <3>2
    <2> QED BY <1>1, <2>1, <2>2
  <1>6. CASE Len(a) >= h + 2
    <2>1. 1 \in 1..Len(a) /\ 1 <= Len(b)
      BY <1>2, <1>3, <1>6
    <2>2. a[1] = Sync(attr.global, attr.response)
      BY <2>1 DEF IsPacket, HasHeader
    <2>3. s = h - 2
      BY <2>2, SyncIs
    <2>4. a[s] = attr.type + 16 * attr.error
      <3>1. h - 2 \in 1..Len(a) /\ h - 2 <= Len(b)
        BY <1>2, <1>3, <1>6
      <3>2. b[h - 2] = attr.type + 16 * attr.error
        BY DEF IsPacket, HasHeader
      <3> QED BY <2>3, <3>1, <3>2
    <2>5. a[s] % 16 \in KnownTypes
      <3>1. (attr.type + 16 * attr.error) % 16 \in KnownTypes
        BY CodeIs
      <3> QED BY <2>4, <3>1
    <2> HIDE DEF s
    <2>6. ShortAt(a, s + 1) = n
      <3>1. /\ h - 1 \in 1..Len(a) /\ h - 1 <= Len(b) /\ h \in 1..Len(a) /\ h <= Len(b)
            /\ s + 1 = h - 1 /\ (s + 1) + 1 = h
        BY <1>2, <1>3, <1>6, <2>3
      <3>2. a[h - 1] = Low(n) /\ a[h] = High(n)
        BY <3>1 DEF IsPacket
      <3>3. Low(n) + 256 * High(n) = n
        BY <1>3, BytesValue
      <3>4. ShortAt(a, s + 1) = a[h - 1] + 256 * a[h]
        BY <3>1 DEF ShortAt
      <3> QED BY <3>2, <3>3, <3>4
    <2>7. size = Len(b)
      BY <1>2, <1>3, <2>3, <2>6
    <2> HIDE DEF size
    <2>8. CASE Len(a) < Len(b)
      <3>1. size > Len(a)
        BY <1>2, <1>3, <2>7, <2>8
      <3>2. ~ (Len(a) >= Len(b))
        BY <1>2, <1>3, <2>8
      <3> QED BY <1>1, <3>1, <3>2
    <2>9. CASE Len(a) >= Len(b)
      <3> DEFINE m == Len(b)
      <3>1. m \in Nat /\ m > 2 /\ m - 2 \in 0..Len(a) /\ m - 2 <= Len(b)
        BY <1>2, <1>3, <2>9
      <3>2. Prefix(a, m - 2) = Prefix(b, m - 2)
        <4>1. \A i \in 1..m - 2 : i \in 1..Len(a) /\ i <= Len(b)
          BY <3>1
        <4>2. \A i \in 1..m - 2 : a[i] = b[i]
          BY <4>1
        <4> QED BY <1>3, <3>1, <4>2, SamePrefix
      <3>3. ShortAt(a, m - 1) = usGetCRC16(Prefix(b, m - 2))
        <4> DEFINE crc == usGetCRC16(Prefix(b, m - 2))
        <4>1. b[m - 1] = Low(crc) /\ b[m] = High(crc)
          BY DEF IsPacket, EndsChecked
        <4>2. crc \in HalfWord
          BY ChecksumIs, Zenon
        <4> HIDE DEF crc
        <4>3. Low(crc) + 256 * High(crc) = crc
          BY <4>2, BytesValue
        <4>4. /\ m - 1 \in 1..Len(a) /\ m - 1 <= Len(b) /\ m \in 1..Len(a) /\ m <= Len(b)
              /\ (m - 1) + 1 = m
          BY <2>9, <3>1
        <4>5. a[m - 1] = b[m - 1] /\ a[m] = b[m]
          BY <4>4
        <4>6. ShortAt(a, m - 1) = a[m - 1] + 256 * a[m]
          BY <4>4 DEF ShortAt
        <4>7. ShortAt(a, m - 1) = crc
          BY <4>1, <4>3, <4>5, <4>6
        <4> QED BY <4>7 DEF crc
      <3>4. a # <<>>
        <4>1. Len(<<>>) = 0 /\ Len(a) # 0
          BY <1>2, <1>3, <1>6
        <4> QED BY <4>1
      <3>5. ~ (Len(a) < s + 4) /\ ~ (size > Len(a))
        BY <1>2, <1>3, <1>6, <2>3, <2>7, <2>9
      <3>6. Bad <=> a[1] \notin syncs
        BY <2>5, <2>7, <3>2, <3>3, <3>4, <3>5, Zenon
      <3> HIDE DEF Bad
      <3> QED BY <1>1, <2>2, <2>7, <2>9, <3>6, Zenon
    <2> QED BY <1>2, <1>3, <2>8, <2>9
  <1> QED BY <1>2, <1>3, <1>5, <1>6

(* The bytes that arrive are the packet's, then those of the next one. *)
LEMMA ArrivedIs ==
    ASSUME NEW b \in Seq(Byte), NEW n \in 0..Len(b) + 2
    PROVE  LET a == Prefix(b \o <<85, 0>>, n)
           IN  a \in Seq(Byte) /\ Len(a) = n /\ \A i \in 1..n : i <= Len(b) => a[i] = b[i]
  <1> DEFINE t == <<85, 0>>
             c == b \o t
             a == Prefix(c, n)
  <1>1. t \in Seq(Byte) /\ Len(t) = 2
    BY DEF Byte
  <1> HIDE DEF t
  <1>2. c \in Seq(Byte) /\ Joins(c, b, t)
    BY <1>1, ConcatIs
  <1> HIDE DEF c
  <1>3. Len(b) \in Nat /\ n \in 0..Len(c)
    BY <1>1, <1>2, LenProperties DEF Joins
  <1>4. a \in Seq(Byte) /\ Len(a) = n /\ \A i \in 1..n : a[i] = c[i]
    BY <1>2, <1>3, PrefixOf
  <1> HIDE DEF a
  <1>5. \A i \in 1..n : i <= Len(b) => c[i] = b[i]
    <2>1. \A i \in 1..n : i <= Len(b) => i \in 1..Len(b)
      BY <1>3
    <2> QED BY <1>2, <2>1 DEF Joins
  <1> QED BY <1>4, <1>5 DEF a, c, t


(* A number of thirty-two bits is its two halves. *)
LEMMA LongValue ==
    ASSUME NEW n \in Nat, n \div 65536 < 65536
    PROVE  (Low(n) + 256 * High(n)) + 65536 * (Low(n \div 65536) + 256 * High(n \div 65536)) = n
  <1> DEFINE m == n \div 65536
             r == n % 65536
  <1>1. m \in Nat /\ m < 65536 /\ r \in Nat /\ r + 65536 * m = n
    OBVIOUS
  <1>2. Low(n) + 256 * High(n) = r
    BY DEF Low, High
  <1> HIDE DEF m, r
  <1>3. m \in HalfWord
    <2>1. m \in Nat /\ m < 65536
      BY <1>1
    <2> QED BY <2>1, HalfIs
  <1>4. Low(m) + 256 * High(m) = m
    BY <1>3, BytesValue
  <1> DEFINE x == Low(n) + 256 * High(n)
             y == Low(m) + 256 * High(m)
  <1>5. x = r /\ y = m
    BY <1>2, <1>4
  <1> HIDE DEF x, y
  <1>6. x + 65536 * y = n
    BY <1>1, <1>5
  <1> QED BY <1>6 DEF x, y, m

LEMMA DecodedIs ==
    ASSUME NEW attr, IsAttr(attr), NEW data, NEW b, IsPacket(b, attr, data)
    PROVE  Decoded(b) =
             [attr |-> [global |-> attr.global, response |-> attr.response,
                        address |-> IF attr.global THEN attr.address ELSE attr.address % 256,
                        type |-> attr.type, error |-> attr.error],
              data |-> data]
  <1> DEFINE h == HeaderSize(attr)
             n == Len(data)
             s == TypeAt(b[1])
  <1>1. h \in {5, 8}
    BY SizeIs
  <1>2. /\ b \in Seq(Byte) /\ data \in Seq(Byte) /\ n \in Nat /\ n \in HalfWord
        /\ Len(b) = h + n + 2
    BY LenProperties DEF IsPacket
  <1>3. b[1] = Sync(attr.global, attr.response)
    BY DEF IsPacket, HasHeader
  <1>4. s = h - 2
    BY <1>3, SyncIs
  <1>5. b[1] \in GlobalSyncs <=> attr.global
    BY <1>3, SyncIs
  <1>6. b[1] \in ResponseSyncs <=> attr.response
    BY <1>3, SyncIs
  <1>7. attr.global \in BOOLEAN /\ attr.response \in BOOLEAN /\ attr.address \in Nat
        /\ attr.address \div 65536 < 65536
    BY DEF IsAttr
  <1>8. b[s] % 16 = attr.type /\ b[s] \div 16 = attr.error
    <2>1. b[s] = attr.type + 16 * attr.error
      BY <1>4 DEF IsPacket, HasHeader
    <2>2. (attr.type + 16 * attr.error) % 16 = attr.type /\ (attr.type + 16 * attr.error) \div 16 = attr.error
      BY CodeIs
    <2> QED BY <2>1, <2>2
  <1> HIDE DEF s
  <1>9. ShortAt(b, s + 1) = n
    <2>1. s + 1 = h - 1 /\ (s + 1) + 1 = h
      BY <1>1, <1>4
    <2>2. b[h - 1] = Low(n) /\ b[h] = High(n)
      BY DEF IsPacket
    <2>3. Low(n) + 256 * High(n) = n
      BY <1>2, BytesValue
    <2>4. ShortAt(b, s + 1) = b[h - 1] + 256 * b[h]
      BY <2>1 DEF ShortAt
    <2> QED BY <2>2, <2>3, <2>4
  <1>10. SubSeq(b, s + 3, s + 2 + n) = data
    <2> DEFINE e == h + n
               d == SubSeq(b, h + 1, e)
    <2>1. h \in 0..Len(b) /\ e \in 0..Len(b) /\ h <= e /\ e - h = n
      BY <1>1, <1>2
    <2> HIDE DEF e
    <2>2. d \in Seq(Byte) /\ Len(d) = n /\ \A i \in 1..n : d[i] = b[h + i]
      <3> HIDE DEF h, n
      <3>1. d \in Seq(Byte) /\ Len(d) = e - h /\ \A i \in 1..e - h : d[i] = b[h + i]
        BY <1>2, <2>1, PieceIs
      <3> QED BY <2>1, <3>1
    <2> HIDE DEF d
    <2>3. \A i \in 1..n : d[i] = data[i]
      BY <2>2 DEF IsPacket, HasData
    <2>4. d = data
      BY <1>2, <2>2, <2>3, SeqEqual
    <2>5. s + 3 = h + 1 /\ s + 2 + n = h + n
      BY <1>1, <1>2, <1>4
    <2> QED BY <2>4, <2>5 DEF d, e
  <1>11. AddressOf(b) = IF attr.global THEN attr.address ELSE attr.address % 256
    <2>1. CASE attr.global
      <3> DEFINE a == attr.address
      <3>1. \A i \in 1..4 : b[1 + i] = Long(a)[i]
        BY <2>1 DEF IsPacket, HasHeader
      <3>2. /\ Long(a)[1] = Low(a) /\ Long(a)[2] = High(a)
            /\ Long(a)[3] = Low(a \div 65536) /\ Long(a)[4] = High(a \div 65536)
        BY <1>7, LongIs
      <3>3. /\ b[2] = Low(a) /\ b[3] = High(a)
            /\ b[4] = Low(a \div 65536) /\ b[5] = High(a \div 65536)
        <4>1. /\ 1 \in 1..4 /\ 2 \in 1..4 /\ 3 \in 1..4 /\ 4 \in 1..4
              /\ 1 + 1 = 2 /\ 1 + 2 = 3 /\ 1 + 3 = 4 /\ 1 + 4 = 5
          OBVIOUS
        <4> QED BY <3>1, <3>2, <4>1
      <3>4. LongAt(b, 2) = (b[2] + 256 * b[3]) + 65536 * (b[4] + 256 * b[5])
        <4>1. ShortAt(b, 2) = b[2] + 256 * b[3]
          BY DEF ShortAt
        <4>2. ShortAt(b, 4) = b[4] + 256 * b[5]
          BY DEF ShortAt
        <4>3. LongAt(b, 2) = ShortAt(b, 2) + 65536 * ShortAt(b, 4)
          BY DEF LongAt
        <4> QED BY <4>1, <4>2, <4>3
      <3>5. (Low(a) + 256 * High(a)) + 65536 * (Low(a \div 65536) + 256 * High(a \div 65536)) = a
        BY <1>7, LongValue
      <3>6. LongAt(b, 2) = a
        BY <3>3, <3>4, <3>5
      <3> QED BY <1>5, <2>1, <3>6 DEF AddressOf
    <2>2. CASE ~attr.global
      <3>1. b[2] = Low(attr.address)
        BY <2>2 DEF IsPacket, HasHeader
      <3> QED BY <1>5, <2>2, <3>1 DEF AddressOf, Low
    <2> QED BY <2>1, <2>2
  <1>12. (b[1] \in GlobalSyncs) = attr.global /\ (b[1] \in ResponseSyncs) = attr.response
    BY <1>5, <1>6, <1>7
  <1>13. Decoded(b) = [attr |-> [global |-> b[1] \in GlobalSyncs, response |-> b[1] \in ResponseSyncs,
                                 address |-> AddressOf(b), type |-> b[s] % 16, error |-> b[s] \div 16],
                       data |-> SubSeq(b, s + 3, s + 2 + ShortAt(b, s + 1))]
    BY Zenon DEF Decoded, s
  <1> QED BY <1>8, <1>9, <1>10, <1>11, <1>12, <1>13, Zenon

(* A ping put together by hand is the packet the functions build. *)
LEMMA PingIs ==
    ASSUME NEW address \in Nat, NEW data \in Seq(Byte), Len(data) \in HalfWord, NEW attr, IsAttr(attr),
           attr = [global |-> TRUE, response |-> FALSE, address |-> address, type |-> 15, error |-> 0]
    PROVE  IsPacket(PingRequest(address, data), attr, data)
  <1> DEFINE sync == <<119>>
             long == Long(address)
             kind == <<15>>
             size == Short(Len(data))
             q1 == sync \o long
             q2 == q1 \o kind
             q3 == q2 \o size
             q == q3 \o data
             b == q \o Short(usGetCRC16(q))
             n == Len(data)
  <1>1. PingRequest(address, data) = b
    BY Zenon DEF PingRequest
  <1>2. n \in Nat /\ n \in HalfWord
    BY LenProperties
  <1>3. sync \in Seq(Byte) /\ Len(sync) = 1 /\ sync[1] = 119
    BY DEF Byte
  <1>4. long \in Seq(Byte) /\ Len(long) = 4
    BY LongIs
  <1>5. kind \in Seq(Byte) /\ Len(kind) = 1 /\ kind[1] = 15
    BY DEF Byte
  <1>6. size \in Seq(Byte) /\ Len(size) = 2 /\ size[1] = Low(n) /\ size[2] = High(n)
    BY <1>2, ShortIs
  <1> HIDE DEF sync, long, kind, size, n
  <1>7. q1 \in Seq(Byte) /\ Joins(q1, sync, long)
    BY <1>3, <1>4, ConcatIs
  <1> HIDE DEF q1
  <1>8. q2 \in Seq(Byte) /\ Joins(q2, q1, kind)
    BY <1>5, <1>7, ConcatIs
  <1> HIDE DEF q2
  <1>9. q3 \in Seq(Byte) /\ Joins(q3, q2, size)
    BY <1>6, <1>8, ConcatIs
  <1> HIDE DEF q3
  <1>10. q \in Seq(Byte) /\ Joins(q, q3, data)
    BY <1>9, ConcatIs
  <1> HIDE DEF q
  <1>11. b \in Seq(Byte) /\ EndsChecked(b) /\ Joins(b, q, Short(usGetCRC16(q))) /\ Len(b) = Len(q) + 2
    BY <1>10, ChecksumBehind
  <1> HIDE DEF b
  <1>12. Len(q1) = 5 /\ Len(q2) = 6 /\ Len(q3) = 8 /\ Len(q) = 8 + n /\ Len(b) = 8 + n + 2
    BY <1>2, <1>3, <1>4, <1>5, <1>6, <1>7, <1>8, <1>9, <1>10, <1>11 DEF Joins, n
  <1>13. \A i \in 1..8 : b[i] = q3[i]
    <2>1. \A i \in 1..8 : i \in 1..Len(q) /\ i \in 1..Len(q3)
      BY <1>2, <1>12
    <2> QED BY <1>10, <1>11, <2>1 DEF Joins
  <1>14. b[7] = Low(n) /\ b[8] = High(n)
    <2>1. 1 \in 1..2 /\ 2 \in 1..2 /\ 6 + 1 = 7 /\ 6 + 2 = 8 /\ 7 \in 1..8 /\ 8 \in 1..8
      OBVIOUS
    <2>2. q3[6 + 1] = size[1] /\ q3[6 + 2] = size[2]
      BY <1>6, <1>9, <1>12, <2>1 DEF Joins
    <2> QED BY <1>6, <1>13, <2>1, <2>2
  <1>15. b[6] = 15
    <2>1. 1 \in 1..1 /\ 5 + 1 = 6 /\ 6 \in 1..6 /\ 6 \in 1..8
      OBVIOUS
    <2>2. q2[5 + 1] = kind[1]
      BY <1>5, <1>8, <1>12, <2>1 DEF Joins
    <2>3. q3[6] = q2[6]
      BY <1>9, <1>12, <2>1 DEF Joins
    <2> QED BY <1>5, <1>13, <2>1, <2>2, <2>3
  <1>16. b[1] = 119 /\ \A i \in 1..4 : b[1 + i] = long[i]
    <2>1. \A i \in 1..5 : i \in 1..Len(q1) /\ i \in 1..Len(q2) /\ i \in 1..8
      BY <1>12
    <2>2. \A i \in 1..5 : b[i] = q1[i]
      BY <1>8, <1>9, <1>13, <2>1 DEF Joins
    <2>3. q1[1] = 119 /\ \A i \in 1..4 : q1[1 + i] = long[i]
      <3>1. 1 \in 1..1
        OBVIOUS
      <3> QED BY <1>3, <1>4, <1>7, <3>1 DEF Joins
    <2>4. \A i \in 1..4 : 1 + i \in 1..5
      OBVIOUS
    <2>5. 1 \in 1..5
      OBVIOUS
    <2> QED BY <2>2, <2>3, <2>4, <2>5
  <1>17. \A i \in 1..n : b[8 + i] = data[i]
    <2>1. \A i \in 1..n : 8 + i \in 1..Len(q)
      BY <1>2, <1>12
    <2>2. \A i \in 1..n : q[8 + i] = data[i]
      BY <1>10, <1>12 DEF Joins, n
    <2> QED BY <1>11, <2>1, <2>2 DEF Joins
  <1>18. /\ attr.global = TRUE /\ attr.response = FALSE /\ attr.address = address
         /\ attr.type = 15 /\ attr.error = 0
    OBVIOUS
  <1>19. HeaderSize(attr) = 8
    BY <1>18 DEF HeaderSize
  <1>20. HasHeader(b, attr)
    <2>1. Sync(TRUE, FALSE) = 119 /\ 8 - 2 = 6 /\ 15 + 16 * 0 = 15
      BY DEF Sync
    <2>2. b[1] = Sync(attr.global, attr.response)
      BY <1>16, <1>18, <2>1
    <2>3. b[HeaderSize(attr) - 2] = attr.type + 16 * attr.error
      BY <1>15, <1>18, <1>19, <2>1
    <2>4. \A i \in 1..4 : b[1 + i] = Long(attr.address)[i]
      BY <1>16, <1>18 DEF long
    <2> QED BY <1>18, <2>2, <2>3, <2>4, Zenon DEF HasHeader
  <1>21. IsPacket(b, attr, data)
    <2>1. 8 - 1 = 7
      OBVIOUS
    <2> QED BY <1>2, <1>11, <1>12, <1>14, <1>17, <1>19, <1>20, <2>1 DEF IsPacket, HasData, n
  <1> QED BY <1>1, <1>21

(* The numbers of a handshake's data are those bytes again. *)
LEMMA ShortOfTwo ==
    ASSUME NEW x \in Byte, NEW y \in Byte
    PROVE  /\ x + 256 * y \in HalfWord
           /\ Low(x + 256 * y) = x /\ High(x + 256 * y) = y
  <1>1. x \in 0..255 /\ y \in 0..255
    BY DEF Byte
  <1>2. (x + 256 * y) % 256 = x /\ (x + 256 * y) \div 256 = y
    BY <1>1
  <1>3. y % 256 = y
    BY <1>1
  <1>4. x + 256 * y \in HalfWord
    BY <1>1 DEF HalfWord
  <1> QED BY <1>2, <1>3, <1>4 DEF Low, High

LEMMA HandshakeIs ==
    ASSUME NEW data \in Seq(Byte), Len(data) >= 6
    PROVE  Short(ShortAt(data, 1)) \o Long(LongAt(data, 3)) = Prefix(data, 6)
  <1> DEFINE x == ShortAt(data, 1)
             u == ShortAt(data, 3)
             v == ShortAt(data, 5)
             y == LongAt(data, 3)
             q == Short(x) \o Long(y)
  <1>1. \A i \in 1..6 : data[i] \in Byte
    <2>1. \A i \in 1..6 : i \in 1..Len(data)
      BY LenProperties
    <2> QED BY <2>1, ElementOfSeq
  <1>2. x = data[1] + 256 * data[2] /\ u = data[3] + 256 * data[4] /\ v = data[5] + 256 * data[6]
    BY DEF ShortAt
  <1>3. y = u + 65536 * v
    BY DEF LongAt
  <1> HIDE DEF x, u, v, y
  <1>4. x \in HalfWord /\ Low(x) = data[1] /\ High(x) = data[2]
    <2>1. data[1] \in Byte /\ data[2] \in Byte
      BY <1>1
    <2> QED BY <1>2, <2>1, ShortOfTwo
  <1>5. u \in HalfWord /\ Low(u) = data[3] /\ High(u) = data[4]
    <2>1. data[3] \in Byte /\ data[4] \in Byte
      BY <1>1
    <2> QED BY <1>2, <2>1, ShortOfTwo
  <1>6. v \in HalfWord /\ Low(v) = data[5] /\ High(v) = data[6]
    <2>1. data[5] \in Byte /\ data[6] \in Byte
      BY <1>1
    <2> QED BY <1>2, <2>1, ShortOfTwo
  <1>7. y \in Nat /\ y \div 65536 = v /\ Low(y) = Low(u) /\ High(y) = High(u)
    <2>1. u \in Nat /\ u < 65536 /\ v \in Nat /\ v < 65536
      BY <1>5, <1>6 DEF HalfWord
    <2>2. y \in Nat /\ y \div 65536 = v /\ y % 256 = u % 256
      BY <1>3, <2>1
    <2>3. y \div 256 = u \div 256 + 256 * v
      BY <1>3, <2>1
    <2>4. (u \div 256 + 256 * v) % 256 = (u \div 256) % 256
      BY <2>1
    <2> QED BY <2>2, <2>3, <2>4 DEF Low, High
  <1>8. /\ Short(x) \in Seq(Byte) /\ Len(Short(x)) = 2
        /\ Short(x)[1] = data[1] /\ Short(x)[2] = data[2]
    <2>1. x \in Nat
      BY <1>4 DEF HalfWord
    <2> QED BY <1>4, <2>1, ShortIs
  <1>9. /\ Long(y) \in Seq(Byte) /\ Len(Long(y)) = 4
        /\ Long(y)[1] = data[3] /\ Long(y)[2] = data[4]
        /\ Long(y)[3] = data[5] /\ Long(y)[4] = data[6]
    <2>1. /\ Long(y) \in Seq(Byte) /\ Len(Long(y)) = 4
          /\ Long(y)[1] = Low(y) /\ Long(y)[2] = High(y)
          /\ Long(y)[3] = Low(y \div 65536) /\ Long(y)[4] = High(y \div 65536)
      BY <1>7, LongIs
    <2> QED BY <1>5, <1>6, <1>7, <2>1
  <1>10. q \in Seq(Byte) /\ Joins(q, Short(x), Long(y))
    BY <1>8, <1>9, ConcatIs
  <1> HIDE DEF q
  <1>11. Len(q) = 6 /\ \A i \in 1..6 : q[i] = data[i]
    <2>1. Len(q) = 6
      BY <1>8, <1>9, <1>10 DEF Joins
    <2>2. q[1] = data[1] /\ q[2] = data[2]
      <3>1. 1 \in 1..2 /\ 2 \in 1..2
        OBVIOUS
      <3> QED BY <1>8, <1>10, <3>1 DEF Joins
    <2>3. \A i \in 1..4 : q[2 + i] = Long(y)[i]
      BY <1>8, <1>9, <1>10 DEF Joins
    <2>4. q[3] = data[3] /\ q[4] = data[4] /\ q[5] = data[5] /\ q[6] = data[6]
      <3>1. /\ 1 \in 1..4 /\ 2 \in 1..4 /\ 3 \in 1..4 /\ 4 \in 1..4
            /\ 2 + 1 = 3 /\ 2 + 2 = 4 /\ 2 + 3 = 5 /\ 2 + 4 = 6
        OBVIOUS
      <3> QED BY <1>9, <2>3, <3>1
    <2>5. \A i \in 1..6 : i = 1 \/ i = 2 \/ i = 3 \/ i = 4 \/ i = 5 \/ i = 6
      OBVIOUS
    <2> QED BY <2>1, <2>2, <2>4, <2>5
  <1>12. /\ Prefix(data, 6) \in Seq(Byte) /\ Len(Prefix(data, 6)) = 6
         /\ \A i \in 1..6 : Prefix(data, 6)[i] = data[i]
    <2>1. 6 \in 0..Len(data)
      BY LenProperties
    <2> QED BY <2>1, PrefixOf
  <1>13. q = Prefix(data, 6)
    <2> DEFINE p == Prefix(data, 6)
    <2>1. p \in Seq(Byte) /\ Len(q) = Len(p) /\ \A i \in 1..Len(q) : q[i] = p[i]
      BY <1>11, <1>12
    <2> HIDE DEF p
    <2>2. q = p
      BY <1>10, <2>1, SeqEqual
    <2> QED BY <2>2 DEF p
  <1> QED BY <1>13 DEF q, x, y


-----------------------------------------------------------------------------
(* Messages. *)

LEMMA TakenIs ==
    ASSUME NEW put, put.kind \in {"data", "string", "value"}, put.bytes \in Seq(Byte), NEW free \in Nat
    PROVE  Taken(put, free) \in Seq(Byte) /\ Len(Taken(put, free)) <= free
  <1> DEFINE b == put.bytes
             n == Smaller(Len(b), free)
             m == Smaller(Len(b), free - 1)
  <1>1. b \in Seq(Byte) /\ Len(b) \in Nat
    BY LenProperties
  <1> HIDE DEF b
  <1>2. CASE put.kind = "data"
    <2>1. Taken(put, free) = Prefix(b, n)
      BY <1>2 DEF Taken, b
    <2>2. n \in 0..Len(b) /\ n <= free
      BY <1>1 DEF Smaller
    <2> HIDE DEF n
    <2>3. Prefix(b, n) \in Seq(Byte) /\ Len(Prefix(b, n)) = n
      BY <1>1, <2>2, PrefixOf
    <2> QED BY <2>1, <2>2, <2>3
  <1>3. CASE put.kind = "string" /\ free >= 1
    <2>1. Taken(put, free) = Append(Prefix(b, m), 0)
      BY <1>3 DEF Taken, b
    <2>2. m \in 0..Len(b) /\ m + 1 <= free
      BY <1>1, <1>3 DEF Smaller
    <2> HIDE DEF m
    <2> DEFINE p == Prefix(b, m)
    <2>3. p \in Seq(Byte) /\ Len(p) = m
      BY <1>1, <2>2, PrefixOf
    <2>4. 0 \in Byte
      BY DEF Byte
    <2> HIDE DEF p
    <2>5. Append(p, 0) \in Seq(Byte) /\ Len(Append(p, 0)) = Len(p) + 1
      BY <2>3, <2>4, AppendProperties
    <2> QED BY <2>1, <2>2, <2>3, <2>5 DEF p
  <1>4. <<>> \in Seq(Byte) /\ Len(<<>>) = 0
    OBVIOUS
  <1>5. CASE put.kind = "string" /\ ~ (free >= 1)
    <2>1. Taken(put, free) = <<>>
      BY <1>5 DEF Taken
    <2> QED BY <1>4, <2>1
  <1>6. CASE put.kind = "value"
    <2>1. Taken(put, free) = IF free < Len(b) THEN <<>> ELSE b
      BY <1>6 DEF Taken, b
    <2> QED BY <1>1, <1>4, <2>1
  <1>7. CASE put.kind = "string"
    BY <1>3, <1>5, <1>7, Zenon
  <1> QED BY <1>2, <1>6, <1>7

(* A message's bytes before the checksum. *)
BodyOf(bytes) == Short(513) \o <<7>> \o Short(Len(bytes)) \o bytes

LEMMA Body ==
    ASSUME NEW bytes \in Seq(Byte)
    PROVE  /\ BodyOf(bytes) \in Seq(Byte) /\ Len(BodyOf(bytes)) = 5 + Len(bytes)
           /\ BodyOf(bytes)[4] = Low(Len(bytes)) /\ BodyOf(bytes)[5] = High(Len(bytes))
           /\ \A i \in 1..Len(bytes) : BodyOf(bytes)[5 + i] = bytes[i]
  <1> DEFINE cmd == Short(513)
             par == <<7>>
             n == Len(bytes)
             size == Short(n)
             q1 == cmd \o par
             q2 == q1 \o size
             body == q2 \o bytes
  <1>1. cmd \in Seq(Byte) /\ Len(cmd) = 2
    BY ShortIs
  <1>2. par \in Seq(Byte) /\ Len(par) = 1
    BY DEF Byte
  <1>3. n \in Nat
    BY LenProperties
  <1>4. size \in Seq(Byte) /\ Len(size) = 2 /\ size[1] = Low(n) /\ size[2] = High(n)
    BY <1>3, ShortIs
  <1>5. BodyOf(bytes) = body
    BY Zenon DEF BodyOf
  <1> HIDE DEF cmd, par, n, size
  <1>6. q1 \in Seq(Byte) /\ Joins(q1, cmd, par)
    BY <1>1, <1>2, ConcatIs
  <1> HIDE DEF q1
  <1>7. q2 \in Seq(Byte) /\ Joins(q2, q1, size)
    BY <1>4, <1>6, ConcatIs
  <1> HIDE DEF q2
  <1>8. body \in Seq(Byte) /\ Joins(body, q2, bytes)
    BY <1>7, ConcatIs
  <1> HIDE DEF body
  <1>9. Len(q1) = 3 /\ Len(q2) = 5 /\ Len(body) = 5 + n
    BY <1>1, <1>2, <1>3, <1>4, <1>6, <1>7, <1>8 DEF Joins, n
  <1>10. body[4] = Low(n) /\ body[5] = High(n)
    <2>1. /\ 1 \in 1..2 /\ 2 \in 1..2 /\ 3 + 1 = 4 /\ 3 + 2 = 5 /\ 4 \in 1..5 /\ 5 \in 1..5
      OBVIOUS
    <2>2. q2[3 + 1] = size[1] /\ q2[3 + 2] = size[2]
      BY <1>4, <1>7, <1>9, <2>1 DEF Joins
    <2>3. body[4] = q2[4] /\ body[5] = q2[5]
      BY <1>8, <1>9, <2>1 DEF Joins
    <2> QED BY <1>4, <2>1, <2>2, <2>3
  <1>11. \A i \in 1..n : body[5 + i] = bytes[i]
    <2>1. \A i \in 1..Len(bytes) : body[Len(q2) + i] = bytes[i]
      BY <1>8 DEF Joins
    <2> QED BY <1>9, <2>1 DEF n
  <1> QED BY <1>5, <1>8, <1>9, <1>10, <1>11 DEF n

BlockCount(n) == (5 + n + BlockSize) \div BlockSize

LEMMA BlocksAre ==
    ASSUME NEW n \in Nat
    PROVE  /\ BlockCount(n) \in Nat /\ BlockCount(n) * BlockSize \in Nat
           /\ BlockCount(n) * BlockSize - (5 + n) \in 1..16
           /\ BlockCount(n) * BlockSize >= 16 /\ BlockCount(n) * BlockSize >= n + 6
           /\ (BlockCount(n) * BlockSize) % BlockSize = 0
  <1>1. BlockSize = 16
    BY DEF BlockSize
  <1> DEFINE k == (5 + n + 16) \div 16
  <1>2. k \in Nat /\ 16 * k <= 5 + n + 16 /\ 5 + n + 16 < 16 * k + 16
    OBVIOUS
  <1>3. BlockCount(n) = k
    BY <1>1 DEF BlockCount
  <1> HIDE DEF k
  <1>4. k * 16 \in Nat /\ k * 16 - (5 + n) \in 1..16 /\ k * 16 >= 16 /\ k * 16 >= n + 6
    BY <1>2
  <1>5. (k * 16) % 16 = 0
    BY <1>2
  <1> QED BY <1>1, <1>2, <1>3, <1>4, <1>5

(* The message in the room a packet offers needs no more than that room. *)
LEMMA BlocksFit ==
    ASSUME NEW n \in Nat, NEW free \in Nat, n <= MessageRoom(free)
    PROVE  BlockCount(n) * BlockSize <= free /\ n + 6 <= free
  <1>1. BlockSize = 16
    BY DEF BlockSize
  <1> DEFINE k == (5 + n + 16) \div 16
             m == free \div 16
  <1>2. k \in Nat /\ 16 * k <= 5 + n + 16
    OBVIOUS
  <1>3. m \in Nat /\ 16 * m <= free
    OBVIOUS
  <1>4. BlockCount(n) = k /\ n <= m * 16 - 6
    BY <1>1 DEF BlockCount, MessageRoom
  <1> HIDE DEF k, m
  <1>5. 16 * k <= 16 * m + 15
    BY <1>2, <1>3, <1>4
  <1>6. k <= m
    BY <1>2, <1>3, <1>5
  <1> QED BY <1>1, <1>2, <1>3, <1>4, <1>6

LEMMA PackedIs ==
    ASSUME NEW bytes \in Seq(Byte), Len(bytes) \in HalfWord
    PROVE  /\ Packed(bytes) \in Seq(Byte)
           /\ Len(Packed(bytes)) = BlockCount(Len(bytes)) * BlockSize
           /\ Unpacked(Packed(bytes)) = bytes
  <1> DEFINE n == Len(bytes)
             body == BodyOf(bytes)
             k == BlockCount(n) * BlockSize - (5 + n)
             sum == Sum(body)
             fill == [i \in 1..k |-> IF i = 1 THEN 255 - sum ELSE sum]
             q == body \o fill
  <1>1. n \in Nat
    BY LenProperties
  <1>2. /\ body \in Seq(Byte) /\ Len(body) = 5 + n
        /\ body[4] = Low(n) /\ body[5] = High(n)
        /\ \A i \in 1..n : body[5 + i] = bytes[i]
    BY Body
  <1>3. Packed(bytes) = q
    <2> DEFINE blocks == (Len(body) + BlockSize) \div BlockSize
    <2>1. Packed(bytes) = body \o [i \in 1..blocks * BlockSize - Len(body) |->
                                      IF i = 1 THEN 255 - Sum(body) ELSE Sum(body)]
      BY Zenon DEF Packed, BodyOf
    <2>2. blocks = BlockCount(n) /\ Len(body) = 5 + n
      BY <1>2, Zenon DEF BlockCount
    <2> QED BY <2>1, <2>2, Zenon
  <1> HIDE DEF body
  <1>4. sum \in Byte
    BY <1>2, SumIs
  <1>5. k \in 1..16 /\ 5 + n + k = BlockCount(n) * BlockSize
    BY <1>1, BlocksAre
  <1> HIDE DEF k, sum
  <1>6. fill \in Seq(Byte) /\ Len(fill) = k /\ fill[1] = 255 - sum
    <2>1. 255 - sum \in Byte
      BY <1>4 DEF Byte
    <2>2. fill \in [1..k -> Byte] /\ k \in Nat /\ 1 \in 1..k
      BY <1>4, <1>5, <2>1
    <2>3. fill[1] = 255 - sum
      BY <2>2
    <2> HIDE DEF fill
    <2> QED BY <2>2, <2>3, SequenceOf
  <1> HIDE DEF fill
  <1>7. q \in Seq(Byte) /\ Joins(q, body, fill)
    BY <1>2, <1>6, ConcatIs
  <1> HIDE DEF q
  <1>8. Len(q) = 5 + n + k /\ Len(q) >= BlockSize /\ n + 6 <= Len(q)
    <2>1. Len(q) = 5 + n + k
      BY <1>2, <1>6, <1>7 DEF Joins
    <2>2. BlockCount(n) * BlockSize >= 16 /\ BlockCount(n) * BlockSize >= n + 6
      BY <1>1, BlocksAre
    <2> QED BY <1>5, <2>1, <2>2 DEF BlockSize
  <1>9. \A i \in 1..5 + n : q[i] = body[i]
    BY <1>2, <1>7 DEF Joins
  <1>10. ShortAt(q, 4) = n
    <2>1. 4 \in 1..5 + n /\ 5 \in 1..5 + n /\ 4 + 1 = 5
      BY <1>1
    <2>2. q[4] = Low(n) /\ q[5] = High(n)
      BY <1>2, <1>9, <2>1
    <2>3. Low(n) + 256 * High(n) = n
      BY BytesValue
    <2>4. ShortAt(q, 4) = q[4] + 256 * q[5]
      BY <2>1 DEF ShortAt
    <2> QED BY <2>2, <2>3, <2>4
  <1>11. Prefix(q, n + 5) = body
    <2> DEFINE m == n + 5
    <2>1. m \in 0..Len(q) /\ Len(body) = m
      BY <1>1, <1>2, <1>8
    <2> HIDE DEF m
    <2> DEFINE p == Prefix(q, m)
    <2>2. p \in Seq(Byte) /\ Len(p) = m /\ \A i \in 1..m : p[i] = q[i]
      BY <1>7, <2>1, PrefixOf
    <2> HIDE DEF p
    <2>3. \A i \in 1..m : p[i] = body[i]
      BY <1>2, <1>9, <2>1, <2>2
    <2>4. p = body
      BY <1>2, <2>1, <2>2, <2>3, SeqEqual
    <2> QED BY <2>4 DEF p, m
  <1>12. q[n + 6] = 255 - Sum(body)
    <2>1. 1 \in 1..k /\ (5 + n) + 1 = n + 6
      BY <1>1, <1>5
    <2>2. q[(5 + n) + 1] = fill[1]
      BY <1>2, <1>6, <1>7, <2>1 DEF Joins
    <2> QED BY <1>6, <2>1, <2>2 DEF sum
  <1>13. SubSeq(q, 6, n + 5) = bytes
    <2> DEFINE m == n + 5
    <2>1. 5 \in 0..Len(q) /\ m \in 0..Len(q) /\ 5 <= m /\ m - 5 = n /\ 5 + 1 = 6
      BY <1>1, <1>8
    <2> HIDE DEF m
    <2> DEFINE d == SubSeq(q, 5 + 1, m)
    <2>2. d \in Seq(Byte) /\ Len(d) = m - 5 /\ \A i \in 1..m - 5 : d[i] = q[5 + i]
      BY <1>7, <2>1, PieceIs
    <2>3. SubSeq(q, 6, m) = d
      BY <2>1
    <2> HIDE DEF d
    <2>4. \A i \in 1..n : d[i] = bytes[i]
      <3>1. \A i \in 1..n : 5 + i \in 1..5 + n
        BY <1>1
      <3> QED BY <1>2, <1>9, <2>1, <2>2, <3>1
    <2>5. Len(d) = Len(bytes)
      BY <2>1, <2>2
    <2>6. d = bytes
      BY <2>2, <2>4, <2>5, SeqEqual DEF n
    <2> QED BY <2>3, <2>6 DEF m
  <1>14. Unpacked(q) = bytes
    <2> DEFINE size == ShortAt(q, 4)
    <2>1. Unpacked(q) = IF Len(q) >= BlockSize /\ size + 6 <= Len(q)
                           /\ q[size + 6] = 255 - Sum(Prefix(q, size + 5))
                        THEN SubSeq(q, 6, size + 5) ELSE <<-1>>
      BY DEF Unpacked
    <2>2. size = n
      BY <1>10
    <2> HIDE DEF size, n
    <2> QED BY <1>8, <1>11, <1>12, <1>13, <2>1, <2>2
  <1> QED BY <1>3, <1>5, <1>7, <1>8, <1>14


-----------------------------------------------------------------------------
(* The checksum notices a byte that has changed. *)

(* A byte is determined by its bits. *)
LEMMA BitsDiffer ==
    ASSUME NEW b \in Byte, NEW c \in Byte, Bits(b) = Bits(c)
    PROVE  b = c
  <1> DEFINE Bit(v, i) == (v \div 2^i) % 2
  <1>1. b \in 0..255 /\ c \in 0..255
    BY DEF Byte
  <1>2. \A i \in 0..7 : Bit(b, i) = 1 <=> Bit(c, i) = 1
    BY DEF Bits
  <1>3. ASSUME NEW v \in 0..255
        PROVE  /\ Bit(v, 0) = v % 2 /\ Bit(v, 1) = (v \div 2) % 2
               /\ Bit(v, 2) = (v \div 4) % 2 /\ Bit(v, 3) = (v \div 8) % 2
               /\ Bit(v, 4) = (v \div 16) % 2 /\ Bit(v, 5) = (v \div 32) % 2
               /\ Bit(v, 6) = (v \div 64) % 2 /\ Bit(v, 7) = v \div 128
    OBVIOUS
  <1>4. ASSUME NEW v \in 0..255
        PROVE  /\ v = 2 * (v \div 2) + (v % 2)
               /\ v \div 2 = 2 * (v \div 4) + ((v \div 2) % 2)
               /\ v \div 4 = 2 * (v \div 8) + ((v \div 4) % 2)
               /\ v \div 8 = 2 * (v \div 16) + ((v \div 8) % 2)
               /\ v \div 16 = 2 * (v \div 32) + ((v \div 16) % 2)
               /\ v \div 32 = 2 * (v \div 64) + ((v \div 32) % 2)
               /\ v \div 64 = 2 * (v \div 128) + ((v \div 64) % 2)
    <2>1. v = 2 * (v \div 2) + (v % 2)
      OBVIOUS
    <2>2. v \div 2 = 2 * (v \div 4) + ((v \div 2) % 2)
      OBVIOUS
    <2>3. v \div 4 = 2 * (v \div 8) + ((v \div 4) % 2)
      OBVIOUS
    <2>4. v \div 8 = 2 * (v \div 16) + ((v \div 8) % 2)
      OBVIOUS
    <2>5. v \div 16 = 2 * (v \div 32) + ((v \div 16) % 2)
      OBVIOUS
    <2>6. v \div 32 = 2 * (v \div 64) + ((v \div 32) % 2)
      OBVIOUS
    <2>7. v \div 64 = 2 * (v \div 128) + ((v \div 64) % 2)
      OBVIOUS
    <2> QED BY <2>1, <2>2, <2>3, <2>4, <2>5, <2>6, <2>7
  <1>5. ASSUME NEW v \in 0..255
        PROVE  /\ Bit(v, 0) \in 0..1 /\ Bit(v, 1) \in 0..1 /\ Bit(v, 2) \in 0..1 /\ Bit(v, 3) \in 0..1
               /\ Bit(v, 4) \in 0..1 /\ Bit(v, 5) \in 0..1 /\ Bit(v, 6) \in 0..1 /\ Bit(v, 7) \in 0..1
    <2>1. /\ v % 2 \in 0..1 /\ (v \div 2) % 2 \in 0..1 /\ (v \div 4) % 2 \in 0..1 /\ (v \div 8) % 2 \in 0..1
          /\ (v \div 16) % 2 \in 0..1 /\ (v \div 32) % 2 \in 0..1 /\ (v \div 64) % 2 \in 0..1
          /\ v \div 128 \in 0..1
      OBVIOUS
    <2> QED BY <1>3, <2>1
  <1>6. ASSUME NEW v \in 0..255
        PROVE  /\ v = 2 * (v \div 2) + Bit(v, 0) /\ v \div 2 = 2 * (v \div 4) + Bit(v, 1)
               /\ v \div 4 = 2 * (v \div 8) + Bit(v, 2) /\ v \div 8 = 2 * (v \div 16) + Bit(v, 3)
               /\ v \div 16 = 2 * (v \div 32) + Bit(v, 4) /\ v \div 32 = 2 * (v \div 64) + Bit(v, 5)
               /\ v \div 64 = 2 * (v \div 128) + Bit(v, 6) /\ v \div 128 = Bit(v, 7)
    BY <1>3, <1>4
  <1> HIDE DEF Bit
  <1>7. /\ Bit(b, 0) = Bit(c, 0) /\ Bit(b, 1) = Bit(c, 1) /\ Bit(b, 2) = Bit(c, 2) /\ Bit(b, 3) = Bit(c, 3)
        /\ Bit(b, 4) = Bit(c, 4) /\ Bit(b, 5) = Bit(c, 5) /\ Bit(b, 6) = Bit(c, 6) /\ Bit(b, 7) = Bit(c, 7)
    <2>1. /\ Bit(b, 0) = 1 <=> Bit(c, 0) = 1
          /\ Bit(b, 1) = 1 <=> Bit(c, 1) = 1
          /\ Bit(b, 2) = 1 <=> Bit(c, 2) = 1
          /\ Bit(b, 3) = 1 <=> Bit(c, 3) = 1
          /\ Bit(b, 4) = 1 <=> Bit(c, 4) = 1
          /\ Bit(b, 5) = 1 <=> Bit(c, 5) = 1
          /\ Bit(b, 6) = 1 <=> Bit(c, 6) = 1
          /\ Bit(b, 7) = 1 <=> Bit(c, 7) = 1
      BY <1>2
    <2>2. ASSUME NEW x \in 0..1, NEW y \in 0..1, x = 1 <=> y = 1 PROVE x = y
      BY <2>2
    <2>3. /\ Bit(b, 0) \in 0..1 /\ Bit(b, 1) \in 0..1 /\ Bit(b, 2) \in 0..1 /\ Bit(b, 3) \in 0..1
          /\ Bit(b, 4) \in 0..1 /\ Bit(b, 5) \in 0..1 /\ Bit(b, 6) \in 0..1 /\ Bit(b, 7) \in 0..1
      BY <1>1, <1>5
    <2>4. /\ Bit(c, 0) \in 0..1 /\ Bit(c, 1) \in 0..1 /\ Bit(c, 2) \in 0..1 /\ Bit(c, 3) \in 0..1
          /\ Bit(c, 4) \in 0..1 /\ Bit(c, 5) \in 0..1 /\ Bit(c, 6) \in 0..1 /\ Bit(c, 7) \in 0..1
      BY <1>1, <1>5
    <2> QED BY <2>1, <2>2, <2>3, <2>4
  <1>8. /\ b = 2 * (b \div 2) + Bit(b, 0) /\ b \div 2 = 2 * (b \div 4) + Bit(b, 1)
        /\ b \div 4 = 2 * (b \div 8) + Bit(b, 2) /\ b \div 8 = 2 * (b \div 16) + Bit(b, 3)
        /\ b \div 16 = 2 * (b \div 32) + Bit(b, 4) /\ b \div 32 = 2 * (b \div 64) + Bit(b, 5)
        /\ b \div 64 = 2 * (b \div 128) + Bit(b, 6) /\ b \div 128 = Bit(b, 7)
    BY <1>1, <1>6, Zenon
  <1>9. /\ c = 2 * (c \div 2) + Bit(c, 0) /\ c \div 2 = 2 * (c \div 4) + Bit(c, 1)
        /\ c \div 4 = 2 * (c \div 8) + Bit(c, 2) /\ c \div 8 = 2 * (c \div 16) + Bit(c, 3)
        /\ c \div 16 = 2 * (c \div 32) + Bit(c, 4) /\ c \div 32 = 2 * (c \div 64) + Bit(c, 5)
        /\ c \div 64 = 2 * (c \div 128) + Bit(c, 6) /\ c \div 128 = Bit(c, 7)
    BY <1>1, <1>6, Zenon
  <1>10. b \div 16 = c \div 16
    BY <1>7, <1>8, <1>9
  <1> QED BY <1>7, <1>8, <1>9, <1>10

LEMMA XorCancels ==
    ASSUME NEW v, NEW w, NEW x
    PROVE  (Xor(v, x) = Xor(w, x) => v = w) /\ (Xor(x, v) = Xor(x, w) => v = w)
  BY DEF Xor

(* The polynomial has the bit that a shift leaves free, so that a shift can  *)
(* be undone.                                                                *)
LEMMA ShiftedIs ==
    ASSUME NEW poly \in SUBSET (0..15), NEW r \in SUBSET (0..15)
    PROVE  Shifted(r, poly) \in SUBSET (0..15)
  <1> DEFINE s == {i - 1 : i \in r \ {0}}
  <1>1. s \in SUBSET (0..15)
    OBVIOUS
  <1>2. Shifted(r, poly) = IF 0 \in r THEN Xor(s, poly) ELSE s
    BY DEF Shifted
  <1> HIDE DEF s
  <1>3. Xor(s, poly) \in SUBSET (0..15)
    BY <1>1 DEF Xor
  <1> QED BY <1>1, <1>2, <1>3

LEMMA ShiftedDiffers ==
    ASSUME NEW poly, 15 \in poly, NEW r \in SUBSET (0..15), NEW q \in SUBSET (0..15),
           Shifted(r, poly) = Shifted(q, poly)
    PROVE  r = q
  <1> DEFINE Down(v) == {i - 1 : i \in v \ {0}}
  <1>1. ASSUME NEW v \in SUBSET (0..15) PROVE 15 \notin Down(v)
    OBVIOUS
  <1>2. ASSUME NEW v \in SUBSET (0..15), NEW i \in 1..15 PROVE i \in v <=> i - 1 \in Down(v)
    OBVIOUS
  <1>3. ASSUME NEW v
        PROVE  Shifted(v, poly) = IF 0 \in v THEN Xor(Down(v), poly) ELSE Down(v)
    BY DEF Shifted
  <1> HIDE DEF Down
  <1>4. ASSUME NEW v \in SUBSET (0..15) PROVE 15 \in Shifted(v, poly) <=> 0 \in v
    BY <1>1, <1>3 DEF Xor
  <1>5. 0 \in r <=> 0 \in q
    BY <1>4
  <1>6. Down(r) = Down(q)
    BY <1>3, <1>5, XorCancels
  <1>7. \A i \in 0..15 : i \in r <=> i \in q
    <2>1. \A i \in 1..15 : i \in r <=> i \in q
      BY <1>2, <1>6
    <2> QED BY <1>5, <2>1
  <1> QED BY <1>7

(* Eight shifts. *)
Eight(r, poly) ==
    Shifted(Shifted(Shifted(Shifted(Shifted(Shifted(Shifted(Shifted(
        r, poly), poly), poly), poly), poly), poly), poly), poly)

LEMMA EightIs ==
    ASSUME NEW poly \in SUBSET (0..15), NEW r \in SUBSET (0..15)
    PROVE  Eight(r, poly) \in SUBSET (0..15)
  BY ShiftedIs DEF Eight

LEMMA EightDiffers ==
    ASSUME NEW poly \in SUBSET (0..15), 15 \in poly,
           NEW r \in SUBSET (0..15), NEW q \in SUBSET (0..15), Eight(r, poly) = Eight(q, poly)
    PROVE  r = q
  <1> DEFINE S(v) == Shifted(v, poly)
  <1>1. ASSUME NEW v \in SUBSET (0..15), NEW w \in SUBSET (0..15)
        PROVE  S(v) \in SUBSET (0..15) /\ S(w) \in SUBSET (0..15) /\ (S(v) = S(w) => v = w)
    BY ShiftedIs, ShiftedDiffers
  <1>2. ASSUME NEW v \in SUBSET (0..15), NEW w \in SUBSET (0..15), S(S(v)) = S(S(w))
        PROVE  v = w
    BY <1>1, <1>2
  <1>3. ASSUME NEW v \in SUBSET (0..15), NEW w \in SUBSET (0..15), S(S(S(S(v)))) = S(S(S(S(w))))
        PROVE  v = w
    <2>1. /\ S(v) \in SUBSET (0..15) /\ S(w) \in SUBSET (0..15)
          /\ S(S(v)) \in SUBSET (0..15) /\ S(S(w)) \in SUBSET (0..15)
      BY <1>1
    <2>2. S(S(v)) = S(S(w))
      BY <1>2, <1>3, <2>1
    <2> QED BY <1>2, <2>2
  <1>4. /\ S(S(S(S(r)))) \in SUBSET (0..15) /\ S(S(S(S(q)))) \in SUBSET (0..15)
    BY <1>1
  <1>5. S(S(S(S(S(S(S(S(r)))))))) = S(S(S(S(S(S(S(S(q))))))))
    BY DEF Eight
  <1> HIDE DEF S
  <1>6. S(S(S(S(r)))) = S(S(S(S(q))))
    BY <1>3, <1>4, <1>5
  <1> QED BY <1>3, <1>6

(* What a byte makes of the register. *)
LEMMA AddByteIs ==
    ASSUME NEW poly \in SUBSET (0..15), NEW b, NEW r \in SUBSET (0..15)
    PROVE  AddByte(b, poly)[r] = Eight(Xor(r, Bits(b)), poly)
  <1> DEFINE V == SUBSET (0..15)
             first == Xor(r, Bits(b))
             Steps(g) == g = [n \in 0..8 |-> IF n = 0 THEN Xor(r, Bits(b)) ELSE Shifted(g[n - 1], poly)]
             shifted == CHOOSE g : Steps(g)
             step == [n \in 1..8 |-> [v \in V |-> Shifted(v, poly)]]
  <1>1. AddByte(b, poly)[r] = shifted[8]
    BY DEF AddByte
  <1>2. first \in V
    <2>1. Bits(b) \in V
      BY DEF Bits
    <2> QED BY <2>1 DEF Xor
  <1>3. \A g : Steps(g) => \A n \in 0..8 : g[n] = IF n = 0 THEN first ELSE Shifted(g[n - 1], poly)
    BY Zenon
  <1>4. ASSUME NEW g, g = [n \in 0..8 |-> g[n]],
               \A n \in 0..8 : g[n] = IF n = 0 THEN first ELSE Shifted(g[n - 1], poly)
        PROVE  Steps(g)
    BY <1>4
  <1> HIDE DEF Steps, first
  <1>5. step \in [1..8 -> [V -> V]]
    BY ShiftedIs
  <1>6. \A n \in 1..8, v \in V : step[n][v] = Shifted(v, poly)
    OBVIOUS
  <1> HIDE DEF step
  <1>7. PICK g \in [0..8 -> V] : g[0] = first /\ \A n \in 1..8 : g[n] = step[n][g[n - 1]]
    <2>1. \E g \in [0..8 -> V] : Follows(g, first, step, 8)
      <3> HIDE DEF V
      <3> QED BY <1>2, <1>5, StepByStep
    <2> QED BY <2>1, Zenon DEF Follows
  <1>8. Steps(g)
    <2>1. \A n \in 0..8 : g[n] = IF n = 0 THEN first ELSE Shifted(g[n - 1], poly)
      <3> SUFFICES ASSUME NEW n \in 1..8 PROVE g[n] = Shifted(g[n - 1], poly)
        BY <1>7
      <3>1. g[n - 1] \in V
        <4> HIDE DEF V
        <4> QED BY <1>7
      <3> QED BY <1>6, <1>7, <3>1
    <2>2. g = [n \in 0..8 |-> g[n]]
      <3> HIDE DEF V
      <3> QED BY <1>7
    <2> QED BY <1>4, <2>1, <2>2
  <1>9. Steps(shifted)
    BY <1>8, Zenon
  <1> HIDE DEF shifted
  <1>10. /\ shifted[0] = first
         /\ \A n \in 1..8 : shifted[n] = Shifted(shifted[n - 1], poly)
    BY <1>3, <1>9
  <1>11. /\ shifted[1] = Shifted(shifted[0], poly) /\ shifted[2] = Shifted(shifted[1], poly)
         /\ shifted[3] = Shifted(shifted[2], poly) /\ shifted[4] = Shifted(shifted[3], poly)
         /\ shifted[5] = Shifted(shifted[4], poly) /\ shifted[6] = Shifted(shifted[5], poly)
         /\ shifted[7] = Shifted(shifted[6], poly) /\ shifted[8] = Shifted(shifted[7], poly)
    <2>1. /\ 1 - 1 = 0 /\ 2 - 1 = 1 /\ 3 - 1 = 2 /\ 4 - 1 = 3 /\ 5 - 1 = 4 /\ 6 - 1 = 5
          /\ 7 - 1 = 6 /\ 8 - 1 = 7
      OBVIOUS
    <2>2. \A n \in {1, 2, 3, 4, 5, 6, 7, 8} : n \in 1..8
      OBVIOUS
    <2> QED BY <1>10, <2>1, <2>2
  <1> QED BY <1>1, <1>10, <1>11 DEF Eight, first

(* So the register afterwards tells both the register before and the byte. *)
LEMMA AddByteType ==
    ASSUME NEW poly \in SUBSET (0..15), NEW b, NEW r \in SUBSET (0..15)
    PROVE  /\ Xor(r, Bits(b)) \in SUBSET (0..15)
           /\ AddByte(b, poly)[r] \in SUBSET (0..15)
  <1>1. Bits(b) \in SUBSET (0..15)
    BY DEF Bits
  <1>2. Xor(r, Bits(b)) \in SUBSET (0..15)
    BY <1>1 DEF Xor
  <1> QED BY <1>2, AddByteIs, EightIs

LEMMA AddByteDiffers ==
    ASSUME NEW poly \in SUBSET (0..15), 15 \in poly, NEW b,
           NEW r \in SUBSET (0..15), NEW q \in SUBSET (0..15),
           AddByte(b, poly)[r] = AddByte(b, poly)[q]
    PROVE  r = q
  <1>1. Xor(r, Bits(b)) \in SUBSET (0..15) /\ Xor(q, Bits(b)) \in SUBSET (0..15)
    BY AddByteType
  <1>2. Eight(Xor(r, Bits(b)), poly) = Eight(Xor(q, Bits(b)), poly)
    BY AddByteIs
  <1>3. Xor(r, Bits(b)) = Xor(q, Bits(b))
    BY <1>1, <1>2, EightDiffers
  <1> QED BY <1>3, XorCancels

LEMMA AddedDiffers ==
    ASSUME NEW poly \in SUBSET (0..15), 15 \in poly, NEW b \in Byte, NEW c \in Byte,
           NEW r \in SUBSET (0..15), AddByte(b, poly)[r] = AddByte(c, poly)[r]
    PROVE  b = c
  <1>1. Xor(r, Bits(b)) \in SUBSET (0..15) /\ Xor(r, Bits(c)) \in SUBSET (0..15)
    BY AddByteType
  <1>2. Eight(Xor(r, Bits(b)), poly) = Eight(Xor(r, Bits(c)), poly)
    BY AddByteIs
  <1>3. Xor(r, Bits(b)) = Xor(r, Bits(c))
    BY <1>1, <1>2, EightDiffers
  <1>4. Bits(b) = Bits(c)
    BY <1>3, XorCancels
  <1> QED BY <1>4, BitsDiffer

(* The register before the first byte and after each. *)
LEMMA CrcSteps ==
    ASSUME NEW poly \in SUBSET (0..15), 15 \in poly, NEW bytes \in Seq(Byte)
    PROVE  \E register \in [0..Len(bytes) -> SUBSET (0..15)] :
              /\ Crc(bytes, poly) = Number(register[Len(bytes)]) /\ register[0] = 0..15
              /\ \A n \in 1..Len(bytes) : register[n] = AddByte(bytes[n], poly)[register[n - 1]]
  <1> DEFINE V == SUBSET (0..15)
             len == Len(bytes)
             Steps(g) == g = [n \in 0..len |-> IF n = 0 THEN 0..15 ELSE AddByte(bytes[n], poly)[g[n - 1]]]
             register == CHOOSE g : Steps(g)
             step == [n \in 1..len |-> [v \in V |-> AddByte(bytes[n], poly)[v]]]
  <1>1. Crc(bytes, poly) = Number(register[len])
    BY DEF Crc
  <1>2. len \in Nat /\ \A n \in 1..len : bytes[n] \in Byte
    BY LenProperties, ElementOfSeq
  <1>3. \A g : Steps(g) =>
              \A n \in 0..len : g[n] = IF n = 0 THEN 0..15 ELSE AddByte(bytes[n], poly)[g[n - 1]]
    BY Zenon
  <1>4. ASSUME NEW g, g = [n \in 0..len |-> g[n]],
               \A n \in 0..len : g[n] = IF n = 0 THEN 0..15 ELSE AddByte(bytes[n], poly)[g[n - 1]]
        PROVE  Steps(g)
    BY <1>4
  <1> HIDE DEF Steps, len
  <1>5. \A n \in 1..len, v \in V : AddByte(bytes[n], poly)[v] \in V
    BY AddByteType
  <1>6. 0..15 \in V
    OBVIOUS
  <1> HIDE DEF V
  <1>7. step \in [1..len -> [V -> V]]
    BY <1>5
  <1>8. \A n \in 1..len, v \in V : step[n][v] = AddByte(bytes[n], poly)[v]
    OBVIOUS
  <1> HIDE DEF step
  <1>9. PICK g \in [0..len -> V] : g[0] = 0..15 /\ \A n \in 1..len : g[n] = step[n][g[n - 1]]
    <2>1. \E g \in [0..len -> V] : Follows(g, 0..15, step, len)
      BY <1>2, <1>6, <1>7, StepByStep
    <2> QED BY <2>1, Zenon DEF Follows
  <1>10. ASSUME NEW n \in 1..len PROVE g[n] = AddByte(bytes[n], poly)[g[n - 1]]
    <2>1. n - 1 \in 0..len
      BY <1>2
    <2>2. g[n - 1] \in V
      BY <1>9, <2>1
    <2> QED BY <1>8, <1>9, <2>2
  <1>11. Steps(g)
    <2>1. \A n \in 0..len : g[n] = IF n = 0 THEN 0..15 ELSE AddByte(bytes[n], poly)[g[n - 1]]
      <3> SUFFICES ASSUME NEW n \in 0..len
                   PROVE  g[n] = IF n = 0 THEN 0..15 ELSE AddByte(bytes[n], poly)[g[n - 1]]
        OBVIOUS
      <3>1. n # 0 => n \in 1..len
        BY <1>2
      <3> QED BY <1>9, <1>10, <3>1, Zenon
    <2>2. g = [n \in 0..len |-> g[n]]
      BY <1>9
    <2> QED BY <1>4, <2>1, <2>2
  <1>12. Steps(register)
    BY <1>11, Zenon
  <1> HIDE DEF register
  <1>13. \A n \in 0..len : register[n] = IF n = 0 THEN 0..15 ELSE AddByte(bytes[n], poly)[register[n - 1]]
    BY <1>3, <1>12
  <1> DEFINE S == {n \in 0..len : register[n] = g[n]}
  <1>14. 0 \in S
    <2>1. 0 \in 0..len
      BY <1>2
    <2>2. register[0] = 0..15
      BY <1>13, <2>1, Zenon
    <2> QED BY <1>9, <2>1, <2>2
  <1>15. ASSUME NEW n \in 1..len, n - 1 \in S PROVE n \in S
    <2>1. n \in 0..len /\ n # 0
      BY <1>2
    <2>2. register[n] = AddByte(bytes[n], poly)[register[n - 1]]
      BY <1>13, <2>1, Zenon
    <2>3. register[n - 1] = g[n - 1]
      BY <1>15
    <2> QED BY <1>10, <2>1, <2>2, <2>3
  <1> HIDE DEF S
  <1>16. len \in S
    <2>1. \A n \in 0..len : n \in S
      BY <1>2, <1>14, <1>15, EachStep
    <2> QED BY <1>2, <2>1
  <1>17. Crc(bytes, poly) = Number(g[len])
    BY <1>1, <1>16 DEF S
  <1>18. \E r \in [0..len -> V] :
            /\ Crc(bytes, poly) = Number(r[len]) /\ r[0] = 0..15
            /\ \A n \in 1..len : r[n] = AddByte(bytes[n], poly)[r[n - 1]]
    BY <1>9, <1>10, <1>17
  <1> QED BY <1>18, Zenon DEF V, len

(* One other byte makes another checksum. *)
LEMMA CrcDiffers ==
    ASSUME NEW poly \in SUBSET (0..15), 15 \in poly, NEW s \in Seq(Byte), NEW t \in Seq(Byte),
           Len(s) = Len(t), NEW i \in 1..Len(s), s[i] # t[i],
           \A j \in 1..Len(s) : j # i => s[j] = t[j]
    PROVE  Crc(s, poly) # Crc(t, poly)
  <1> DEFINE V == SUBSET (0..15)
             len == Len(s)
  <1>1. PICK x \in [0..Len(s) -> SUBSET (0..15)] :
            /\ Crc(s, poly) = Number(x[Len(s)]) /\ x[0] = 0..15
            /\ \A n \in 1..Len(s) : x[n] = AddByte(s[n], poly)[x[n - 1]]
    BY CrcSteps, Zenon
  <1>2. PICK y \in [0..Len(t) -> SUBSET (0..15)] :
            /\ Crc(t, poly) = Number(y[Len(t)]) /\ y[0] = 0..15
            /\ \A n \in 1..Len(t) : y[n] = AddByte(t[n], poly)[y[n - 1]]
    BY CrcSteps, Zenon
  <1>3. len \in Nat /\ \A n \in 1..len : s[n] \in Byte /\ t[n] \in Byte
    BY LenProperties, ElementOfSeq
  <1>4. /\ x \in [0..len -> V] /\ \A n \in 1..len : x[n] = AddByte(s[n], poly)[x[n - 1]]
        /\ y \in [0..len -> V] /\ \A n \in 1..len : y[n] = AddByte(t[n], poly)[y[n - 1]]
        /\ x[0] = y[0] /\ i \in 1..len /\ \A j \in 1..len : j # i => s[j] = t[j]
    BY <1>1, <1>2, Zenon
  <1>5. /\ Crc(s, poly) = Number(x[len]) /\ Crc(t, poly) = Number(y[len])
    BY <1>1, <1>2, Zenon
  <1> HIDE DEF len
  <1>6. ASSUME NEW n \in 1..len
        PROVE  /\ x[n - 1] \in V /\ y[n - 1] \in V
               /\ s[n] = t[n] => (x[n] = y[n] <=> x[n - 1] = y[n - 1])
               /\ s[n] # t[n] /\ x[n - 1] = y[n - 1] => x[n] # y[n]
    <2> HIDE DEF V
    <2>1. n - 1 \in 0..len
      BY <1>3
    <2>2. x[n - 1] \in V /\ y[n - 1] \in V
      BY <1>4, <2>1
    <2>3. /\ x[n] = AddByte(s[n], poly)[x[n - 1]] /\ y[n] = AddByte(t[n], poly)[y[n - 1]]
          /\ s[n] \in Byte /\ t[n] \in Byte
      BY <1>3, <1>4
    <2>4. ASSUME NEW b \in Byte, NEW c \in Byte, NEW r \in V, NEW q \in V
          PROVE  /\ AddByte(b, poly)[r] = AddByte(b, poly)[q] => r = q
                 /\ AddByte(b, poly)[r] = AddByte(c, poly)[r] => b = c
      <3>1. r \in SUBSET (0..15) /\ q \in SUBSET (0..15)
        BY DEF V
      <3>2. AddByte(b, poly)[r] = AddByte(b, poly)[q] => r = q
        BY <3>1, AddByteDiffers
      <3>3. AddByte(b, poly)[r] = AddByte(c, poly)[r] => b = c
        BY <3>1, AddedDiffers
      <3> QED BY <3>2, <3>3
    <2> QED BY <2>2, <2>3, <2>4
  <1> DEFINE S == {n \in 0..len : x[n] = y[n] <=> n < i}
  <1>7. 0 \in S
    <2>1. 0 \in 0..len /\ 0 < i
      BY <1>3, <1>4
    <2> QED BY <1>4, <2>1
  <1>8. ASSUME NEW n \in 1..len, n - 1 \in S PROVE n \in S
    <2>1. n \in 0..len /\ i \in Nat /\ n \in Nat
      BY <1>3, <1>4
    <2>2. x[n - 1] = y[n - 1] <=> n - 1 < i
      BY <1>8
    <2>3. CASE n = i
      <3>1. n - 1 < i /\ ~ (n < i)
        BY <2>1, <2>3
      <3>2. s[n] # t[n]
        BY <2>3
      <3>3. x[n] # y[n]
        BY <1>6, <2>2, <3>1, <3>2
      <3> QED BY <2>1, <3>1, <3>3
    <2>4. CASE n # i
      <3>1. n - 1 < i <=> n < i
        BY <2>1, <2>4
      <3>2. s[n] = t[n]
        BY <1>4, <2>4
      <3>3. x[n] = y[n] <=> x[n - 1] = y[n - 1]
        BY <1>6, <3>2
      <3> QED BY <2>1, <2>2, <3>1, <3>3
    <2> QED BY <2>3, <2>4
  <1> HIDE DEF S
  <1>9. len \in S
    <2>1. \A n \in 0..len : n \in S
      BY <1>3, <1>7, <1>8, EachStep
    <2> QED BY <1>3, <2>1
  <1>10. x[len] # y[len]
    <2>1. ~ (len < i)
      BY <1>3, <1>4
    <2> QED BY <1>9, <2>1 DEF S
  <1>11. x[len] \in V /\ y[len] \in V
    <2>1. len \in 0..len
      BY <1>3
    <2> HIDE DEF V
    <2> QED BY <1>4, <2>1
  <1> QED BY <1>5, <1>10, <1>11, NumberDiffers

LEMMA ChecksumDiffers ==
    ASSUME NEW s \in Seq(Byte), NEW t \in Seq(Byte), Len(s) = Len(t),
           NEW i \in 1..Len(s), s[i] # t[i], \A j \in 1..Len(s) : j # i => s[j] = t[j]
    PROVE  usGetCRC16(s) # usGetCRC16(t)
  <1> DEFINE poly == {0, 2, 4, 5, 6, 8, 12, 14, 15}
  <1>1. poly \in SUBSET (0..15) /\ 15 \in poly
    OBVIOUS
  <1>2. usGetCRC16(s) = Crc(s, poly) /\ usGetCRC16(t) = Crc(t, poly)
    BY Zenon DEF usGetCRC16
  <1> HIDE DEF poly
  <1> QED BY <1>1, <1>2, CrcDiffers

(* A packet that is longer than what came, or whose checksum is another, is  *)
(* not accepted.                                                             *)
LEMMA DamagedIs ==
    ASSUME NEW attr, IsAttr(attr), NEW data, NEW b, IsPacket(b, attr, data),
           NEW i \in 1..Len(b), NEW v \in Byte, Harmful(b, i, v)
    PROVE  ValidatePacket([b EXCEPT ![i] = v]) = 0
  <1> DEFINE h == HeaderSize(attr)
             n == Len(data)
             m == Len(b)
             syncs == RequestSyncs \cup ResponseSyncs
             a == [b EXCEPT ![i] = v]
             s == TypeAt(a[1])
             size == s + 2 + ShortAt(a, s + 1) + 2
             Bad == \/ a = <<>> \/ a[1] \notin syncs \/ Len(a) < s + 4
                    \/ a[s] % 16 \notin KnownTypes \/ size > Len(a)
                    \/ usGetCRC16(Prefix(a, size - 2)) # ShortAt(a, size - 1)
  <1>1. ValidatePacket(a) = IF Bad THEN 0 ELSE size
    BY Zenon DEF Parsed, ValidatePacket
  <1>2. h \in {5, 8}
    BY SizeIs
  <1>3. /\ n \in Nat /\ n \in HalfWord /\ m = h + n + 2 /\ m \in Nat /\ b \in Seq(Byte)
    BY LenProperties DEF IsPacket
  <1>4. \A j \in 1..m : b[j] \in Byte
    BY <1>3, ElementOfSeq
  <1>5. /\ a \in Seq(Byte) /\ Len(a) = m
        /\ \A j \in 1..m : a[j] = IF j = i THEN v ELSE b[j]
    <2>1. a \in Seq(Byte) /\ Len(a) = Len(b)
      BY <1>3, ExceptSeq
    <2>2. \A j \in 1..m : a[j] = IF j = i THEN v ELSE b[j]
      BY <1>3
    <2> QED BY <2>1, <2>2
  <1> HIDE DEF a
  <1>6. /\ v # b[i]
        /\ i = 1 => v \notin syncs
        /\ i \in {TypeAt(b[1]) + 1, TypeAt(b[1]) + 2} => v > b[i]
    BY Zenon DEF Harmful
  <1>7. TypeAt(b[1]) = h - 2
    <2>1. b[1] = Sync(attr.global, attr.response)
      BY DEF IsPacket, HasHeader
    <2> QED BY <2>1, SyncIs
  <1>8. b[h - 1] = Low(n) /\ b[h] = High(n) /\ Low(n) + 256 * High(n) = n
    BY <1>3, BytesValue DEF IsPacket
  <1> DEFINE crc == usGetCRC16(Prefix(b, m - 2))
  <1>9. b[m - 1] = Low(crc) /\ b[m] = High(crc) /\ Low(crc) + 256 * High(crc) = crc
    <2>1. b[m - 1] = Low(crc) /\ b[m] = High(crc)
      BY DEF IsPacket, EndsChecked
    <2>2. crc \in HalfWord
      BY ChecksumIs, Zenon
    <2> HIDE DEF crc
    <2> QED BY <2>1, <2>2, BytesValue
  <1>11. i \in 1..m /\ v \in Byte
    OBVIOUS
  <1> HIDE DEF h, n, m, syncs, crc
  <1>10. Bad
    <2> SUFFICES ASSUME a[1] \in syncs, ~ (size > Len(a)),
                        usGetCRC16(Prefix(a, size - 2)) = ShortAt(a, size - 1)
                 PROVE  FALSE
      OBVIOUS
    <2>1. i # 1 /\ s = h - 2
      <3>1. 1 \in 1..m
        BY <1>2, <1>3
      <3>2. i # 1
        <4>1. i = 1 => a[1] = v
          BY <1>5, <3>1
        <4> QED BY <1>6, <4>1
      <3>3. a[1] = b[1]
        BY <1>5, <3>1, <3>2
      <3> QED BY <1>7, <3>2, <3>3
    <2> HIDE DEF s
    <2>2. /\ h - 1 \in 1..m /\ h \in 1..m /\ s + 1 = h - 1 /\ s + 2 = h /\ (s + 1) + 1 = h
          /\ h - 1 # h
      BY <1>2, <1>3, <2>1
    <2>3. ShortAt(a, s + 1) = a[h - 1] + 256 * a[h]
      BY <2>2 DEF ShortAt
    <2>4. i \notin {h - 1, h}
      <3> SUFFICES ASSUME i \in {h - 1, h} PROVE FALSE
        OBVIOUS
      <3>1. v > b[i]
        BY <1>6, <1>7, <2>1, <2>2
      <3>2. ASSUME NEW low \in Byte, NEW high \in Byte, v > low, NEW r \in Nat, r = low + 256 * high
            PROVE  v + 256 * high > r
        BY <3>2 DEF Byte
      <3>3. ASSUME NEW low \in Byte, NEW high \in Byte, v > high, NEW r \in Nat, r = low + 256 * high
            PROVE  low + 256 * v > r
        BY <3>3 DEF Byte
      <3>4. b[h - 1] \in Byte /\ b[h] \in Byte /\ n = b[h - 1] + 256 * b[h]
        BY <1>4, <1>8, <2>2
      <3>5. CASE i = h - 1
        <4>1. a[h - 1] = v /\ a[h] = b[h] /\ v > b[h - 1]
          BY <1>5, <2>2, <3>1, <3>5
        <4>2. ShortAt(a, s + 1) > n
          <5>1. v + 256 * b[h] > n
            BY <1>3, <3>2, <3>4, <4>1
          <5> QED BY <2>3, <4>1, <5>1
        <4>3. ShortAt(a, s + 1) \in Int
          <5>1. a[h - 1] \in Byte /\ a[h] \in Byte
            BY <1>11, <3>4, <4>1
          <5>2. ASSUME NEW x \in Byte, NEW y \in Byte PROVE x + 256 * y \in Int
            BY DEF Byte
          <5> QED BY <2>3, <5>1, <5>2
        <4> QED BY <1>2, <1>3, <1>5, <2>1, <4>2, <4>3
      <3>6. CASE i = h
        <4>1. a[h - 1] = b[h - 1] /\ a[h] = v /\ v > b[h]
          BY <1>5, <2>2, <3>1, <3>6
        <4>2. ShortAt(a, s + 1) > n
          <5>1. b[h - 1] + 256 * v > n
            BY <1>3, <3>3, <3>4, <4>1
          <5> QED BY <2>3, <4>1, <5>1
        <4>3. ShortAt(a, s + 1) \in Int
          <5>1. a[h - 1] \in Byte /\ a[h] \in Byte
            BY <1>11, <3>4, <4>1
          <5>2. ASSUME NEW x \in Byte, NEW y \in Byte PROVE x + 256 * y \in Int
            BY DEF Byte
          <5> QED BY <2>3, <5>1, <5>2
        <4> QED BY <1>2, <1>3, <1>5, <2>1, <4>2, <4>3
      <3> QED BY <3>5, <3>6
    <2>5. ShortAt(a, s + 1) = n
      <3>1. a[h - 1] = b[h - 1] /\ a[h] = b[h]
        BY <1>5, <2>2, <2>4
      <3> QED BY <1>8, <2>3, <3>1
    <2>6. size = m
      BY <1>2, <1>3, <2>1, <2>5
    <2> HIDE DEF size
    <2>7. /\ m - 2 \in Nat /\ m - 2 \in 0..Len(a) /\ m - 2 \in 0..Len(b) /\ m - 2 <= Len(b)
          /\ m - 1 \in 1..m /\ m \in 1..m /\ (m - 1) + 1 = m /\ m - 1 # m
      BY <1>2, <1>3, <1>5 DEF m
    <2>8. ShortAt(a, m - 1) = a[m - 1] + 256 * a[m]
      BY <2>7 DEF ShortAt
    <2>9. CASE i \in 1..m - 2
      <3> DEFINE p == Prefix(b, m - 2)
                 q == Prefix(a, m - 2)
      <3>1. p \in Seq(Byte) /\ Len(p) = m - 2 /\ \A j \in 1..m - 2 : p[j] = b[j]
        BY <1>3, <2>7, PrefixOf
      <3>2. q \in Seq(Byte) /\ Len(q) = m - 2 /\ \A j \in 1..m - 2 : q[j] = a[j]
        BY <1>5, <2>7, PrefixOf
      <3>3. \A j \in 1..m - 2 : j \in 1..m
        BY <2>7
      <3> HIDE DEF p, q
      <3>4. p[i] # q[i] /\ \A j \in 1..m - 2 : j # i => p[j] = q[j]
        BY <1>5, <1>6, <2>9, <3>1, <3>2, <3>3
      <3>5. usGetCRC16(p) # usGetCRC16(q)
        <4>1. i \in 1..Len(p) /\ Len(p) = Len(q) /\ \A j \in 1..Len(p) : j # i => p[j] = q[j]
          BY <2>9, <3>1, <3>2, <3>4
        <4> QED BY <3>1, <3>2, <3>4, <4>1, ChecksumDiffers
      <3>6. i # m - 1 /\ i # m
        <4>1. m \in Nat
          BY <1>3 DEF m
        <4>2. ASSUME NEW len \in Nat, NEW j \in 1..len - 2 PROVE j # len - 1 /\ j # len
          OBVIOUS
        <4> QED BY <2>9, <4>1, <4>2
      <3>7. a[m - 1] = b[m - 1] /\ a[m] = b[m]
        BY <1>5, <2>7, <3>6
      <3>8. ShortAt(a, m - 1) = usGetCRC16(p)
        BY <1>9, <2>8, <3>7 DEF p, crc
      <3> QED BY <2>6, <3>5, <3>8 DEF q
    <2>10. CASE i \in {m - 1, m}
      <3>1. Prefix(a, m - 2) = Prefix(b, m - 2)
        <4>1. \A j \in 1..m - 2 : j \in 1..m /\ j # i
          BY <2>7, <2>10
        <4>2. \A j \in 1..m - 2 : a[j] = b[j]
          BY <1>5, <4>1
        <4> QED BY <1>3, <1>5, <2>7, <4>2, SamePrefix
      <3>2. ShortAt(a, m - 1) = b[m - 1] + 256 * b[m]
        BY <1>9, <2>6, <3>1 DEF crc
      <3>3. ASSUME NEW w \in Byte, NEW x \in Byte, NEW y \in Byte
            PROVE  /\ w + 256 * y = x + 256 * y => w = x
                   /\ y + 256 * w = y + 256 * x => w = x
        BY DEF Byte
      <3>4. b[m - 1] \in Byte /\ b[m] \in Byte
        BY <1>4, <2>7
      <3>5. CASE i = m - 1
        <4>1. a[m - 1] = v /\ a[m] = b[m]
          BY <1>5, <2>7, <3>5
        <4>2. v = b[m - 1]
          BY <2>8, <3>2, <3>3, <3>4, <4>1
        <4> QED BY <1>6, <3>5, <4>2
      <3>6. CASE i = m
        <4>1. a[m - 1] = b[m - 1] /\ a[m] = v
          BY <1>5, <2>7, <3>6
        <4>2. v = b[m]
          BY <2>8, <3>2, <3>3, <3>4, <4>1
        <4> QED BY <1>6, <3>6, <4>2
      <3> QED BY <2>10, <3>5, <3>6
    <2>11. i \in 1..m - 2 \/ i \in {m - 1, m}
      BY <1>3, <1>11
    <2> QED BY <2>9, <2>10, <2>11
  <1> HIDE DEF Bad
  <1> QED BY <1>1, <1>10 DEF a

-----------------------------------------------------------------------------
(* The packet unit. *)

(* A packet in the making has the header of its attributes and the data that *)
(* were taken, and two bytes of room; a message stays within its room; what  *)
(* is sent is a packet of the attributes and the data, which are the message *)
(* if there is one.                                                          *)
PacketInv ==
    /\ packetPhase \in {"none", "building", "message", "sent"}
    /\ packetPhase = "none" => packetData = <<>>
    /\ packetPhase # "none" =>
          IsAttr(packetAttr) /\ packet.size \in Nat /\ packet.size < 65536
    /\ packetPhase \in {"building", "message"} =>
          IsOpen(packet.bytes, packetAttr, packetData) /\ Len(packet.bytes) + 2 <= packet.size
    /\ packetPhase \in {"none", "building"} =>
          xMessage.max = 0 /\ puts \in Nat /\ (puts = 0 => packetData = <<>>)
    /\ packetPhase = "message" =>
          /\ packetData = <<>> /\ xMessage.bytes \in Seq(Byte)
          /\ xMessage.max = MessageRoom(usGetPacketFreeSpace(packet))
          /\ Len(xMessage.bytes) <= xMessage.max
    /\ packetPhase = "sent" =>
          /\ IsPacket(packet.bytes, packetAttr, packetData) /\ Len(packet.bytes) <= packet.size
          /\ xMessage.max > 0 =>
                xMessage.bytes \in Seq(Byte) /\ Len(xMessage.bytes) \in HalfWord
                /\ packetData = Packed(xMessage.bytes)

LEMMA FreeIs ==
    ASSUME NEW p, Len(p.bytes) \in Nat, p.size \in Nat, Len(p.bytes) + 2 <= p.size
    PROVE  usGetPacketFreeSpace(p) \in Nat /\ usGetPacketFreeSpace(p) = p.size - (Len(p.bytes) + 2)
  BY DEF usGetPacketFreeSpace

LEMMA OpenSize ==
    ASSUME NEW attr, NEW b, NEW data, IsOpen(b, attr, data)
    PROVE  /\ Len(b) \in Nat /\ Len(data) \in Nat /\ Len(data) <= Len(b) /\ Len(b) >= 5
           /\ data \in Seq(Byte)
  <1>1. b \in Seq(Byte) /\ data \in Seq(Byte) /\ Len(b) = HeaderSize(attr) + Len(data)
    BY DEF IsOpen
  <1>2. Len(b) \in Nat /\ Len(data) \in Nat
    BY <1>1, LenProperties
  <1> QED BY <1>1, <1>2, SizeIs

LEMMA AttrIs ==
    ASSUME NEW attr \in PacketAttrs
    PROVE  IsAttr(attr)
  <1>1. PacketAttrs \subseteq [global : BOOLEAN, response : BOOLEAN, address : Nat,
                              type : {0, 1, 2, 3, 15}, error : 0..15]
    BY PacketAssumption
  <1>2. attr \in [global : BOOLEAN, response : BOOLEAN, address : Nat,
                 type : {0, 1, 2, 3, 15}, error : 0..15]
    BY <1>1
  <1>3. attr.address \div 65536 < 65536
    BY PacketAssumption
  <1> QED BY <1>2, <1>3 DEF IsAttr, KnownTypes

LEMMA InitPacketStep ==
    ASSUME PacketInv, InitPacket
    PROVE  PacketInv'
  <1>1. PICK attr \in PacketAttrs, size \in BufferSizes :
            Fits(attr, size) /\ packetAttr' = attr /\ packet' = [bytes |-> Header(attr), size |-> size]
    BY DEF InitPacket
  <1>2. packetPhase = "none" /\ packetPhase' = "building" /\ UNCHANGED <<packetData, xMessage, puts>>
    BY DEF InitPacket
  <1>3. packetData = <<>> /\ xMessage.max = 0 /\ puts \in Nat
    BY <1>2 DEF PacketInv
  <1>4. IsAttr(attr)
    BY AttrIs
  <1>5. size \in Nat /\ size < 65536
    BY PacketAssumption
  <1>6. packet'.bytes = Header(attr) /\ packet'.size = size
    BY <1>1
  <1>7. IsOpen(packet'.bytes, packetAttr', packetData')
    BY <1>1, <1>2, <1>3, <1>4, <1>6, HeaderOpen
  <1>8. Len(Header(attr)) + 2 <= size
    <2>1. Len(Header(attr)) = HeaderSize(attr)
      BY <1>4, HeaderIs
    <2> QED BY <1>1, <1>5, <2>1 DEF Fits, HeaderSize
  <1>9. IsAttr(packetAttr') /\ packet'.size \in Nat /\ packet'.size < 65536
    BY <1>1, <1>4, <1>5, <1>6
  <1> QED BY <1>2, <1>3, <1>6, <1>7, <1>8, <1>9 DEF PacketInv

LEMMA PutStep ==
    ASSUME PacketInv, NEW put \in PacketPuts, Put(put)
    PROVE  PacketInv'
  <1> DEFINE free == usGetPacketFreeSpace(packet)
             taken == Taken(put, free)
  <1>1. /\ packetPhase = "building" /\ packetPhase' = "building"
        /\ packet' = Extended(packet, taken) /\ packetData' = packetData \o taken
        /\ puts' = puts + 1 /\ UNCHANGED <<packetAttr, xMessage>>
    BY DEF Put
  <1>2. /\ IsAttr(packetAttr) /\ packet.size \in Nat /\ packet.size < 65536
        /\ IsOpen(packet.bytes, packetAttr, packetData) /\ Len(packet.bytes) + 2 <= packet.size
        /\ xMessage.max = 0 /\ puts \in Nat
    BY <1>1 DEF PacketInv
  <1>3. Len(packet.bytes) \in Nat
    BY <1>2, OpenSize
  <1>4. free \in Nat /\ free = packet.size - (Len(packet.bytes) + 2)
    BY <1>2, <1>3, FreeIs
  <1> HIDE DEF free
  <1>5. taken \in Seq(Byte) /\ Len(taken) <= free
    <2>1. put.kind \in {"data", "string", "value"} /\ put.bytes \in Seq(Byte)
      BY PacketAssumption
    <2> QED BY <1>4, <2>1, TakenIs
  <1> HIDE DEF taken
  <1>6. packet'.bytes = packet.bytes \o taken /\ packet'.size = packet.size
    BY <1>1 DEF Extended
  <1>7. /\ IsOpen(packet.bytes \o taken, packetAttr, packetData \o taken)
        /\ Len(packet.bytes \o taken) = Len(packet.bytes) + Len(taken)
    BY <1>2, <1>5, ExtendedIs
  <1>8. Len(packet.bytes \o taken) + 2 <= packet.size
    <2>1. Len(taken) \in Nat
      BY <1>5, LenProperties
    <2> QED BY <1>2, <1>3, <1>4, <1>5, <1>7, <2>1
  <1>9. puts' \in Nat /\ puts' # 0
    BY <1>1, <1>2
  <1>10. IsOpen(packet'.bytes, packetAttr', packetData')
    BY <1>1, <1>6, <1>7
  <1>11. Len(packet'.bytes) + 2 <= packet'.size
    BY <1>6, <1>8
  <1>12. IsAttr(packetAttr') /\ packet'.size \in Nat /\ packet'.size < 65536 /\ xMessage'.max = 0
    BY <1>1, <1>2, <1>6
  <1> QED BY <1>1, <1>9, <1>10, <1>11, <1>12 DEF PacketInv

(* The attributes with the error code of a response. *)
WithCode(attr, code) ==
    [global |-> attr.global, response |-> attr.response, address |-> attr.address,
     type |-> attr.type, error |-> IF attr.response THEN code % 16 ELSE attr.error]

LEMMA RefuseIs ==
    ASSUME NEW attr, IsAttr(attr), NEW p, NEW data, IsOpen(p.bytes, attr, data), NEW code \in {0, 17}
    PROVE  /\ IsAttr(WithCode(attr, code))
           /\ IsOpen(SetRespErrorCode(p, code).bytes, WithCode(attr, code), data)
           /\ Len(SetRespErrorCode(p, code).bytes) = Len(p.bytes)
           /\ SetRespErrorCode(p, code).size = p.size
  <1> DEFINE new == WithCode(attr, code)
             b == p.bytes
             h == HeaderSize(attr)
             e == code % 16
             q == SetRespErrorCode(p, code)
  <1>1. e \in 0..15
    OBVIOUS
  <1>2. /\ attr.global \in BOOLEAN /\ attr.response \in BOOLEAN /\ attr.address \in Nat
        /\ attr.type \in KnownTypes /\ attr.error \in 0..15 /\ attr.address \div 65536 < 65536
    BY DEF IsAttr
  <1>3. /\ new.global = attr.global /\ new.response = attr.response /\ new.address = attr.address
        /\ new.type = attr.type /\ new.error = IF attr.response THEN e ELSE attr.error
    BY DEF WithCode
  <1> HIDE DEF e
  <1>4. IsAttr(new)
    <2>1. (IF attr.response THEN e ELSE attr.error) \in 0..15
      BY <1>1, <1>2
    <2>2. new \in [global : BOOLEAN, response : BOOLEAN, address : Nat, type : KnownTypes, error : 0..15]
      BY <1>2, <2>1 DEF e, WithCode
    <2> QED BY <1>2, <1>3, <2>2 DEF IsAttr
  <1> HIDE DEF new
  <1>5. HeaderSize(new) = h
    BY <1>3 DEF HeaderSize
  <1>6. b[1] = Sync(attr.global, attr.response)
    BY DEF IsOpen, HasHeader
  <1>7. TypeAt(b[1]) = h - 2 /\ (b[1] \in ResponseSyncs <=> attr.response)
    BY <1>6, SyncIs
  <1>8. CASE ~attr.response
    <2>1. q = p
      BY <1>7, <1>8 DEF SetRespErrorCode
    <2>2. new.error = attr.error
      BY <1>3, <1>8
    <2>3. HasHeader(b, new)
      <3>1. HasHeader(b, attr)
        BY DEF IsOpen
      <3> QED BY <1>3, <1>5, <2>2, <3>1, Zenon DEF HasHeader
    <2>4. IsOpen(b, new, data)
      BY <1>5, <2>3, Zenon DEF IsOpen, HasData
    <2> QED BY <1>4, <2>1, <2>4, Zenon DEF new
  <1>9. CASE attr.response
    <2> DEFINE c == [b EXCEPT ![h - 2] = (b[h - 2] % 16) + 16 * e]
    <2>1. q = [bytes |-> c, size |-> p.size]
      <3> DEFINE s == TypeAt(b[1])
      <3>1. q = [bytes |-> [b EXCEPT ![s] = (b[s] % 16) + 16 * (code % 16)], size |-> p.size]
        BY <1>7, <1>9 DEF SetRespErrorCode
      <3>2. s = h - 2
        BY <1>7
      <3> HIDE DEF s, b, h, q
      <3> QED BY <3>1, <3>2, Zenon DEF e
    <2>2. q.bytes = c /\ q.size = p.size
      BY <2>1
    <2>3. b[h - 2] % 16 = attr.type
      <3>1. b[h - 2] = attr.type + 16 * attr.error
        BY DEF IsOpen, HasHeader
      <3>2. (attr.type + 16 * attr.error) % 16 = attr.type
        BY CodeIs
      <3> QED BY <3>1, <3>2
    <2>4. (b[h - 2] % 16) + 16 * e = new.type + 16 * new.error
      BY <1>3, <1>9, <2>3
    <2>5. new.type + 16 * new.error \in Byte
      <3>1. new.type \in 0..15 /\ new.error \in 0..15
        BY <1>4 DEF IsAttr, KnownTypes
      <3> QED BY <3>1 DEF Byte
    <2>6. /\ h \in {5, 8} /\ b \in Seq(Byte) /\ Len(b) \in Nat /\ Len(b) = h + Len(data)
          /\ Len(data) \in Nat
      BY SizeIs, OpenSize DEF IsOpen
    <2>7. HasHeader(b, attr) /\ HasData(b, attr, data)
      BY DEF IsOpen
    <2> DEFINE v == new.type + 16 * new.error
    <2>8. c = [b EXCEPT ![h - 2] = v]
      BY <2>4, Zenon
    <2> HIDE DEF q, c, h, b, v
    <2>9. h - 2 \in 1..Len(b)
      BY <2>6
    <2>10. /\ c \in Seq(Byte) /\ Len(c) = Len(b)
           /\ \A j \in 1..Len(b) : c[j] = IF j = h - 2 THEN v ELSE b[j]
      <3>1. v \in Byte
        BY <2>5 DEF v
      <3> QED BY <2>6, <2>8, <2>9, <3>1, ExceptSeq
    <2>11. HasHeader(c, new)
      <3>1. c[h - 2] = new.type + 16 * new.error
        BY <2>9, <2>10 DEF v
      <3>2. c[1] = b[1]
        <4>1. 1 \in 1..Len(b) /\ 1 # h - 2
          BY <2>6
        <4> QED BY <2>10, <4>1
      <3>3. attr.global => \A i \in 1..4 : c[1 + i] = b[1 + i]
        <4> SUFFICES ASSUME attr.global, NEW i \in 1..4 PROVE c[1 + i] = b[1 + i]
          OBVIOUS
        <4>1. h = 8
          BY DEF h, HeaderSize
        <4>2. 1 + i \in 1..Len(b) /\ 1 + i # h - 2
          BY <2>6, <4>1
        <4> QED BY <2>10, <4>2
      <3>4. ~attr.global => c[2] = b[2]
        <4>1. 2 \in 1..Len(b) /\ 2 # h - 2
          BY <2>6
        <4> QED BY <2>10, <4>1
      <3> QED BY <1>3, <1>5, <1>6, <2>7, <3>1, <3>2, <3>3, <3>4 DEF HasHeader, h
    <2>12. \A i \in 1..Len(data) : c[h + i] = data[i]
      <3> SUFFICES ASSUME NEW i \in 1..Len(data) PROVE c[h + i] = data[i]
        OBVIOUS
      <3>1. h + i \in 1..Len(b) /\ h + i # h - 2
        BY <2>6
      <3>2. c[h + i] = b[h + i]
        BY <2>10, <3>1
      <3>3. b[h + i] = data[i]
        BY <2>7 DEF HasData, h
      <3> QED BY <3>2, <3>3
    <2>13. IsOpen(c, new, data)
      <3>1. data \in Seq(Byte)
        BY DEF IsOpen
      <3>2. HasData(c, new, data)
        BY <1>5, <2>12 DEF HasData
      <3>3. Len(c) = HeaderSize(new) + Len(data)
        BY <1>5, <2>6, <2>10
      <3> QED BY <2>10, <2>11, <3>1, <3>2, <3>3, Zenon DEF IsOpen
    <2> QED BY <1>4, <2>2, <2>10, <2>13 DEF q, b, new
  <1> QED BY <1>2, <1>8, <1>9

LEMMA RefuseStep ==
    ASSUME PacketInv, NEW code \in {0, 17}, Refuse(code)
    PROVE  PacketInv'
  <1>1. /\ packetPhase = "building" /\ packetPhase' = "building"
        /\ packet' = SetRespErrorCode(packet, code)
        /\ UNCHANGED <<packetData, xMessage, puts>>
    BY DEF Refuse
  <1>2. packetAttr' = WithCode(packetAttr, code)
    BY Zenon DEF Refuse, WithCode
  <1>3. /\ IsAttr(packetAttr) /\ packet.size \in Nat /\ packet.size < 65536
        /\ IsOpen(packet.bytes, packetAttr, packetData) /\ Len(packet.bytes) + 2 <= packet.size
        /\ xMessage.max = 0 /\ puts \in Nat /\ (puts = 0 => packetData = <<>>)
    BY <1>1 DEF PacketInv
  <1>4. /\ IsAttr(WithCode(packetAttr, code))
        /\ IsOpen(SetRespErrorCode(packet, code).bytes, WithCode(packetAttr, code), packetData)
        /\ Len(SetRespErrorCode(packet, code).bytes) = Len(packet.bytes)
        /\ SetRespErrorCode(packet, code).size = packet.size
    <2>1. IsAttr(packetAttr) /\ IsOpen(packet.bytes, packetAttr, packetData) /\ code \in {0, 17}
      BY <1>3
    <2> QED BY <2>1, RefuseIs
  <1>5. /\ IsAttr(packetAttr') /\ IsOpen(packet'.bytes, packetAttr', packetData)
        /\ Len(packet'.bytes) = Len(packet.bytes) /\ packet'.size = packet.size
    BY <1>1, <1>2, <1>4
  <1> QED BY <1>1, <1>3, <1>5 DEF PacketInv

(* A packet with room for the checksum becomes one that is whole. *)
LEMMA AssembledFits ==
    ASSUME NEW attr, IsAttr(attr), NEW p, NEW data, IsOpen(p.bytes, attr, data),
           p.size \in HalfWord, Len(p.bytes) + 2 <= p.size
    PROVE  /\ IsPacket(Assembled(p).bytes, attr, data) /\ Assembled(p).size = p.size
           /\ Len(Assembled(p).bytes) <= p.size
  <1>1. Len(p.bytes) \in Nat /\ Len(data) \in Nat /\ Len(data) <= Len(p.bytes)
    BY OpenSize
  <1>2. Len(data) \in HalfWord
    <2>1. Len(data) < 65536
      BY <1>1 DEF HalfWord
    <2> QED BY <1>1, <2>1, HalfIs
  <1>3. /\ IsPacket(Assembled(p).bytes, attr, data)
        /\ Len(Assembled(p).bytes) = Len(p.bytes) + 2
        /\ Assembled(p).size = p.size
    BY <1>2, AssembledIs
  <1> QED BY <1>1, <1>3 DEF HalfWord

LEMMA AssembleStep ==
    ASSUME PacketInv, Assemble
    PROVE  PacketInv'
  <1>1. /\ packetPhase = "building" /\ packetPhase' = "sent"
        /\ packet' = Assembled(packet)
        /\ UNCHANGED <<packetAttr, packetData, xMessage, puts>>
    BY DEF Assemble
  <1>2. /\ IsAttr(packetAttr) /\ packet.size \in Nat /\ packet.size < 65536
        /\ IsOpen(packet.bytes, packetAttr, packetData) /\ Len(packet.bytes) + 2 <= packet.size
        /\ xMessage.max = 0
    BY <1>1 DEF PacketInv
  <1>3. /\ IsPacket(packet'.bytes, packetAttr, packetData) /\ packet'.size = packet.size
        /\ Len(packet'.bytes) <= packet.size
    <2>1. packet.size \in HalfWord
      BY <1>2, HalfIs
    <2> QED BY <1>1, <1>2, <2>1, AssembledFits
  <1> QED BY <1>1, <1>2, <1>3 DEF PacketInv

LEMMA OpenMessageStep ==
    ASSUME PacketInv, OpenMessage
    PROVE  PacketInv'
  <1>1. /\ packetPhase = "building" /\ packetPhase' = "message" /\ puts = 0
        /\ usGetPacketFreeSpace(packet) >= BlockSize
        /\ xMessage' = [bytes |-> <<>>, max |-> MessageRoom(usGetPacketFreeSpace(packet))]
        /\ UNCHANGED <<packetAttr, packet, packetData, puts>>
    BY DEF OpenMessage
  <1>2. /\ IsAttr(packetAttr) /\ packet.size \in Nat /\ packet.size < 65536
        /\ IsOpen(packet.bytes, packetAttr, packetData) /\ Len(packet.bytes) + 2 <= packet.size
        /\ packetData = <<>>
    BY <1>1 DEF PacketInv
  <1> DEFINE free == usGetPacketFreeSpace(packet)
  <1>3. free \in Nat
    <2>1. Len(packet.bytes) \in Nat
      BY <1>2, OpenSize
    <2> QED BY <1>2, <2>1, FreeIs
  <1>4. <<>> \in Seq(Byte) /\ Len(<<>>) = 0
    OBVIOUS
  <1>5. 0 <= MessageRoom(free)
    <2>1. free >= 16
      BY <1>1 DEF BlockSize
    <2> HIDE DEF free
    <2>2. free \div 16 >= 1
      BY <1>3, <2>1
    <2> QED BY <1>3, <2>2 DEF MessageRoom, BlockSize
  <1>6. /\ xMessage'.bytes = <<>> /\ xMessage'.max = MessageRoom(free)
    BY <1>1
  <1>7. xMessage'.bytes \in Seq(Byte) /\ Len(xMessage'.bytes) <= xMessage'.max
    BY <1>4, <1>5, <1>6
  <1>8. usGetPacketFreeSpace(packet)' = free
    BY <1>1, Zenon DEF usGetPacketFreeSpace
  <1> HIDE DEF free
  <1> QED BY <1>1, <1>2, <1>6, <1>7, <1>8 DEF PacketInv, free

LEMMA MessagePutStep ==
    ASSUME PacketInv, NEW put \in PacketPuts, MessagePut(put)
    PROVE  PacketInv'
  <1> DEFINE free == usCheckMessageFreeSize
             taken == Taken(put, free)
             old == xMessage.bytes
  <1>1. /\ packetPhase = "message" /\ packetPhase' = "message"
        /\ xMessage' = [bytes |-> old \o taken, max |-> xMessage.max]
        /\ UNCHANGED <<packetAttr, packet, packetData>>
    BY DEF MessagePut
  <1>2. /\ IsAttr(packetAttr) /\ packet.size \in Nat /\ packet.size < 65536
        /\ IsOpen(packet.bytes, packetAttr, packetData) /\ Len(packet.bytes) + 2 <= packet.size
        /\ packetData = <<>> /\ old \in Seq(Byte)
        /\ xMessage.max = MessageRoom(usGetPacketFreeSpace(packet))
        /\ Len(old) <= xMessage.max
    BY <1>1 DEF PacketInv
  <1>3. Len(old) \in Nat /\ xMessage.max \in Nat
    <2>1. Len(packet.bytes) \in Nat
      BY <1>2, OpenSize
    <2>2. usGetPacketFreeSpace(packet) \in Nat
      BY <1>2, <2>1, FreeIs
    <2>3. Len(old) \in Nat
      BY <1>2, LenProperties
    <2>4. xMessage.max \in Int
      BY <1>2, <2>2 DEF MessageRoom, BlockSize
    <2> QED BY <1>2, <2>3, <2>4
  <1>4. free \in Nat /\ Len(old) + free <= xMessage.max
    BY <1>2, <1>3 DEF usCheckMessageFreeSize
  <1> HIDE DEF free, old
  <1>5. taken \in Seq(Byte) /\ Len(taken) <= free
    <2>1. put.kind \in {"data", "string", "value"} /\ put.bytes \in Seq(Byte)
      BY PacketAssumption
    <2> QED BY <1>4, <2>1, TakenIs
  <1> HIDE DEF taken
  <1>6. old \o taken \in Seq(Byte) /\ Joins(old \o taken, old, taken)
    BY <1>2, <1>5, ConcatIs
  <1>7. Len(old \o taken) <= xMessage.max
    <2>1. Len(taken) \in Nat
      BY <1>5, LenProperties
    <2> QED BY <1>3, <1>4, <1>5, <1>6, <2>1 DEF Joins
  <1>8. xMessage'.bytes = old \o taken /\ xMessage'.max = xMessage.max
    BY <1>1
  <1>9. usGetPacketFreeSpace(packet)' = usGetPacketFreeSpace(packet)
    BY <1>1, Zenon DEF usGetPacketFreeSpace
  <1> QED BY <1>1, <1>2, <1>6, <1>7, <1>8, <1>9 DEF PacketInv

LEMMA PackMessageStep ==
    ASSUME PacketInv, PackMessage
    PROVE  PacketInv'
  <1> DEFINE free == usGetPacketFreeSpace(packet)
             msg == xMessage.bytes
             n == Len(msg)
             packed == Packed(msg)
             bytes == Prefix(packed, Smaller(Len(packed), free))
  <1>1. /\ packetPhase = "message" /\ UNCHANGED <<packetAttr, xMessage, puts>>
        /\ IF n + 6 > free
           THEN packetPhase' = "failed" /\ UNCHANGED <<packet, packetData>>
           ELSE /\ packetPhase' = "sent" /\ packet' = Assembled(Extended(packet, bytes))
                /\ packetData' = bytes
    BY DEF PackMessage
  <1>2. /\ IsAttr(packetAttr) /\ packet.size \in Nat /\ packet.size < 65536
        /\ IsOpen(packet.bytes, packetAttr, packetData) /\ Len(packet.bytes) + 2 <= packet.size
        /\ packetData = <<>> /\ msg \in Seq(Byte)
        /\ xMessage.max = MessageRoom(free)
        /\ n <= xMessage.max
    BY <1>1 DEF PacketInv
  <1>3. Len(packet.bytes) \in Nat /\ Len(packet.bytes) >= 5
    BY <1>2, OpenSize
  <1>4. free \in Nat /\ free = packet.size - (Len(packet.bytes) + 2)
    BY <1>2, <1>3, FreeIs
  <1>5. n \in Nat
    BY <1>2, LenProperties
  <1> HIDE DEF free, msg, n
  <1>6. BlockCount(n) * BlockSize <= free /\ n + 6 <= free
    BY <1>2, <1>4, <1>5, BlocksFit
  <1>7. n \in HalfWord
    <2>1. n < 65536
      BY <1>2, <1>3, <1>4, <1>5, <1>6
    <2> QED BY <1>5, <2>1, HalfIs
  <1>8. packed \in Seq(Byte) /\ Len(packed) = BlockCount(n) * BlockSize
    BY <1>2, <1>7, PackedIs DEF n
  <1> HIDE DEF packed
  <1>9. bytes = packed
    <2>1. Len(packed) \in Nat /\ Smaller(Len(packed), free) = Len(packed)
      <3>1. Len(packed) \in Nat /\ Len(packed) <= free
        BY <1>6, <1>8, LenProperties
      <3> QED BY <1>4, <3>1 DEF Smaller
    <2> DEFINE p == Prefix(packed, Len(packed))
    <2>2. p \in Seq(Byte) /\ Len(p) = Len(packed) /\ \A i \in 1..Len(packed) : p[i] = packed[i]
      <3>1. Len(packed) \in 0..Len(packed)
        BY <2>1
      <3> QED BY <1>8, <3>1, PrefixOf
    <2> HIDE DEF p
    <2>3. p = packed
      BY <1>8, <2>2, SeqEqual
    <2> QED BY <2>1, <2>3 DEF p
  <1> HIDE DEF bytes
  <1>10. /\ packetPhase' = "sent" /\ packet' = Assembled(Extended(packet, packed))
         /\ packetData' = packed
    <2>1. ~ (n + 6 > free)
      BY <1>4, <1>5, <1>6
    <2> QED BY <1>1, <1>9, <2>1
  <1> DEFINE q == Extended(packet, packed)
  <1>11. q.bytes = packet.bytes \o packed /\ q.size = packet.size
    BY DEF Extended
  <1>12. IsOpen(q.bytes, packetAttr, packed) /\ Len(q.bytes) = Len(packet.bytes) + Len(packed)
    <2>1. /\ IsOpen(packet.bytes \o packed, packetAttr, packetData \o packed)
          /\ Len(packet.bytes \o packed) = Len(packet.bytes) + Len(packed)
      <3>1. packed \in Seq(Byte) /\ IsOpen(packet.bytes, packetAttr, packetData)
        BY <1>2, <1>8
      <3> QED BY <3>1, ExtendedIs
    <2>2. packetData \o packed = packed
      BY <1>2, <1>8
    <2> QED BY <1>11, <2>1, <2>2
  <1>13. Len(q.bytes) + 2 <= q.size /\ q.size \in Nat /\ q.size < 65536
    <2>1. Len(packed) \in Nat
      BY <1>8, LenProperties
    <2> QED BY <1>2, <1>3, <1>4, <1>6, <1>8, <1>11, <1>12, <2>1
  <1> HIDE DEF q
  <1>14. /\ IsPacket(Assembled(q).bytes, packetAttr, packed) /\ Assembled(q).size = q.size
         /\ Len(Assembled(q).bytes) <= q.size
    <2>1. /\ IsAttr(packetAttr) /\ IsOpen(q.bytes, packetAttr, packed)
          /\ Len(q.bytes) + 2 <= q.size
      BY <1>2, <1>12, <1>13
    <2>2. q.size \in HalfWord
      BY <1>13, HalfIs
    <2> QED BY <2>1, <2>2, AssembledFits, Zenon
  <1>15. /\ IsPacket(packet'.bytes, packetAttr', packetData') /\ packet'.size = packet.size
         /\ Len(packet'.bytes) <= packet'.size
    BY <1>1, <1>10, <1>11, <1>14 DEF q
  <1>16. /\ xMessage'.bytes \in Seq(Byte) /\ Len(xMessage'.bytes) \in HalfWord
         /\ packetData' = Packed(xMessage'.bytes)
    BY <1>1, <1>2, <1>7, <1>10 DEF packed, msg, n
  <1> QED BY <1>1, <1>2, <1>10, <1>15, <1>16 DEF PacketInv

LEMMA PacketStep == PacketInv /\ [PacketNext]_packetVars => PacketInv'
  <1> SUFFICES ASSUME PacketInv, [PacketNext]_packetVars PROVE PacketInv'
    OBVIOUS
  <1>1. CASE UNCHANGED packetVars
    BY <1>1 DEF PacketInv, packetVars, usGetPacketFreeSpace
  <1> QED BY <1>1, InitPacketStep, PutStep, RefuseStep, AssembleStep, OpenMessageStep,
             MessagePutStep, PackMessageStep DEF PacketNext

LEMMA PacketInvariance == Spec => []PacketInv
  <1>1. Init => PacketInv
    BY DEF Init, PacketInit, PacketInv
  <1>2. [Next]_vars => [PacketNext]_packetVars
    BY DEF Next, Idle, vars, packetVars
  <1>3. PacketInv /\ [Next]_vars => PacketInv'
    BY <1>2, PacketStep
  <1> QED BY <1>1, <1>3, PTL DEF Spec

(* A packet is accepted when it has arrived whole, not before, whatever      *)
(* follows it, by the receiver it is meant for, and read back as it was      *)
(* built; a ping put together by hand is the same packet.                    *)
THEOREM ArrivesCorrect == Spec => []PacketArrives
  <1>1. PacketInv => PacketArrives
    <2> SUFFICES ASSUME PacketInv, packetPhase = "sent" PROVE PacketArrives
      BY DEF PacketArrives
    <2> DEFINE b == packet.bytes
               whole == Len(b)
               sync == Sync(packetAttr.global, packetAttr.response)
    <2>1. /\ IsAttr(packetAttr) /\ IsPacket(b, packetAttr, packetData) /\ whole <= packet.size
          /\ packet.size \in Nat
      BY DEF PacketInv
    <2>2. b \in Seq(Byte) /\ whole \in Nat /\ packetData \in Seq(Byte) /\ Len(packetData) \in HalfWord
      BY <2>1, LenProperties DEF IsPacket
    <2>3. /\ sync \in ResponseSyncs <=> packetAttr.response
          /\ sync \in RequestSyncs <=> ~packetAttr.response
          /\ packetAttr.response \in BOOLEAN
      BY <2>1, SyncIs
    <2> HIDE DEF b, whole, sync
    <2>4. ASSUME NEW n \in 0..whole + 2, NEW arrived, arrived = Prefix(b \o <<85, 0>>, n), NEW syncs
          PROVE  Parsed(arrived, syncs) = IF n >= whole /\ sync \in syncs THEN whole ELSE 0
      <3>1. /\ arrived \in Seq(Byte) /\ Len(arrived) = n
            /\ \A i \in 1..n : i <= whole => arrived[i] = b[i]
        BY <2>2, <2>4, ArrivedIs DEF whole
      <3>2. Parsed(arrived, syncs) = IF Len(arrived) >= whole /\ sync \in syncs THEN whole ELSE 0
        BY <2>1, <3>1, ParsedIs DEF whole, sync
      <3> QED BY <3>1, <3>2
    <2>5. ASSUME NEW n \in 0..whole + 2, NEW arrived, arrived = Prefix(b \o <<85, 0>>, n)
          PROVE  /\ ValidatePacket(arrived) = IF n >= whole THEN whole ELSE 0
                 /\ ValidateRequestPacket(arrived) = IF n >= whole /\ ~packetAttr.response THEN whole ELSE 0
                 /\ ValidateResponsePacket(arrived) = IF n >= whole /\ packetAttr.response THEN whole ELSE 0
      <3>1. sync \in RequestSyncs \cup ResponseSyncs
        BY <2>3
      <3>2. Parsed(arrived, RequestSyncs \cup ResponseSyncs) = IF n >= whole THEN whole ELSE 0
        BY <2>4, <2>5, <3>1
      <3>3. Parsed(arrived, RequestSyncs) = IF n >= whole /\ ~packetAttr.response THEN whole ELSE 0
        BY <2>3, <2>4, <2>5
      <3>4. Parsed(arrived, ResponseSyncs) = IF n >= whole /\ packetAttr.response THEN whole ELSE 0
        BY <2>3, <2>4, <2>5
      <3> QED BY <3>2, <3>3, <3>4 DEF ValidatePacket, ValidateRequestPacket, ValidateResponsePacket
    <2>6. Decoded(b) = Expected
      BY <2>1, DecodedIs DEF Expected
    <2>7. packetAttr = [global |-> TRUE, response |-> FALSE, address |-> packetAttr.address,
                        type |-> 15, error |-> 0] => b = PingRequest(packetAttr.address, packetData)
      <3> SUFFICES ASSUME packetAttr = [global |-> TRUE, response |-> FALSE,
                                        address |-> packetAttr.address, type |-> 15, error |-> 0]
                   PROVE  b = PingRequest(packetAttr.address, packetData)
        OBVIOUS
      <3>1. packetAttr.address \in Nat
        BY <2>1 DEF IsAttr
      <3>2. IsPacket(PingRequest(packetAttr.address, packetData), packetAttr, packetData)
        BY <2>1, <2>2, <3>1, PingIs
      <3> QED BY <2>1, <3>2, PacketUnique
    <2>8. IsHandshake(b) => Short(HandshakeOf(b).buffer) \o Long(HandshakeOf(b).id) = Prefix(packetData, 6)
      <3> SUFFICES ASSUME IsHandshake(b)
                   PROVE  Short(HandshakeOf(b).buffer) \o Long(HandshakeOf(b).id) = Prefix(packetData, 6)
        OBVIOUS
      <3>1. Decoded(b).data = packetData
        BY <2>6 DEF Expected
      <3>2. Len(packetData) >= 6
        BY <3>1 DEF IsHandshake
      <3>3. /\ HandshakeOf(b).buffer = ShortAt(packetData, 1)
            /\ HandshakeOf(b).id = LongAt(packetData, 3)
        BY <3>1 DEF HandshakeOf
      <3> QED BY <2>2, <3>2, <3>3, HandshakeIs
    <2> QED BY <2>1, <2>5, <2>6, <2>7, <2>8, Zenon DEF PacketArrives, b, whole
  <1> QED BY <1>1, PacketInvariance, PTL

(* Whichever single byte has become another one on the way, the packet is    *)
(* refused, but for the two cases in which other bytes are checked.          *)
THEOREM DamageCorrect == Spec => []DamageNoticed
  <1>1. PacketInv => DamageNoticed
    <2> SUFFICES ASSUME PacketInv, packetPhase = "sent", NEW i \in 1..Len(packet.bytes), NEW v \in Garbled,
                        Harmful(packet.bytes, i, v)
                 PROVE  ValidatePacket([packet.bytes EXCEPT ![i] = v]) = 0
      BY DEF DamageNoticed
    <2>1. IsAttr(packetAttr) /\ IsPacket(packet.bytes, packetAttr, packetData)
      BY DEF PacketInv
    <2>2. v \in Byte
      BY PacketAssumption
    <2> QED BY <2>1, <2>2, DamagedIs
  <1> QED BY <1>1, PacketInvariance, PTL

(* Whatever a handler puts into a message, it fits into the packet in whole  *)
(* blocks, and the other side reads the same bytes.                          *)
THEOREM FitsCorrect == Spec => []MessageFits
  <1>1. PacketInv => MessageFits
    <2> SUFFICES ASSUME PacketInv PROVE MessageFits
      OBVIOUS
    <2>1. packetPhase # "failed"
      BY DEF PacketInv
    <2>2. ASSUME packetPhase = "sent", xMessage.max > 0
          PROVE  /\ Len(Decoded(packet.bytes).data) % BlockSize = 0
                 /\ Unpacked(Decoded(packet.bytes).data) = xMessage.bytes
      <3>1. /\ IsAttr(packetAttr) /\ IsPacket(packet.bytes, packetAttr, packetData)
            /\ xMessage.bytes \in Seq(Byte) /\ Len(xMessage.bytes) \in HalfWord
            /\ packetData = Packed(xMessage.bytes)
        BY <2>2 DEF PacketInv
      <3>2. Decoded(packet.bytes).data = packetData
        BY <3>1, DecodedIs
      <3>3. /\ Len(packetData) = BlockCount(Len(xMessage.bytes)) * BlockSize
            /\ Unpacked(packetData) = xMessage.bytes
        BY <3>1, PackedIs
      <3>4. (BlockCount(Len(xMessage.bytes)) * BlockSize) % BlockSize = 0
        <4>1. Len(xMessage.bytes) \in Nat
          BY <3>1, LenProperties
        <4> QED BY <4>1, BlocksAre
      <3> QED BY <3>2, <3>3, <3>4
    <2> QED BY <2>1, <2>2 DEF MessageFits
  <1> QED BY <1>1, PacketInvariance, PTL

-----------------------------------------------------------------------------
(* The older packets. *)

(* Two messages of which one byte differs. *)
OneDiffers(s, t) ==
    /\ s \in Seq(Byte) /\ t \in Seq(Byte) /\ Len(s) = Len(t)
    /\ \E i \in 1..Len(s) : s[i] # t[i] /\ \A j \in 1..Len(s) : j # i => s[j] = t[j]

(* Their checksums differ, for each polynomial with its highest bit set.     *)
LEMMA OneDiffersCrc ==
    ASSUME NEW s, NEW t, OneDiffers(s, t), NEW poly \in SUBSET (0..15), 15 \in poly
    PROVE  Crc(s, poly) # Crc(t, poly)
  <1>1. PICK i \in 1..Len(s) : s[i] # t[i] /\ \A j \in 1..Len(s) : j # i => s[j] = t[j]
    BY DEF OneDiffers
  <1>2. s \in Seq(Byte) /\ t \in Seq(Byte) /\ Len(s) = Len(t)
    BY DEF OneDiffers
  <1> QED BY <1>1, <1>2, CrcDiffers

LEMMA MidepChecksum ==
    ASSUME NEW bytes
    PROVE  usGetMidepMessageCRC(bytes) \in HalfWord
  <1>1. PICK bits : usGetMidepMessageCRC(bytes) = Number(bits)
    BY Zenon DEF usGetMidepMessageCRC, Crc
  <1> QED BY <1>1, NumberIs, Zenon

LEMMA MidepDiffers ==
    ASSUME NEW s, NEW t, OneDiffers(s, t)
    PROVE  usGetMidepMessageCRC(s) # usGetMidepMessageCRC(t)
  <1> DEFINE poly == {0, 3, 8, 9, 12, 13, 15}
  <1>1. poly \in SUBSET (0..15) /\ 15 \in poly
    OBVIOUS
  <1>2. usGetMidepMessageCRC(s) = Crc(s, poly) /\ usGetMidepMessageCRC(t) = Crc(t, poly)
    BY Zenon DEF usGetMidepMessageCRC
  <1> HIDE DEF poly
  <1> QED BY <1>1, <1>2, OneDiffersCrc

LEMMA ShuttleChecksum ==
    ASSUME NEW bytes
    PROVE  usGet_PL_CRC16(bytes) \in HalfWord
  <1>1. PICK bits : usGet_PL_CRC16(bytes) = Number(bits)
    BY Zenon DEF usGet_PL_CRC16, Crc
  <1> QED BY <1>1, NumberIs, Zenon

LEMMA ShuttleDiffers ==
    ASSUME NEW s, NEW t, OneDiffers(s, t)
    PROVE  usGet_PL_CRC16(s) # usGet_PL_CRC16(t)
  <1> DEFINE poly == {0, 2, 4, 5, 6, 8, 12, 14, 15}
  <1>1. poly \in SUBSET (0..15) /\ 15 \in poly
    OBVIOUS
  <1>2. usGet_PL_CRC16(s) = Crc(s, poly) /\ usGet_PL_CRC16(t) = Crc(t, poly)
    BY Zenon DEF usGet_PL_CRC16
  <1> HIDE DEF poly
  <1> QED BY <1>1, <1>2, OneDiffersCrc
(* A block with its size is put behind what there is. *)
Puts(p, q, block) ==
    /\ p \in Seq(Byte) /\ q \in Seq(Byte) /\ Len(q) = Len(p) + 1 + Len(block)
    /\ \A i \in 1..Len(p) : q[i] = p[i]
    /\ q[Len(p) + 1] = Len(block)
    /\ \A i \in 1..Len(block) : q[Len(p) + 1 + i] = block[i]

LEMMA BlockPut ==
    ASSUME NEW p \in Seq(Byte), NEW block \in Seq(Byte), Len(block) < 256
    PROVE  Puts(p, p \o <<Len(block)>> \o block, block)
  <1> DEFINE size == <<Len(block)>>
             q == p \o size
  <1>1. Len(block) \in Nat /\ Len(p) \in Nat
    BY LenProperties
  <1>2. size \in Seq(Byte) /\ Len(size) = 1 /\ size[1] = Len(block)
    <2>1. ASSUME NEW n \in Nat, n < 256 PROVE n \in Byte
      BY <2>1 DEF Byte
    <2>2. Len(block) \in Byte
      BY <1>1, <2>1
    <2> QED BY <2>2
  <1> HIDE DEF size
  <1>3. q \in Seq(Byte) /\ Joins(q, p, size)
    BY <1>2, ConcatIs
  <1> HIDE DEF q
  <1>4. q \o block \in Seq(Byte) /\ Joins(q \o block, q, block)
    BY <1>3, ConcatIs
  <1> DEFINE r == q \o block
  <1>5. r \in Seq(Byte) /\ Joins(r, q, block)
    BY <1>4
  <1> HIDE DEF r
  <1>6. Len(q) = Len(p) + 1 /\ Len(r) = Len(p) + 1 + Len(block)
    BY <1>2, <1>3, <1>5 DEF Joins
  <1>7. ASSUME NEW i \in 1..Len(p) PROVE r[i] = p[i]
    <2>1. i \in 1..Len(q)
      BY <1>1, <1>6
    <2> QED BY <1>3, <1>5, <2>1 DEF Joins
  <1>8. r[Len(p) + 1] = Len(block)
    <2>1. Len(p) + 1 \in 1..Len(q) /\ 1 \in 1..Len(size)
      BY <1>1, <1>2, <1>6
    <2> QED BY <1>2, <1>3, <1>5, <2>1 DEF Joins
  <1>9. ASSUME NEW i \in 1..Len(block) PROVE r[Len(p) + 1 + i] = block[i]
    BY <1>5, <1>6 DEF Joins
  <1>10. Puts(p, r, block)
    BY <1>5, <1>6, <1>7, <1>8, <1>9 DEF Puts
  <1> QED BY <1>10 DEF r, q, size

IsBlocks(blocks) == blocks \in Seq(Seq(Byte)) /\ \A k \in 1..Len(blocks) : Len(blocks[k]) < 256

LEMMA BlockIs ==
    ASSUME NEW blocks, IsBlocks(blocks), NEW k \in 1..Len(blocks)
    PROVE  blocks[k] \in Seq(Byte) /\ Len(blocks[k]) \in Nat /\ Len(blocks[k]) < 256
  <1>1. blocks[k] \in Seq(Byte)
    BY ElementOfSeq DEF IsBlocks
  <1> QED BY <1>1, LenProperties DEF IsBlocks

(* The blocks of a message are put one behind the other. *)
LEMMA BlocksSteps ==
    ASSUME NEW blocks, IsBlocks(blocks)
    PROVE  \E g \in [0..Len(blocks) -> Seq(Byte)] :
              /\ g[0] = <<>> /\ \A k \in 1..Len(blocks) : Puts(g[k - 1], g[k], blocks[k])
              /\ Blocks(blocks) = g[Len(blocks)]
  <1> DEFINE n == Len(blocks)
             Steps(g) == g = [k \in 0..n |-> IF k = 0 THEN <<>>
                                             ELSE g[k - 1] \o <<Len(blocks[k])>> \o blocks[k]]
             bytes == CHOOSE g : Steps(g)
             step == [k \in 1..n |-> [p \in Seq(Byte) |-> p \o <<Len(blocks[k])>> \o blocks[k]]]
  <1>1. n \in Nat
    BY LenProperties DEF IsBlocks
  <1>2. Blocks(blocks) = bytes[n]
    BY DEF Blocks
  <1>3. \A g : Steps(g) =>
              \A k \in 0..n : g[k] = IF k = 0 THEN <<>> ELSE g[k - 1] \o <<Len(blocks[k])>> \o blocks[k]
    BY Zenon
  <1>4. ASSUME NEW g, g = [k \in 0..n |-> g[k]],
               \A k \in 0..n : g[k] = IF k = 0 THEN <<>> ELSE g[k - 1] \o <<Len(blocks[k])>> \o blocks[k]
        PROVE  Steps(g)
    BY <1>4
  <1>5. \A p \in Seq(Byte), k \in 1..n : Puts(p, p \o <<Len(blocks[k])>> \o blocks[k], blocks[k])
    <2> TAKE p \in Seq(Byte), k \in 1..n
    <2>1. blocks[k] \in Seq(Byte) /\ Len(blocks[k]) < 256
      BY BlockIs
    <2> QED BY <2>1, BlockPut
  <1> HIDE DEF Steps, n
  <1>6. \A p \in Seq(Byte), k \in 1..n : p \o <<Len(blocks[k])>> \o blocks[k] \in Seq(Byte)
    BY <1>5, Zenon DEF Puts
  <1>7. step \in [1..n -> [Seq(Byte) -> Seq(Byte)]]
    BY <1>6
  <1>8. \A k \in 1..n, p \in Seq(Byte) : step[k][p] = p \o <<Len(blocks[k])>> \o blocks[k]
    OBVIOUS
  <1> HIDE DEF step
  <1>9. PICK g \in [0..n -> Seq(Byte)] : g[0] = <<>> /\ \A k \in 1..n : g[k] = step[k][g[k - 1]]
    <2>1. <<>> \in Seq(Byte)
      OBVIOUS
    <2>2. \E g \in [0..n -> Seq(Byte)] : Follows(g, <<>>, step, n)
      BY <1>1, <1>7, <2>1, StepByStep
    <2> QED BY <2>2, Zenon DEF Follows
  <1>10. \A k \in 1..n : g[k - 1] \in Seq(Byte) /\ g[k] = g[k - 1] \o <<Len(blocks[k])>> \o blocks[k]
    <2> TAKE k \in 1..n
    <2>1. k - 1 \in 0..n
      BY <1>1
    <2>2. g[k - 1] \in Seq(Byte)
      BY <1>9, <2>1
    <2>3. g[k] = step[k][g[k - 1]]
      BY <1>9
    <2> QED BY <1>8, <2>2, <2>3, Zenon
  <1>11. Steps(g)
    <2>1. \A k \in 0..n : g[k] = IF k = 0 THEN <<>> ELSE g[k - 1] \o <<Len(blocks[k])>> \o blocks[k]
      <3>1. \A k \in 0..n : k = 0 \/ k \in 1..n
        BY <1>1
      <3> QED BY <1>9, <1>10, <3>1, Zenon
    <2>2. g = [k \in 0..n |-> g[k]]
      BY <1>9
    <2> QED BY <1>4, <2>1, <2>2
  <1>12. Steps(bytes)
    BY <1>11, Zenon
  <1> HIDE DEF bytes
  <1>13. \A k \in 0..n : bytes[k] = IF k = 0 THEN <<>> ELSE bytes[k - 1] \o <<Len(blocks[k])>> \o blocks[k]
    BY <1>3, <1>12
  <1> DEFINE S == {k \in 0..n : bytes[k] = g[k]}
  <1>14. 0 \in S
    <2>1. 0 \in 0..n
      BY <1>1
    <2>2. bytes[0] = g[0]
      BY <1>9, <1>13, <2>1, Zenon
    <2> QED BY <2>1, <2>2
  <1>15. ASSUME NEW k \in 1..n, k - 1 \in S PROVE k \in S
    <2>1. k \in 0..n /\ k # 0
      BY <1>1
    <2>2. bytes[k - 1] = g[k - 1]
      BY <1>15
    <2>3. bytes[k] = bytes[k - 1] \o <<Len(blocks[k])>> \o blocks[k]
      BY <1>13, <2>1, Zenon
    <2>4. bytes[k] = g[k]
      BY <1>10, <2>2, <2>3, Zenon
    <2> QED BY <2>1, <2>4
  <1> HIDE DEF S
  <1>16. n \in S
    <2>1. \A k \in 0..n : k \in S
      BY <1>1, <1>14, <1>15, EachStep
    <2> QED BY <1>1, <2>1
  <1>17. bytes[n] = g[n]
    BY <1>16 DEF S
  <1>18. \A k \in 1..n : Puts(g[k - 1], g[k], blocks[k])
    BY <1>5, <1>10, Zenon
  <1> QED BY <1>2, <1>9, <1>17, <1>18 DEF n
BlockAt(b, o, block) == b[o] = Len(block) /\ \A i \in 1..Len(block) : b[o + i] = block[i]

(* The places of the blocks, and the one behind them. *)
Placed(b, blocks, places) ==
    /\ places \in Seq(Nat) /\ Len(places) = Len(blocks) + 1 /\ places[1] = 8
    /\ \A k \in 1..Len(blocks) :
          BlockAt(b, places[k], blocks[k]) /\ places[k + 1] = places[k] + Len(blocks[k]) + 1

(* What is put behind the blocks leaves them where they are. *)
LEMMA BlocksStay ==
    ASSUME NEW n \in Nat, NEW g \in [0..n -> Seq(Byte)], NEW blocks,
           \A k \in 1..n : blocks[k] \in Seq(Byte) /\ Puts(g[k - 1], g[k], blocks[k])
    PROVE  \A k \in 0..n : /\ Len(g[k]) \in Nat /\ Len(g[n]) \in Nat /\ Len(g[k]) <= Len(g[n])
                           /\ \A i \in 1..Len(g[k]) : g[n][i] = g[k][i]
  <1> DEFINE Kept(k, m) == /\ Len(g[k]) <= Len(g[m])
                           /\ \A i \in 1..Len(g[k]) : g[m][i] = g[k][i]
  <1>1. \A k \in 0..n : Len(g[k]) \in Nat
    BY LenProperties
  <1>2. ASSUME NEW m \in 1..n, NEW k \in 0..m - 1, Kept(k, m - 1) PROVE Kept(k, m)
    <2>1. m - 1 \in 0..n /\ m \in 0..n /\ k \in 0..n
      OBVIOUS
    <2>2. Len(g[k]) \in Nat /\ Len(g[m - 1]) \in Nat /\ Len(g[m]) \in Nat
      BY <1>1, <2>1
    <2>3. Puts(g[m - 1], g[m], blocks[m]) /\ Len(blocks[m]) \in Nat
      BY LenProperties
    <2>4. /\ Len(g[m]) = Len(g[m - 1]) + 1 + Len(blocks[m])
          /\ \A i \in 1..Len(g[m - 1]) : g[m][i] = g[m - 1][i]
      BY <2>3 DEF Puts
    <2>5. Len(g[k]) <= Len(g[m])
      <3>1. ASSUME NEW x \in Nat, NEW y \in Nat, NEW d \in Nat, x <= y PROVE x <= y + 1 + d
        BY <3>1
      <3>2. Len(g[k]) <= Len(g[m - 1]) + 1 + Len(blocks[m])
        BY <1>2, <2>2, <2>3, <3>1
      <3> QED BY <2>4, <3>2, Zenon
    <2>6. ASSUME NEW i \in 1..Len(g[k]) PROVE g[m][i] = g[k][i]
      <3>1. i \in 1..Len(g[m - 1])
        BY <1>2, <2>2
      <3> QED BY <1>2, <2>4, <3>1
    <2> QED BY <2>5, <2>6
  <1>3. \A k \in 0..n : Kept(k, k)
    BY <1>1
  <1> HIDE DEF Kept
  <1> DEFINE S == {m \in 0..n : \A k \in 0..m : Kept(k, m)}
  <1>4. 0 \in S
    BY <1>3
  <1>5. ASSUME NEW m \in 1..n, m - 1 \in S PROVE m \in S
    <2>1. \A k \in 0..m : k = m \/ k \in 0..m - 1
      OBVIOUS
    <2>2. m \in 0..n
      OBVIOUS
    <2>3. \A k \in 0..m - 1 : Kept(k, m - 1)
      BY <1>5
    <2>4. \A k \in 0..m : Kept(k, m)
      BY <1>2, <1>3, <2>1, <2>2, <2>3
    <2> QED BY <2>2, <2>4
  <1> HIDE DEF S
  <1>6. n \in S
    <2>1. \A m \in 0..n : m \in S
      BY <1>4, <1>5, EachStep
    <2> QED BY <2>1
  <1>7. \A k \in 0..n : Kept(k, n)
    BY <1>6 DEF S
  <1>8. n \in 0..n
    OBVIOUS
  <1> QED BY <1>1, <1>7, <1>8 DEF Kept

LEMMA BlocksPlaced ==
    ASSUME NEW blocks, IsBlocks(blocks), NEW b,
           \A j \in 1..Len(Blocks(blocks)) : b[7 + j] = Blocks(blocks)[j]
    PROVE  /\ Blocks(blocks) \in Seq(Byte)
           /\ \E places : /\ Placed(b, blocks, places)
                          /\ places[Len(blocks) + 1] = 8 + Len(Blocks(blocks))
  <1> DEFINE n == Len(blocks)
             B == Blocks(blocks)
  <1>1. n \in Nat /\ \A k \in 1..n : blocks[k] \in Seq(Byte) /\ Len(blocks[k]) \in Nat
    <2>1. n \in Nat
      BY LenProperties DEF IsBlocks
    <2> QED BY <2>1, BlockIs
  <1>2. PICK g \in [0..n -> Seq(Byte)] :
            /\ g[0] = <<>> /\ \A k \in 1..n : Puts(g[k - 1], g[k], blocks[k])
            /\ B = g[n]
    BY BlocksSteps
  <1>3. \A j \in 1..Len(B) : b[7 + j] = B[j]
    OBVIOUS
  <1> HIDE DEF n, B
  <1>4. \A k \in 0..n : /\ Len(g[k]) \in Nat /\ Len(g[n]) \in Nat /\ Len(g[k]) <= Len(g[n])
                        /\ \A i \in 1..Len(g[k]) : g[n][i] = g[k][i]
    BY <1>1, <1>2, BlocksStay
  <1> DEFINE places == [k \in 1..n + 1 |-> 8 + Len(g[k - 1])]
  <1>5. /\ places \in Seq(Nat) /\ Len(places) = n + 1
        /\ \A k \in 1..n + 1 : places[k] = 8 + Len(g[k - 1])
    <2>1. \A k \in 1..n + 1 : k - 1 \in 0..n
      BY <1>1
    <2>2. n + 1 \in Nat /\ places \in [1..n + 1 -> Nat]
      BY <1>1, <1>4, <2>1
    <2>3. \A k \in 1..n + 1 : places[k] = 8 + Len(g[k - 1])
      OBVIOUS
    <2> HIDE DEF places
    <2>4. places \in Seq(Nat) /\ Len(places) = n + 1
      BY <2>2, SequenceOf
    <2> QED BY <2>3, <2>4
  <1> HIDE DEF places
  <1>6. places[1] = 8 /\ places[n + 1] = 8 + Len(B)
    <2>1. 1 \in 1..n + 1 /\ n + 1 \in 1..n + 1 /\ 1 - 1 = 0 /\ (n + 1) - 1 = n
      BY <1>1
    <2>2. Len(g[0]) = 0
      BY <1>2
    <2> QED BY <1>2, <1>5, <2>1, <2>2
  <1>7. ASSUME NEW k \in 1..n
        PROVE  BlockAt(b, places[k], blocks[k]) /\ places[k + 1] = places[k] + Len(blocks[k]) + 1
    <2> DEFINE p == g[k - 1]
               q == g[k]
               d == Len(blocks[k])
    <2>1. /\ k \in 1..n + 1 /\ k + 1 \in 1..n + 1 /\ (k + 1) - 1 = k
          /\ k - 1 \in 0..n /\ k \in 0..n
      BY <1>1
    <2>2. places[k] = 8 + Len(p) /\ places[k + 1] = 8 + Len(q)
      BY <1>5, <2>1
    <2>3. Len(p) \in Nat /\ Len(q) \in Nat /\ d \in Nat /\ Len(B) \in Nat /\ Len(q) <= Len(B)
      BY <1>1, <1>2, <1>4, <2>1
    <2>4. Puts(p, q, blocks[k])
      BY <1>2
    <2>5. Len(q) = Len(p) + 1 + d
      BY <2>4 DEF Puts
    <2>10. /\ Len(p) + 1 \in 1..Len(q) /\ 7 + (Len(p) + 1) = places[k]
           /\ places[k + 1] = places[k] + d + 1
           /\ \A i \in 1..d : Len(p) + 1 + i \in 1..Len(q) /\ 7 + (Len(p) + 1 + i) = places[k] + i
      <3>1. ASSUME NEW x \in Nat, NEW y \in Nat, NEW e \in Nat, y = x + 1 + e
            PROVE  /\ x + 1 \in 1..y /\ 7 + (x + 1) = 8 + x /\ 8 + y = (8 + x) + e + 1
                   /\ \A i \in 1..e : x + 1 + i \in 1..y /\ 7 + (x + 1 + i) = (8 + x) + i
        BY <3>1
      <3> HIDE DEF p, q, d
      <3>2. /\ Len(p) + 1 \in 1..Len(q) /\ 7 + (Len(p) + 1) = 8 + Len(p) /\ 8 + Len(q) = (8 + Len(p)) + d + 1
            /\ \A i \in 1..d : Len(p) + 1 + i \in 1..Len(q) /\ 7 + (Len(p) + 1 + i) = (8 + Len(p)) + i
        BY <2>3, <2>5, <3>1
      <3> QED BY <2>2, <3>2, Zenon
    <2>6. \A i \in 1..Len(q) : b[7 + i] = q[i]
      <3> TAKE i \in 1..Len(q)
      <3>1. i \in 1..Len(B)
        BY <2>3
      <3>2. B[i] = q[i]
        BY <1>2, <1>4, <2>1
      <3> QED BY <1>3, <3>1, <3>2
    <2>7. b[places[k]] = d
      <3>1. q[Len(p) + 1] = d
        BY <2>4 DEF Puts
      <3> QED BY <2>6, <2>10, <3>1
    <2>8. ASSUME NEW i \in 1..d PROVE b[places[k] + i] = blocks[k][i]
      <3>1. Len(p) + 1 + i \in 1..Len(q) /\ 7 + (Len(p) + 1 + i) = places[k] + i
        BY <2>10
      <3>2. q[Len(p) + 1 + i] = blocks[k][i]
        BY <2>4 DEF Puts
      <3>3. b[7 + (Len(p) + 1 + i)] = q[Len(p) + 1 + i]
        BY <2>6, <3>1
      <3> QED BY <3>1, <3>2, <3>3
    <2> QED BY <2>7, <2>8, <2>10 DEF BlockAt
  <1>8. Placed(b, blocks, places)
    BY <1>5, <1>6, <1>7 DEF Placed, n
  <1>9. B \in Seq(Byte)
    BY <1>1, <1>2
  <1> QED BY <1>6, <1>8, <1>9 DEF n, B
-----------------------------------------------------------------------------
(* What a Midep message consists of. *)

IsServer(n) == n \in Nat /\ n \div 65536 < 65536

IsMidepAttr(attr) ==
    /\ attr \in [server : Nat, command : Byte, sub : Byte, index : 0..3, result : 0..63]
    /\ IsServer(attr.server)

IndexAndResult(attr) == (64 * (attr.index % 4)) + (attr.result % 64)

LEMMA IndexResult ==
    ASSUME NEW attr, IsMidepAttr(attr)
    PROVE  /\ IndexAndResult(attr) \in Byte
           /\ IndexAndResult(attr) \div 64 = attr.index /\ IndexAndResult(attr) % 64 = attr.result
  <1>1. attr.index \in 0..3 /\ attr.result \in 0..63
    BY DEF IsMidepAttr
  <1>2. ASSUME NEW i \in 0..3, NEW r \in 0..63
        PROVE  /\ (64 * (i % 4)) + (r % 64) \in Byte
               /\ ((64 * (i % 4)) + (r % 64)) \div 64 = i /\ ((64 * (i % 4)) + (r % 64)) % 64 = r
    <2>1. i % 4 = i /\ r % 64 = r
      OBVIOUS
    <2>2. 64 * i + r \in Byte /\ (64 * i + r) \div 64 = i /\ (64 * i + r) % 64 = r
      BY DEF Byte
    <2> QED BY <2>1, <2>2
  <1> QED BY <1>1, <1>2 DEF IndexAndResult

(* The bytes of a number, the highest first. *)
LEMMA BigEndianIs ==
    ASSUME NEW n \in Nat
    PROVE  /\ BigEndian(n) \in Seq(Byte) /\ Len(BigEndian(n)) = 4
           /\ BigEndian(n)[1] = High(n \div 65536) /\ BigEndian(n)[2] = Low(n \div 65536)
           /\ BigEndian(n)[3] = High(n) /\ BigEndian(n)[4] = Low(n)
  <1> DEFINE s == Long(n)
             q == [i \in 1..4 |-> s[(4 - i) + 1]]
  <1>1. /\ s \in Seq(Byte) /\ Len(s) = 4 /\ s[1] = Low(n) /\ s[2] = High(n)
        /\ s[3] = Low(n \div 65536) /\ s[4] = High(n \div 65536)
    BY LongIs
  <1>5. s \in Seq(Byte) /\ Len(s) = 4
    BY <1>1
  <1>2. BigEndian(n) = q
    <2>1. Len(Long(n)) = 4
      BY <1>1
    <2> QED BY <2>1 DEF BigEndian, Reverse
  <1> HIDE DEF s
  <1>3. q \in [1..4 -> Byte] /\ q[1] = s[4] /\ q[2] = s[3] /\ q[3] = s[2] /\ q[4] = s[1]
    <2>1. \A i \in 1..4 : (4 - i) + 1 \in 1..4
      OBVIOUS
    <2>2. s[1] \in Byte /\ s[2] \in Byte /\ s[3] \in Byte /\ s[4] \in Byte
      <3>1. \A i \in 1..Len(s) : s[i] \in Byte
        BY <1>5, ElementOfSeq
      <3> QED BY <1>5, <3>1
    <2>3. \A i \in 1..4 : s[i] \in Byte
      BY <2>2
    <2> QED BY <2>1, <2>3
  <1> HIDE DEF q
  <1>4. q \in Seq(Byte) /\ Len(q) = 4
    <2>1. 4 \in Nat /\ q \in [1..4 -> Byte]
      BY <1>3
    <2> QED BY <2>1, SequenceOf
  <1> QED BY <1>1, <1>2, <1>3, <1>4

LEMMA ReversePair ==
    ASSUME NEW n \in Nat
    PROVE  /\ Reverse(Short(n)) \in Seq(Byte) /\ Len(Reverse(Short(n))) = 2
           /\ Reverse(Short(n))[1] = High(n) /\ Reverse(Short(n))[2] = Low(n)
  <1> DEFINE s == Short(n)
             q == [i \in 1..2 |-> s[(2 - i) + 1]]
  <1>1. s \in Seq(Byte) /\ Len(s) = 2 /\ s[1] = Low(n) /\ s[2] = High(n)
    BY ShortIs
  <1>2. Reverse(s) = q
    <2>1. Len(s) = 2
      BY <1>1
    <2> HIDE DEF s
    <2> QED BY <2>1 DEF Reverse
  <1> HIDE DEF s
  <1>3. q \in [1..2 -> Byte] /\ q[1] = s[2] /\ q[2] = s[1]
    <2>1. \A i \in 1..2 : (2 - i) + 1 \in 1..2
      OBVIOUS
    <2>2. \A i \in 1..2 : s[i] \in Byte
      BY <1>1, ElementOfSeq
    <2> QED BY <2>1, <2>2
  <1> HIDE DEF q
  <1>4. q \in Seq(Byte) /\ Len(q) = 2
    BY <1>3, SequenceOf
  <1>5. /\ Reverse(s) \in Seq(Byte) /\ Len(Reverse(s)) = 2
        /\ Reverse(s)[1] = High(n) /\ Reverse(s)[2] = Low(n)
    BY <1>1, <1>2, <1>3, <1>4
  <1> QED BY <1>5 DEF s

(* The message b is these attributes and blocks, behind which there are the  *)
(* block of no data and the checksum.                                        *)
IsMessage(b, attr, blocks, body) ==
    /\ b \in Seq(Byte) /\ body \in Seq(Byte)
    /\ Len(b) = Len(body) + 2 /\ Len(body) = 8 + Len(Blocks(blocks))
    /\ Blocks(blocks) \in Seq(Byte)
    /\ \A i \in 1..Len(body) : b[i] = body[i]
    /\ b[Len(body) + 1] = High(usGetMidepMessageCRC(body))
    /\ b[Len(body) + 2] = Low(usGetMidepMessageCRC(body))
    /\ \A i \in 1..4 : b[i] = BigEndian(attr.server)[i]
    /\ b[5] = attr.command /\ b[6] = attr.sub /\ b[7] = IndexAndResult(attr)
    /\ \A j \in 1..Len(Blocks(blocks)) : b[7 + j] = Blocks(blocks)[j]
    /\ b[Len(body)] = 0

LEMMA CompiledIs ==
    ASSUME NEW attr, IsMidepAttr(attr), NEW blocks, IsBlocks(blocks)
    PROVE  \E body : IsMessage(Compiled(attr, blocks), attr, blocks, body)
  <1> DEFINE server == BigEndian(attr.server)
             three == <<attr.command, attr.sub, (64 * (attr.index % 4)) + (attr.result % 64)>>
             B == Blocks(blocks)
             zero == <<0>>
             head == server \o three
             most == head \o B
             body == most \o zero
             crc == usGetMidepMessageCRC(body)
             tail == Reverse(Short(crc))
             b == body \o tail
  <1>1. Compiled(attr, blocks) = b
    BY DEF Compiled
  <1>2. server \in Seq(Byte) /\ Len(server) = 4
    <2>1. attr.server \in Nat
      BY DEF IsMidepAttr
    <2> QED BY <2>1, BigEndianIs
  <1>3. three \in Seq(Byte) /\ Len(three) = 3 /\ three[1] = attr.command /\ three[2] = attr.sub /\ three[3] = IndexAndResult(attr)
    <2>1. attr.command \in Byte /\ attr.sub \in Byte
      BY DEF IsMidepAttr
    <2>2. IndexAndResult(attr) \in Byte
      BY IndexResult
    <2>3. three = <<attr.command, attr.sub, IndexAndResult(attr)>>
      BY DEF IndexAndResult
    <2> HIDE DEF three
    <2> QED BY <2>1, <2>2, <2>3
  <1>4. B \in Seq(Byte) /\ Len(B) \in Nat
    <2>1. PICK b0 : \A j \in 1..Len(Blocks(blocks)) : b0[7 + j] = Blocks(blocks)[j]
      <3> DEFINE b0 == [i \in Nat |-> Blocks(blocks)[i - 7]]
      <3>1. Len(Blocks(blocks)) \in Nat
        <4>1. PICK g \in [0..Len(blocks) -> Seq(Byte)] : Blocks(blocks) = g[Len(blocks)]
          BY BlocksSteps
        <4>2. Len(blocks) \in 0..Len(blocks)
          BY LenProperties DEF IsBlocks
        <4> QED BY <4>1, <4>2, LenProperties
      <3> DEFINE L == Len(Blocks(blocks))
      <3>2. L \in Nat
        BY <3>1
      <3> HIDE DEF L
      <3>3. \A j \in 1..L : 7 + j \in Nat /\ (7 + j) - 7 = j
        BY <3>2
      <3>4. \A j \in 1..L : b0[7 + j] = Blocks(blocks)[j]
        BY <3>3
      <3> HIDE DEF b0
      <3> QED BY <3>4 DEF L
    <2>2. B \in Seq(Byte)
      BY <2>1, BlocksPlaced
    <2> QED BY <2>2, LenProperties
  <1>5. zero \in Seq(Byte) /\ Len(zero) = 1 /\ zero[1] = 0
    <2>1. 0 \in Byte
      BY DEF Byte
    <2> QED BY <2>1
  <1> HIDE DEF server, three, B, zero
  <1>6. head \in Seq(Byte) /\ Joins(head, server, three)
    BY <1>2, <1>3, ConcatIs
  <1> HIDE DEF head
  <1>7. most \in Seq(Byte) /\ Joins(most, head, B)
    BY <1>4, <1>6, ConcatIs
  <1> HIDE DEF most
  <1>8. body \in Seq(Byte) /\ Joins(body, most, zero)
    BY <1>5, <1>7, ConcatIs
  <1> HIDE DEF body
  <1>9. tail \in Seq(Byte) /\ Len(tail) = 2 /\ tail[1] = High(crc) /\ tail[2] = Low(crc)
    <2>1. crc \in Nat
      BY MidepChecksum DEF HalfWord
    <2> HIDE DEF crc
    <2> QED BY <2>1, ReversePair
  <1> HIDE DEF tail, crc
  <1>10. b \in Seq(Byte) /\ Joins(b, body, tail)
    BY <1>8, <1>9, ConcatIs
  <1> HIDE DEF b
  <1>11. Len(head) = 7 /\ Len(most) = 7 + Len(B) /\ Len(body) = 8 + Len(B) /\ Len(b) = Len(body) + 2
    <2>1. Len(head) = 7
      BY <1>2, <1>3, <1>6 DEF Joins
    <2>2. Len(most) = 7 + Len(B)
      BY <2>1, <1>7 DEF Joins
    <2>3. Len(body) = Len(most) + 1
      BY <1>5, <1>8 DEF Joins
    <2>4. Len(b) = Len(body) + 2
      BY <1>9, <1>10 DEF Joins
    <2>5. ASSUME NEW x \in Nat PROVE (7 + x) + 1 = 8 + x
      OBVIOUS
    <2>6. Len(body) = 8 + Len(B)
      BY <1>4, <2>2, <2>3, <2>5
    <2> QED BY <2>1, <2>2, <2>4, <2>6
  <1>12. \A i \in 1..Len(body) : b[i] = body[i]
    BY <1>10 DEF Joins
  <1>13. b[Len(body) + 1] = High(crc) /\ b[Len(body) + 2] = Low(crc)
    <2>1. 1 \in 1..Len(tail) /\ 2 \in 1..Len(tail)
      BY <1>9
    <2> QED BY <1>9, <1>10, <2>1 DEF Joins
  <1>14. \A i \in 1..Len(most) : i \in 1..Len(body) /\ b[i] = most[i]
    <2> TAKE i \in 1..Len(most)
    <2>1. i \in 1..Len(body)
      BY <1>4, <1>11
    <2> QED BY <1>8, <1>12, <2>1 DEF Joins
  <1>15. \A i \in 1..7 : b[i] = head[i]
    <2> TAKE i \in 1..7
    <2>1. i \in 1..Len(head) /\ i \in 1..Len(most)
      BY <1>4, <1>11
    <2> QED BY <1>7, <1>14, <2>1 DEF Joins
  <1>16. \A i \in 1..4 : b[i] = server[i]
    <2> TAKE i \in 1..4
    <2>1. i \in 1..Len(server) /\ i \in 1..7
      BY <1>2
    <2> QED BY <1>6, <1>15, <2>1 DEF Joins
  <1>17. b[5] = three[1] /\ b[6] = three[2] /\ b[7] = three[3]
    <2>1. head[4 + 1] = three[1] /\ head[4 + 2] = three[2] /\ head[4 + 3] = three[3]
      BY <1>2, <1>3, <1>6 DEF Joins
    <2>2. 4 + 1 = 5 /\ 4 + 2 = 6 /\ 4 + 3 = 7 /\ 5 \in 1..7 /\ 6 \in 1..7 /\ 7 \in 1..7
      OBVIOUS
    <2> QED BY <1>15, <2>1, <2>2
  <1>18. \A j \in 1..Len(B) : b[7 + j] = B[j]
    <2> TAKE j \in 1..Len(B)
    <2>1. 7 + j \in 1..Len(most)
      BY <1>4, <1>11
    <2>2. most[7 + j] = B[j]
      BY <1>7, <1>11 DEF Joins
    <2> QED BY <1>14, <2>1, <2>2
  <1>19. b[Len(body)] = 0
    <2>1. Len(body) = Len(most) + 1 /\ Len(body) \in 1..Len(body)
      BY <1>4, <1>11
    <2>2. 1 \in 1..Len(zero)
      BY <1>5
    <2>3. body[Len(most) + 1] = zero[1]
      BY <1>8, <2>2 DEF Joins
    <2> QED BY <1>5, <1>12, <2>1, <2>3
  <1>20. IsMessage(b, attr, blocks, body)
    <2>1. \A i \in 1..4 : b[i] = BigEndian(attr.server)[i]
      BY <1>16 DEF server
    <2>2. b[5] = attr.command /\ b[6] = attr.sub /\ b[7] = IndexAndResult(attr)
      BY <1>3, <1>17
    <2>3. /\ b[Len(body) + 1] = High(usGetMidepMessageCRC(body))
          /\ b[Len(body) + 2] = Low(usGetMidepMessageCRC(body))
      BY <1>13 DEF crc
    <2>4. /\ Len(body) = 8 + Len(Blocks(blocks)) /\ Blocks(blocks) \in Seq(Byte)
          /\ \A j \in 1..Len(Blocks(blocks)) : b[7 + j] = Blocks(blocks)[j]
      BY <1>4, <1>11, <1>18 DEF B
    <2> QED BY <1>8, <1>10, <1>11, <1>12, <1>19, <2>1, <2>2, <2>3, <2>4, Zenon DEF IsMessage
  <1> QED BY <1>1, <1>20
-----------------------------------------------------------------------------
(* The search for the blocks of a message finds them. *)

LEMMA PlacesUp ==
    ASSUME NEW b, NEW blocks, IsBlocks(blocks), NEW places, Placed(b, blocks, places)
    PROVE  /\ Len(blocks) \in Nat
           /\ \A k \in 1..Len(blocks) + 1 : places[k] \in k + 7..places[Len(blocks) + 1]
  <1> DEFINE n == Len(blocks)
  <1>1. n \in Nat /\ \A k \in 1..n : Len(blocks[k]) \in Nat
    <2>1. n \in Nat
      BY LenProperties DEF IsBlocks
    <2> QED BY <2>1, BlockIs
  <1>2. /\ \A k \in 1..n + 1 : places[k] \in Nat
        /\ places[1] = 8
        /\ \A k \in 1..n : places[k + 1] = places[k] + Len(blocks[k]) + 1
    <2>1. places \in Seq(Nat) /\ Len(places) = n + 1
      BY DEF Placed
    <2>2. \A k \in 1..n + 1 : places[k] \in Nat
      BY <2>1, ElementOfSeq
    <2> QED BY <2>2 DEF Placed
  <1> HIDE DEF n
  <1>3. ASSUME NEW k \in 1..n PROVE places[k + 1] \in Nat /\ places[k + 1] >= places[k] + 1
    <2>1. k \in 1..n + 1
      BY <1>1
    <2>2. ASSUME NEW x \in Nat, NEW d \in Nat PROVE x + d + 1 \in Nat /\ x + d + 1 >= x + 1
      OBVIOUS
    <2>3. places[k] \in Nat /\ Len(blocks[k]) \in Nat
      BY <1>1, <1>2, <2>1
    <2> QED BY <1>2, <2>2, <2>3
  <1> DEFINE S == {j \in 0..n : places[j + 1] >= j + 8}
             T == {j \in 0..n : places[n + 1] >= places[(n + 1) - j]}
  <1>4. \A j \in 0..n : j \in S
    <2>1. 0 \in S
      BY <1>1, <1>2
    <2>2. ASSUME NEW j \in 1..n, j - 1 \in S PROVE j \in S
      <3>1. (j - 1) + 1 = j /\ j \in 0..n /\ j \in 1..n + 1
        BY <1>1
      <3>2. places[j] >= (j - 1) + 8 /\ places[j] \in Nat
        BY <1>2, <2>2, <3>1
      <3>3. places[j + 1] \in Nat /\ places[j + 1] >= places[j] + 1
        BY <1>3
      <3>4. ASSUME NEW x \in Nat, NEW y \in Nat, x >= (j - 1) + 8, y >= x + 1 PROVE y >= j + 8
        BY <3>4
      <3>5. places[j + 1] >= j + 8
        BY <3>2, <3>3, <3>4
      <3> QED BY <3>1, <3>5
    <2> HIDE DEF S
    <2> QED BY <1>1, <2>1, <2>2, EachStep
  <1>5. \A j \in 0..n : j \in T
    <2>1. 0 \in T
      <3>1. 0 \in 0..n /\ (n + 1) - 0 = n + 1 /\ n + 1 \in 1..n + 1
        BY <1>1
      <3>2. places[n + 1] \in Nat
        BY <1>2, <3>1
      <3> QED BY <3>1, <3>2
    <2>2. ASSUME NEW j \in 1..n, j - 1 \in T PROVE j \in T
      <3> DEFINE k == (n + 1) - j
      <3>1. k \in 1..n /\ (n + 1) - (j - 1) = k + 1 /\ j \in 0..n /\ n + 1 \in 1..n + 1 /\ k \in 1..n + 1
        BY <1>1
      <3>2. places[n + 1] >= places[k + 1]
        BY <2>2, <3>1
      <3> HIDE DEF k
      <3>3. places[k + 1] \in Nat /\ places[k + 1] >= places[k] + 1
        BY <1>3, <3>1
      <3>4. places[n + 1] \in Nat /\ places[k] \in Nat
        BY <1>2, <3>1
      <3>5. ASSUME NEW x \in Nat, NEW y \in Nat, NEW z \in Nat, z >= y, y >= x + 1 PROVE z >= x
        BY <3>5
      <3>6. places[n + 1] >= places[k]
        BY <3>2, <3>3, <3>4, <3>5
      <3> QED BY <3>1, <3>6 DEF k
    <2> HIDE DEF T
    <2> QED BY <1>1, <2>1, <2>2, EachStep
  <1>6. ASSUME NEW k \in 1..n + 1 PROVE places[k] \in k + 7..places[n + 1]
    <2>1. k - 1 \in 0..n /\ (k - 1) + 1 = k /\ (k - 1) + 8 = k + 7 /\ n + 1 \in 1..n + 1
      BY <1>1
    <2>2. (n + 1) - k \in 0..n /\ (n + 1) - ((n + 1) - k) = k
      BY <1>1
    <2>3. places[k] >= k + 7
      BY <1>4, <2>1
    <2>4. places[n + 1] >= places[k]
      BY <1>5, <2>2
    <2>5. places[k] \in Nat /\ places[n + 1] \in Nat
      BY <1>2, <2>1
    <2> QED BY <2>3, <2>4, <2>5
  <1> QED BY <1>1, <1>6 DEF n

NextStart(b, s) == IF Last(s) <= Len(b) /\ b[Last(s)] # 0 THEN Append(s, NextBlock(b, Last(s))) ELSE s

LEMMA BlockStartsSteps ==
    ASSUME NEW b, Len(b) \in Nat, NEW V, << 8 >> \in V, \A s \in V : NextStart(b, s) \in V
    PROVE  \E g \in [0..Len(b) -> V] :
              /\ g[0] = << 8 >> /\ \A n \in 1..Len(b) : g[n] = NextStart(b, g[n - 1])
              /\ BlockStarts(b) = g[Len(b)]
  <1> DEFINE n == Len(b)
             Follower(s) == IF Last(s) <= Len(b) /\ b[Last(s)] # 0 THEN Append(s, NextBlock(b, Last(s))) ELSE s
             Steps(g) == g = [k \in 0..n |-> IF k = 0 THEN << 8 >> ELSE Follower(g[k - 1])]
             starts == CHOOSE g : Steps(g)
             step == [k \in 1..n |-> [s \in V |-> NextStart(b, s)]]
  <1>1. n \in Nat
    OBVIOUS
  <1>2. BlockStarts(b) = starts[n]
    BY DEF BlockStarts
  <1>3. \A s : Follower(s) = NextStart(b, s)
    BY DEF NextStart
  <1> HIDE DEF Follower
  <1>4. \A g : Steps(g) => \A k \in 0..n : g[k] = IF k = 0 THEN << 8 >> ELSE Follower(g[k - 1])
    BY Zenon
  <1>5. ASSUME NEW g, g = [k \in 0..n |-> g[k]],
               \A k \in 0..n : g[k] = IF k = 0 THEN << 8 >> ELSE Follower(g[k - 1])
        PROVE  Steps(g)
    BY <1>5
  <1> HIDE DEF Steps, n
  <1>6. step \in [1..n -> [V -> V]]
    OBVIOUS
  <1>7. \A k \in 1..n, s \in V : step[k][s] = NextStart(b, s)
    OBVIOUS
  <1> HIDE DEF step
  <1>8. PICK g \in [0..n -> V] : g[0] = << 8 >> /\ \A k \in 1..n : g[k] = step[k][g[k - 1]]
    <2>1. \E g \in [0..n -> V] : Follows(g, << 8 >>, step, n)
      BY <1>1, <1>6, StepByStep
    <2> QED BY <2>1, Zenon DEF Follows
  <1>9. \A k \in 1..n : g[k] = NextStart(b, g[k - 1])
    <2> SUFFICES ASSUME NEW k \in 1..n PROVE g[k] = NextStart(b, g[k - 1])
      OBVIOUS
    <2>1. k - 1 \in 0..n
      BY <1>1
    <2>2. g[k - 1] \in V
      BY <1>8, <2>1
    <2> QED BY <1>7, <1>8, <2>2
  <1>10. Steps(g)
    <2>1. \A k \in 0..n : g[k] = IF k = 0 THEN << 8 >> ELSE Follower(g[k - 1])
      <3> SUFFICES ASSUME NEW k \in 1..n PROVE g[k] = Follower(g[k - 1])
        BY <1>1, <1>8
      <3> QED BY <1>3, <1>9
    <2>2. g = [k \in 0..n |-> g[k]]
      BY <1>8
    <2> QED BY <1>5, <2>1, <2>2
  <1>11. Steps(starts)
    BY <1>10, Zenon
  <1> HIDE DEF starts
  <1>12. \A k \in 0..n : starts[k] = IF k = 0 THEN << 8 >> ELSE Follower(starts[k - 1])
    BY <1>4, <1>11
  <1> DEFINE S == {k \in 0..n : starts[k] = g[k]}
  <1>13. 0 \in S
    BY <1>1, <1>8, <1>12
  <1>14. ASSUME NEW k \in 1..n, k - 1 \in S PROVE k \in S
    <2>1. k \in 0..n /\ k # 0
      BY <1>1
    <2>2. starts[k] = Follower(starts[k - 1]) /\ starts[k - 1] = g[k - 1]
      BY <1>12, <1>14, <2>1
    <2> QED BY <1>3, <1>9, <2>1, <2>2
  <1> HIDE DEF S
  <1>15. n \in S
    <2>1. \A k \in 0..n : k \in S
      BY <1>1, <1>13, <1>14, EachStep
    <2> QED BY <1>1, <2>1
  <1>16. BlockStarts(b) = g[n]
    BY <1>2, <1>15 DEF S
  <1> QED BY <1>8, <1>9, <1>16 DEF n

(* The places are those of the blocks of a message, none of them empty. *)
BlocksIn(b, blocks, places) ==
    /\ IsBlocks(blocks) /\ Placed(b, blocks, places)
    /\ \A k \in 1..Len(blocks) : Len(blocks[k]) # 0
    /\ Len(b) = places[Len(blocks) + 1] + 2 /\ b[places[Len(blocks) + 1]] = 0

(* Where a search that has found the first k places goes on. *)
LEMMA NextFound ==
    ASSUME NEW b, NEW blocks, NEW places, BlocksIn(b, blocks, places), NEW k \in 1..Len(blocks) + 1
    PROVE  NextStart(b, Some(places, k)) = Some(places, IF k <= Len(blocks) THEN k + 1 ELSE k)
  <1>1. /\ Len(blocks) \in Nat /\ places \in Seq(Nat) /\ Len(places) = Len(blocks) + 1
        /\ places[k] \in k + 7..places[Len(blocks) + 1] /\ places[Len(blocks) + 1] \in Nat
        /\ Len(b) = places[Len(blocks) + 1] + 2
    <2>1. IsBlocks(blocks) /\ Placed(b, blocks, places)
      BY DEF BlocksIn
    <2>2. Len(blocks) \in Nat /\ \A n \in 1..Len(blocks) + 1 : places[n] \in n + 7..places[Len(blocks) + 1]
      BY <2>1, PlacesUp
    <2>3. places \in Seq(Nat) /\ Len(places) = Len(blocks) + 1
      BY <2>1 DEF Placed
    <2>4. places[Len(blocks) + 1] \in Nat
      <3>1. Len(blocks) + 1 \in 1..Len(places)
        BY <2>2, <2>3
      <3> QED BY <2>3, <3>1, ElementOfSeq
    <2> QED BY <2>2, <2>3, <2>4 DEF BlocksIn
  <1>2. Last(Some(places, k)) = places[k]
    <2>1. k \in 1..Len(places)
      BY <1>1
    <2> QED BY <1>1, <2>1, SomeAre DEF Last
  <1>3. places[k] <= Len(b)
    <2>1. ASSUME NEW x \in Nat, NEW y \in k + 7..x PROVE y <= x + 2
      BY <2>1
    <2>2. places[k] <= places[Len(blocks) + 1] + 2
      BY <1>1, <2>1
    <2> QED BY <1>1, <2>2
  <1>4. CASE k <= Len(blocks)
    <2>1. k \in 1..Len(blocks) /\ k \in 1..Len(places) - 1
      BY <1>1, <1>4
    <2>2. /\ b[places[k]] = Len(blocks[k]) /\ Len(blocks[k]) # 0
          /\ places[k + 1] = places[k] + Len(blocks[k]) + 1
      BY <2>1 DEF BlocksIn, Placed, BlockAt
    <2>3. NextBlock(b, places[k]) = places[k + 1] /\ b[places[k]] # 0
      BY <2>2 DEF NextBlock
    <2>4. Append(Some(places, k), places[k + 1]) = Some(places, k + 1)
      BY <1>1, <2>1, SomeMore
    <2> QED BY <1>2, <1>3, <1>4, <2>3, <2>4 DEF NextStart
  <1>5. CASE ~ (k <= Len(blocks))
    <2>1. k = Len(blocks) + 1
      BY <1>1, <1>5
    <2>2. b[places[k]] = 0
      BY <2>1 DEF BlocksIn
    <2> QED BY <1>2, <1>5, <2>2 DEF NextStart
  <1> QED BY <1>4, <1>5

LEMMA FoundAt ==
    ASSUME NEW b, NEW blocks, NEW places, BlocksIn(b, blocks, places)
    PROVE  BlockStarts(b) = places
  <1> DEFINE m == Len(blocks) + 1
             At(n) == IF n + 1 <= m THEN n + 1 ELSE m
             V == {Some(places, k) : k \in 1..m}
  <1>1. m \in Nat \ {0} /\ Len(b) \in Nat /\ m <= Len(b)
    <2>1. IsBlocks(blocks) /\ Placed(b, blocks, places)
      BY DEF BlocksIn
    <2>2. Len(blocks) \in Nat /\ \A n \in 1..Len(blocks) + 1 : places[n] \in n + 7..places[Len(blocks) + 1]
      BY <2>1, PlacesUp
    <2>3. m \in Nat \ {0} /\ m \in 1..m
      BY <2>2
    <2>4. places \in Seq(Nat) /\ Len(places) = m
      BY <2>1 DEF Placed
    <2>5. places[m] \in Nat
      BY <2>3, <2>4, ElementOfSeq
    <2>6. places[m] \in m + 7..places[m]
      BY <2>2, <2>3
    <2>7. Len(b) = places[m] + 2
      BY DEF BlocksIn
    <2> HIDE DEF m
    <2>8. ASSUME NEW x \in Nat, x \in m + 7..x PROVE x + 2 \in Nat /\ m <= x + 2
      BY <2>3, <2>8
    <2> QED BY <2>3, <2>5, <2>6, <2>7, <2>8
  <1>2. Some(places, 1) = <<8>> /\ Some(places, m) = places
    <2>1. places \in Seq(Nat) /\ Len(places) = m /\ places[1] = 8
      BY DEF BlocksIn, Placed
    <2> HIDE DEF m
    <2>2. Some(places, m) = places
      BY <2>1, SubSeqFull DEF Some
    <2>3. /\ Some(places, 1) \in Seq(Nat) /\ Len(Some(places, 1)) = 1
          /\ Some(places, 1)[1] = places[1]
      <3>1. 1 \in 1..Len(places)
        BY <1>1, <2>1
      <3> QED BY <2>1, <3>1, SomeAre
    <2>4. <<8>> \in Seq(Nat) /\ Len(<<8>>) = 1 /\ <<8>>[1] = 8
      OBVIOUS
    <2>5. <<8>> = Some(places, 1)
      <3>1. \A i \in 1..Len(<<8>>) : <<8>>[i] = Some(places, 1)[i]
        BY <2>1, <2>3, <2>4
      <3>2. Len(<<8>>) = Len(Some(places, 1))
        BY <2>3, <2>4
      <3> QED BY <2>3, <2>4, <3>1, <3>2, SeqEqual
    <2> QED BY <2>2, <2>5
  <1>3. ASSUME NEW k \in 1..m
        PROVE  NextStart(b, Some(places, k)) = Some(places, IF k + 1 <= m THEN k + 1 ELSE m)
    <2>1. NextStart(b, Some(places, k)) = Some(places, IF k <= Len(blocks) THEN k + 1 ELSE k)
      BY NextFound
    <2>2. (IF k <= Len(blocks) THEN k + 1 ELSE k) = (IF k + 1 <= m THEN k + 1 ELSE m)
      BY <1>1
    <2> QED BY <2>1, <2>2
  <1> HIDE DEF m
  <1>4. PICK g : /\ g[0] = <<8>> /\ \A n \in 1..Len(b) : g[n] = NextStart(b, g[n - 1])
                 /\ BlockStarts(b) = g[Len(b)]
    <2>1. <<8>> \in V
      <3>1. 1 \in 1..m
        BY <1>1
      <3> QED BY <1>2, <3>1
    <2>2. ASSUME NEW s \in V PROVE NextStart(b, s) \in V
      <3>1. PICK k \in 1..m : s = Some(places, k)
        OBVIOUS
      <3>2. (IF k + 1 <= m THEN k + 1 ELSE m) \in 1..m
        BY <1>1
      <3> QED BY <1>3, <3>1, <3>2
    <2> HIDE DEF V
    <2> QED BY <1>1, <2>1, <2>2, BlockStartsSteps
  <1> DEFINE S == {n \in 0..Len(b) : g[n] = Some(places, At(n))}
  <1>5. 0 \in S
    <2>1. At(0) = 1 /\ 0 \in 0..Len(b)
      BY <1>1
    <2> QED BY <1>2, <1>4, <2>1
  <1>6. ASSUME NEW n \in 1..Len(b), n - 1 \in S PROVE n \in S
    <2>1. /\ n \in 0..Len(b) /\ At(n - 1) \in 1..m
          /\ (IF At(n - 1) + 1 <= m THEN At(n - 1) + 1 ELSE m) = At(n)
      BY <1>1
    <2>2. g[n] = NextStart(b, g[n - 1]) /\ g[n - 1] = Some(places, At(n - 1))
      BY <1>4, <1>6
    <2> HIDE DEF At
    <2>3. g[n] = Some(places, At(n))
      BY <1>3, <2>1, <2>2
    <2> QED BY <2>1, <2>3
  <1> HIDE DEF S
  <1>7. Len(b) \in S
    <2>1. \A n \in 0..Len(b) : n \in S
      BY <1>1, <1>5, <1>6, EachStep
    <2> QED BY <1>1, <2>1
  <1>8. At(Len(b)) = m
    BY <1>1
  <1> HIDE DEF At
  <1> QED BY <1>2, <1>4, <1>7, <1>8 DEF S
(* The bytes of a server, the lowest first. *)
ServerBytes(n, a, b, c, d) ==
    a = Low(n) /\ b = High(n) /\ c = Low(n \div 65536) /\ d = High(n \div 65536)

LEMMA ServerValue ==
    ASSUME NEW n, IsServer(n), NEW a, NEW b, NEW c, NEW d, ServerBytes(n, a, b, c, d)
    PROVE  (a + 256 * b) + 65536 * (c + 256 * d) = n
  <1>1. n \in Nat /\ n \div 65536 < 65536
    BY DEF IsServer
  <1>2. (Low(n) + 256 * High(n)) + 65536 * (Low(n \div 65536) + 256 * High(n \div 65536)) = n
    BY <1>1, LongValue
  <1> QED BY <1>2 DEF ServerBytes

LEMMA ServerAt ==
    ASSUME NEW n, IsServer(n), NEW s, ServerBytes(n, s[1], s[2], s[3], s[4])
    PROVE  LongAt(s, 1) = n
  <1>1. ShortAt(s, 1) = s[1] + 256 * s[2] /\ ShortAt(s, 3) = s[3] + 256 * s[4]
    BY DEF ShortAt
  <1>2. LongAt(s, 1) = ShortAt(s, 1) + 65536 * ShortAt(s, 3)
    BY DEF LongAt
  <1>3. (s[1] + 256 * s[2]) + 65536 * (s[3] + 256 * s[4]) = n
    BY ServerValue
  <1> QED BY <1>1, <1>2, <1>3

LEMMA BigEndianBytes ==
    ASSUME NEW n, IsServer(n)
    PROVE  /\ BigEndian(n) \in Seq(Byte) /\ Len(BigEndian(n)) = 4
           /\ ServerBytes(n, BigEndian(n)[4], BigEndian(n)[3], BigEndian(n)[2], BigEndian(n)[1])
  <1>1. n \in Nat
    BY DEF IsServer
  <1> QED BY <1>1, BigEndianIs DEF ServerBytes

LEMMA BigEndianValue ==
    ASSUME NEW n, IsServer(n), NEW b \in Seq(Byte), Len(b) >= 4,
           \A i \in 1..4 : b[i] = BigEndian(n)[i]
    PROVE  BigEndianAt(b, 1) = n
  <1> DEFINE s == SubSeq(b, 1, 4)
             r == [i \in 1..4 |-> s[(4 - i) + 1]]
  <1>1. Len(s) = 4 /\ \A i \in 1..4 : s[i] = b[i]
    <2>1. Len(b) \in Nat
      BY LenProperties
    <2>2. 4 \in 0..Len(b)
      BY <2>1
    <2> DEFINE p == Prefix(b, 4)
    <2>3. Len(p) = 4 /\ \A i \in 1..4 : p[i] = b[i]
      BY <2>2, PrefixOf
    <2>4. s = p
      BY Zenon DEF Prefix
    <2> QED BY <2>3, <2>4, Zenon
  <1>2. BigEndianAt(b, 1) = LongAt(r, 1)
    <2>1. 1 + 3 = 4
      OBVIOUS
    <2>2. BigEndianAt(b, 1) = LongAt(Reverse(s), 1)
      BY <2>1 DEF BigEndianAt
    <2>3. Len(s) = 4
      BY <1>1
    <2> HIDE DEF s
    <2>4. Reverse(s) = r
      BY <2>3 DEF Reverse
    <2> QED BY <2>2, <2>4
  <1> HIDE DEF s
  <1>3. r[1] = s[4] /\ r[2] = s[3] /\ r[3] = s[2] /\ r[4] = s[1]
    OBVIOUS
  <1> HIDE DEF r
  <1>4. s[1] = BigEndian(n)[1] /\ s[2] = BigEndian(n)[2] /\ s[3] = BigEndian(n)[3] /\ s[4] = BigEndian(n)[4]
    <2>1. 1 \in 1..4 /\ 2 \in 1..4 /\ 3 \in 1..4 /\ 4 \in 1..4
      OBVIOUS
    <2>2. \A i \in 1..4 : s[i] = BigEndian(n)[i]
      BY <1>1, Zenon
    <2> QED BY <2>1, <2>2, Zenon
  <1>5. ServerBytes(n, r[1], r[2], r[3], r[4])
    BY <1>3, <1>4, BigEndianBytes, Zenon
  <1> QED BY <1>2, <1>5, ServerAt

(* What is in front of the checksum of a message. *)
LEMMA MessageBody ==
    ASSUME NEW b, NEW attr, NEW blocks, NEW body, IsMessage(b, attr, blocks, body)
    PROVE  /\ SubSeq(b, 1, Len(b) - 2) = body /\ Len(body) \in Nat /\ Len(body) >= 8
           /\ Len(b) \in Nat /\ Len(b) - 1 = Len(body) + 1 /\ Len(b) = Len(body) + 2
           /\ Len(b) - 2 = Len(body)
  <1>1. /\ b \in Seq(Byte) /\ body \in Seq(Byte) /\ Blocks(blocks) \in Seq(Byte)
        /\ Len(b) = Len(body) + 2 /\ Len(body) = 8 + Len(Blocks(blocks))
        /\ \A i \in 1..Len(body) : b[i] = body[i]
    BY DEF IsMessage
  <1>2. Len(b) \in Nat /\ Len(body) \in Nat /\ Len(Blocks(blocks)) \in Nat
    BY <1>1, LenProperties
  <1>3. Len(b) - 1 = Len(body) + 1 /\ Len(b) - 2 = Len(body) /\ Len(body) >= 8 /\ Len(body) \in 0..Len(b)
    BY <1>1, <1>2
  <1>4. /\ Prefix(b, Len(body)) \in Seq(Byte) /\ Len(Prefix(b, Len(body))) = Len(body)
        /\ \A i \in 1..Len(body) : Prefix(b, Len(body))[i] = b[i]
    BY <1>1, <1>3, PrefixOf
  <1> DEFINE p == Prefix(b, Len(body))
  <1>5. p \in Seq(Byte) /\ Len(p) = Len(body) /\ \A i \in 1..Len(p) : p[i] = body[i]
    BY <1>1, <1>4
  <1> HIDE DEF p
  <1>6. p = body
    BY <1>1, <1>5, SeqEqual
  <1>7. SubSeq(b, 1, Len(b) - 2) = body
    BY <1>3, <1>6 DEF p, Prefix
  <1> QED BY <1>1, <1>2, <1>3, <1>7

LEMMA MessageFound ==
    ASSUME NEW b, NEW attr, NEW blocks, NEW body, IsMessage(b, attr, blocks, body), IsBlocks(blocks),
           \A k \in 1..Len(blocks) : blocks[k] # <<>>
    PROVE  \E places : BlocksIn(b, blocks, places) /\ places[Len(blocks) + 1] = Len(body)
  <1>1. \A j \in 1..Len(Blocks(blocks)) : b[7 + j] = Blocks(blocks)[j]
    BY DEF IsMessage
  <1>2. PICK places : /\ Placed(b, blocks, places)
                      /\ places[Len(blocks) + 1] = 8 + Len(Blocks(blocks))
    BY <1>1, BlocksPlaced
  <1>3. places[Len(blocks) + 1] = Len(body) /\ Len(b) = Len(body) + 2 /\ b[Len(body)] = 0
    BY <1>2 DEF IsMessage
  <1>4. ASSUME NEW k \in 1..Len(blocks) PROVE Len(blocks[k]) # 0
    <2>1. blocks[k] \in Seq(Byte) /\ blocks[k] # <<>>
      BY BlockIs
    <2> QED BY <2>1, EmptySeq
  <1>5. BlocksIn(b, blocks, places)
    BY <1>2, <1>3, <1>4 DEF BlocksIn
  <1> QED BY <1>3, <1>5

(* What was put into a message is decoded again. *)
LEMMA BlocksRead ==
    ASSUME NEW b \in Seq(Byte), NEW blocks, NEW places, BlocksIn(b, blocks, places)
    PROVE  DecodedBlocks(b) = blocks
  <1> DEFINE m == Len(blocks)
             front == Front(BlockStarts(b))
  <1>1. /\ m \in Nat /\ Len(b) \in Nat /\ blocks \in Seq(Seq(Byte)) /\ places \in Seq(Nat) /\ Len(places) = m + 1
        /\ Len(b) = places[m + 1] + 2
        /\ \A k \in 1..m + 1 : places[k] \in k + 7..places[m + 1]
        /\ \A k \in 1..m : BlockAt(b, places[k], blocks[k]) /\ places[k + 1] = places[k] + Len(blocks[k]) + 1
    <2>1. IsBlocks(blocks) /\ Placed(b, blocks, places) /\ Len(b) = places[m + 1] + 2
      BY DEF BlocksIn
    <2>2. m \in Nat /\ \A k \in 1..m + 1 : places[k] \in k + 7..places[m + 1]
      BY <2>1, PlacesUp
    <2>3. Len(b) \in Nat
      BY LenProperties
    <2> QED BY <2>1, <2>2, <2>3 DEF Placed, IsBlocks
  <1>2. \A k \in 1..m : blocks[k] \in Seq(Byte) /\ Len(blocks[k]) \in Nat
    <2>1. IsBlocks(blocks)
      BY DEF BlocksIn
    <2> QED BY <2>1, BlockIs
  <1>3. Len(front) = m /\ \A k \in 1..m : front[k] = places[k]
    <2>1. BlockStarts(b) = places
      BY FoundAt
    <2>2. front = Prefix(places, Len(places) - 1)
      BY <2>1 DEF Front, Prefix
    <2> HIDE DEF m, front
    <2>3. Len(places) - 1 = m /\ m \in 0..Len(places)
      BY <1>1
    <2>4. Len(Prefix(places, m)) = m /\ \A i \in 1..m : Prefix(places, m)[i] = places[i]
      BY <1>1, <2>3, PrefixOf
    <2> QED BY <2>2, <2>3, <2>4
  <1>4. DecodedBlocks(b) = [k \in 1..Len(front) |-> SubSeq(b, front[k] + 1, front[k] + b[front[k]])]
    BY DEF DecodedBlocks
  <1> HIDE DEF m, front
  <1>5. ASSUME NEW k \in 1..m
        PROVE  SubSeq(b, front[k] + 1, front[k] + b[front[k]]) = blocks[k]
    <2> DEFINE o == places[k]
               d == Len(blocks[k])
               z == places[m + 1]
               L == Len(b)
    <2>1. k \in 1..m + 1 /\ k + 1 \in 1..m + 1 /\ k \in Nat /\ m + 1 \in Nat /\ m + 1 \in 1..m + 1
      BY <1>1
    <2>2. o \in k + 7..z /\ places[k + 1] \in (k + 1) + 7..z /\ places[k + 1] = o + d + 1 /\ d \in Nat /\ L = z + 2
      BY <1>1, <1>2, <2>1
    <2>3. front[k] = o /\ b[o] = d /\ \A i \in 1..d : b[o + i] = blocks[k][i]
      BY <1>1, <1>3 DEF BlockAt
    <2>6. z \in Int /\ L \in Nat
      <3>1. z \in Nat
        BY <1>1, <2>1, ElementOfSeq
      <3> QED BY <1>1, <3>1
    <2> HIDE DEF o, d, z, L
    <2>4. o \in 0..L /\ o + d \in 0..L /\ o <= o + d /\ (o + d) - o = d
      <3>1. ASSUME NEW x, x = o + d + 1, x \in (k + 1) + 7..z PROVE o + d <= z
        BY <2>1, <2>2, <2>6, <3>1
      <3>2. o + d <= z
        BY <2>2, <3>1
      <3> QED BY <2>1, <2>2, <2>6, <3>2
    <2> DEFINE q == SubSeq(b, o + 1, o + d)
    <2>5. q \in Seq(Byte) /\ Len(q) = d /\ \A i \in 1..d : q[i] = b[o + i]
      <3>1. /\ SubSeq(b, o + 1, o + d) \in Seq(Byte) /\ Len(SubSeq(b, o + 1, o + d)) = (o + d) - o
            /\ \A i \in 1..(o + d) - o : SubSeq(b, o + 1, o + d)[i] = b[o + i]
        BY <2>4, PieceIs DEF L
      <3> QED BY <2>4, <3>1
    <2> HIDE DEF q
    <2>7. blocks[k] \in Seq(Byte) /\ Len(blocks[k]) = Len(q) /\ \A i \in 1..Len(q) : q[i] = blocks[k][i]
      BY <1>2, <2>3, <2>5 DEF d
    <2>8. q = blocks[k]
      BY <2>5, <2>7, SeqEqual
    <2> QED BY <2>3, <2>8 DEF q
  <1>6. blocks = [k \in 1..m |-> blocks[k]]
    BY <1>1, LenProperties DEF m
  <1> QED BY <1>3, <1>4, <1>5, <1>6

LEMMA MessageRead ==
    ASSUME NEW b, NEW attr, IsMidepAttr(attr), NEW blocks, NEW body, IsMessage(b, attr, blocks, body),
           IsBlocks(blocks), \A k \in 1..Len(blocks) : blocks[k] # <<>>,
           Len(blocks) <= MIDEP_DATA_BLOCKS_MAX_COUNT
    PROVE  MidepValid(b) /\ DecodeMessage(b) = [attr |-> attr, blocks |-> blocks]
  <1>1. /\ SubSeq(b, 1, Len(b) - 2) = body /\ Len(body) \in Nat /\ Len(body) >= 8
        /\ Len(b) \in Nat /\ Len(b) - 1 = Len(body) + 1 /\ Len(b) = Len(body) + 2
        /\ Len(b) - 2 = Len(body)
    BY MessageBody
  <1>2. PICK places : BlocksIn(b, blocks, places) /\ places[Len(blocks) + 1] = Len(body)
    BY MessageFound
  <1>3. BlockStarts(b) = places
    BY <1>2, FoundAt
  <1>4. Len(places) = Len(blocks) + 1 /\ Len(blocks) \in Nat
    <2>1. Placed(b, blocks, places)
      BY <1>2 DEF BlocksIn
    <2>2. Len(blocks) \in Nat
      BY <2>1, PlacesUp
    <2> QED BY <2>1, <2>2 DEF Placed
  <1>5. MidepValid(b)
    <2> DEFINE crc == usGetMidepMessageCRC(body)
    <2>1. b[Len(b) - 1] = High(crc) /\ b[Len(b)] = Low(crc)
      BY <1>1 DEF IsMessage
    <2>2. Low(crc) + 256 * High(crc) = crc
      BY MidepChecksum, BytesValue
    <2>3. b[Len(b) - 2] = 0
      BY <1>1 DEF IsMessage
    <2>4. Last(BlockStarts(b)) <= Len(b)
      <3>1. Last(BlockStarts(b)) = Len(body)
        BY <1>2, <1>3, <1>4 DEF Last
      <3> QED BY <1>1, <3>1
    <2>5. Len(BlockStarts(b)) <= MIDEP_DATA_BLOCKS_MAX_COUNT + 1
      BY <1>3, <1>4 DEF MIDEP_DATA_BLOCKS_MAX_COUNT
    <2>6. usGetMidepMessageCRC(SubSeq(b, 1, Len(b) - 2)) = b[Len(b)] + 256 * b[Len(b) - 1]
      BY <1>1, <2>1, <2>2, Zenon
    <2>7. Len(b) >= 10
      BY <1>1
    <2> QED BY <2>3, <2>4, <2>5, <2>6, <2>7 DEF MidepValid
  <1>6. DecodeMessage(b) = [attr |-> attr, blocks |-> blocks]
    <2>1. BigEndianAt(b, 1) = attr.server
      <3>1. IsServer(attr.server)
        BY DEF IsMidepAttr
      <3>2. b \in Seq(Byte) /\ Len(b) >= 4 /\ \A i \in 1..4 : b[i] = BigEndian(attr.server)[i]
        BY <1>1 DEF IsMessage
      <3> QED BY <3>1, <3>2, BigEndianValue
    <2>2. DecodedBlocks(b) = blocks
      <3>1. b \in Seq(Byte)
        BY DEF IsMessage
      <3> QED BY <1>2, <3>1, BlocksRead
    <2>3. b[5] = attr.command /\ b[6] = attr.sub /\ b[7] \div 64 = attr.index /\ b[7] % 64 = attr.result
      <3>1. b[5] = attr.command /\ b[6] = attr.sub /\ b[7] = IndexAndResult(attr)
        BY DEF IsMessage
      <3> QED BY <3>1, IndexResult
    <2>4. attr = [server |-> attr.server, command |-> attr.command, sub |-> attr.sub,
                  index |-> attr.index, result |-> attr.result]
      BY DEF IsMidepAttr
    <2> QED BY <2>1, <2>2, <2>3, <2>4, Zenon DEF DecodeMessage
  <1> QED BY <1>5, <1>6
-----------------------------------------------------------------------------
(* An older packet of which one byte has become another is refused. *)

LEMMA SwappedIs ==
    ASSUME NEW b \in Seq(Byte), NEW i \in 1..Len(b), NEW v \in Byte
    PROVE  /\ Swapped(b, i, v) \in Seq(Byte) /\ Len(Swapped(b, i, v)) = Len(b)
           /\ Swapped(b, i, v)[i] = v
           /\ \A j \in 1..Len(b) : j # i => Swapped(b, i, v)[j] = b[j]
  <1> DEFINE n == Len(b)
             c == [b EXCEPT ![i] = v]
  <1>1. n \in Nat /\ b \in [1..n -> Byte] /\ i \in 1..n
    BY LenProperties
  <1>2. Swapped(b, i, v) = c
    BY DEF Swapped
  <1> HIDE DEF n
  <1>3. c \in [1..n -> Byte] /\ c[i] = v /\ \A j \in 1..n : j # i => c[j] = b[j]
    BY <1>1
  <1> HIDE DEF c
  <1>4. c \in Seq(Byte) /\ Len(c) = n
    BY <1>1, <1>3, SequenceOf
  <1> QED BY <1>2, <1>3, <1>4 DEF n

(* The checksum is of everything but the last two bytes. *)
Guarded(b, body, low, high) ==
    /\ b \in Seq(Byte) /\ body \in Seq(Byte) /\ Len(b) = Len(body) + 2
    /\ \A i \in 1..Len(body) : b[i] = body[i]
    /\ low \in 1..2 /\ high \in 1..2 /\ low # high

OtherSum(b, body, low, high, c) ==
    /\ c \in Seq(Byte) /\ Len(c) = Len(body) + 2
    /\ \/ /\ OneDiffers(body, SubSeq(c, 1, Len(body)))
          /\ c[Len(body) + low] = b[Len(body) + low] /\ c[Len(body) + high] = b[Len(body) + high]
       \/ /\ SubSeq(c, 1, Len(body)) = body
          /\ c[Len(body) + low] + 256 * c[Len(body) + high] # b[Len(body) + low] + 256 * b[Len(body) + high]

(* One other byte is either checked or one of the checksum's. *)
LEMMA OneSwapped ==
    ASSUME NEW b, NEW body, NEW low, NEW high, Guarded(b, body, low, high),
           NEW i \in 1..Len(b), NEW v \in Byte, v # b[i]
    PROVE  OtherSum(b, body, low, high, Swapped(b, i, v))
  <1> DEFINE c == Swapped(b, i, v)
             n == Len(body)
             p == Prefix(c, n)
  <1>1. /\ b \in Seq(Byte) /\ body \in Seq(Byte) /\ Len(b) = n + 2
        /\ \A j \in 1..n : b[j] = body[j]
        /\ low \in 1..2 /\ high \in 1..2 /\ low # high
    BY DEF Guarded
  <1>2. /\ c \in Seq(Byte) /\ Len(c) = n + 2 /\ c[i] = v
        /\ \A j \in 1..n + 2 : j # i => c[j] = b[j]
    <2>1. /\ c \in Seq(Byte) /\ Len(c) = Len(b) /\ c[i] = v
          /\ \A j \in 1..Len(b) : j # i => c[j] = b[j]
      BY <1>1, SwappedIs
    <2> HIDE DEF c, n
    <2> QED BY <1>1, <2>1
  <1>3. n \in Nat /\ i \in 1..n + 2
    BY <1>1, LenProperties
  <1> HIDE DEF c, n
  <1>4. /\ p \in Seq(Byte) /\ Len(p) = n /\ \A j \in 1..n : p[j] = c[j]
    <2>1. n \in 0..Len(c)
      BY <1>2, <1>3
    <2> QED BY <1>2, <2>1, PrefixOf
  <1>5. SubSeq(c, 1, n) = p
    BY DEF Prefix
  <1> HIDE DEF p
  <1>6. n + low \in 1..n + 2 /\ n + high \in 1..n + 2 /\ n + low # n + high
    BY <1>1, <1>3
  <1>7. CASE i \in 1..n
    <2>1. n + low # i /\ n + high # i
      BY <1>1, <1>3, <1>7
    <2>2. c[n + low] = b[n + low] /\ c[n + high] = b[n + high]
      BY <1>2, <1>6, <2>1
    <2>3. \A j \in 1..n : j \in 1..n + 2
      BY <1>3
    <2>4. \A j \in 1..n : j # i => body[j] = p[j]
      BY <1>1, <1>2, <1>4, <2>3
    <2>5. body[i] # p[i]
      BY <1>1, <1>2, <1>4, <1>7
    <2>6. OneDiffers(body, p)
      BY <1>1, <1>4, <1>7, <2>4, <2>5 DEF OneDiffers, n
    <2> QED BY <1>2, <1>5, <2>2, <2>6 DEF c, n, OtherSum
  <1>8. CASE i \notin 1..n
    <2>1. \A j \in 1..n : j \in 1..n + 2 /\ j # i
      BY <1>3, <1>8
    <2>2. \A j \in 1..n : p[j] = body[j]
      BY <1>1, <1>2, <1>4, <2>1
    <2>3. p = body
      <3>1. Len(p) = Len(body) /\ \A j \in 1..Len(p) : p[j] = body[j]
        BY <1>4, <2>2 DEF n
      <3> QED BY <1>1, <1>4, <3>1, SeqEqual
    <2>4. c[n + low] + 256 * c[n + high] # b[n + low] + 256 * b[n + high]
      <3> DEFINE x == c[n + low]
                 y == c[n + high]
                 s == b[n + low]
                 t == b[n + high]
      <3>1. x \in Byte /\ y \in Byte /\ s \in Byte /\ t \in Byte
        <4>1. \A j \in 1..n + 2 : c[j] \in Byte
          BY <1>2, ElementOfSeq
        <4>2. \A j \in 1..n + 2 : b[j] \in Byte
          BY <1>1, ElementOfSeq
        <4> QED BY <1>6, <4>1, <4>2
      <3>2. x # s \/ y # t
        <4>1. i = n + low \/ i = n + high
          BY <1>1, <1>3, <1>8
        <4> QED BY <1>2, <4>1
      <3> HIDE DEF x, y, s, t
      <3>3. x + 256 * y # s + 256 * t
        BY <3>1, <3>2 DEF Byte
      <3> QED BY <3>3 DEF x, y, s, t
    <2> QED BY <1>2, <1>5, <2>3, <2>4 DEF c, n, OtherSum
  <1> QED BY <1>7, <1>8

LEMMA MessageDamaged ==
    ASSUME NEW b, NEW attr, NEW blocks, NEW body, IsMessage(b, attr, blocks, body),
           NEW i \in 1..Len(b), NEW v \in Byte, v # b[i]
    PROVE  ~MidepValid(Swapped(b, i, v))
  <1> DEFINE c == Swapped(b, i, v)
             n == Len(body)
             crc == usGetMidepMessageCRC(body)
  <1>1. Guarded(b, body, 2, 1)
    BY DEF IsMessage, Guarded
  <1>2. /\ c \in Seq(Byte) /\ Len(c) = n + 2
        /\ \/ /\ OneDiffers(body, SubSeq(c, 1, n))
              /\ c[n + 2] = b[n + 2] /\ c[n + 1] = b[n + 1]
           \/ /\ SubSeq(c, 1, n) = body
              /\ c[n + 2] + 256 * c[n + 1] # b[n + 2] + 256 * b[n + 1]
    <2>1. OtherSum(b, body, 2, 1, c)
      BY <1>1, OneSwapped
    <2> QED BY <2>1 DEF OtherSum
  <1>3. b[n + 2] + 256 * b[n + 1] = crc
    <2>1. b[n + 1] = High(crc) /\ b[n + 2] = Low(crc)
      BY DEF IsMessage
    <2>2. Low(crc) + 256 * High(crc) = crc
      BY MidepChecksum, BytesValue
    <2> QED BY <2>1, <2>2, Zenon
  <1>4. n \in Nat
    BY LenProperties DEF IsMessage
  <1> HIDE DEF c, n
  <1>5. Len(c) - 2 = n /\ Len(c) - 1 = n + 1
    BY <1>2, <1>4
  <1>6. usGetMidepMessageCRC(SubSeq(c, 1, n)) # c[n + 2] + 256 * c[n + 1]
    <2>1. CASE OneDiffers(body, SubSeq(c, 1, n)) /\ c[n + 2] = b[n + 2] /\ c[n + 1] = b[n + 1]
      <3>1. crc # usGetMidepMessageCRC(SubSeq(c, 1, n))
        BY <2>1, MidepDiffers
      <3> QED BY <1>3, <2>1, <3>1, Zenon
    <2>2. CASE SubSeq(c, 1, n) = body /\ c[n + 2] + 256 * c[n + 1] # b[n + 2] + 256 * b[n + 1]
      BY <1>3, <2>2, Zenon
    <2> QED BY <1>2, <2>1, <2>2, Zenon
  <1>7. ~MidepValid(c)
    BY <1>2, <1>5, <1>6, Zenon DEF MidepValid
  <1> QED BY <1>7 DEF c
-----------------------------------------------------------------------------
(* The shuttle that establishes a connection. *)

IsShuttle(b, server, body) ==
    /\ Guarded(b, body, 1, 2) /\ Len(body) = 9
    /\ b = body \o Short(usGet_PL_CRC16(body))
    /\ b[10] = Low(usGet_PL_CRC16(body)) /\ b[11] = High(usGet_PL_CRC16(body))
    /\ b[1] = 119 /\ ServerBytes(server, b[2], b[3], b[4], b[5])

LEMMA ShuttleIs ==
    ASSUME NEW server, IsServer(server)
    PROVE  \E body : IsShuttle(CreateEstConShuttle(server, 1024), server, body)
  <1> DEFINE sync == <<119>>
             address == Long(server)
             zero == <<0>>
             size == Short(1024)
             command == <<9>>
             p == sync \o address
             q == p \o zero
             r == q \o size
             body == r \o command
             crc == usGet_PL_CRC16(body)
             tail == Short(crc)
             b == body \o tail
  <1>1. CreateEstConShuttle(server, 1024) = b
    BY DEF CreateEstConShuttle
  <1>2. /\ sync \in Seq(Byte) /\ Len(sync) = 1 /\ sync[1] = 119
        /\ zero \in Seq(Byte) /\ Len(zero) = 1
        /\ command \in Seq(Byte) /\ Len(command) = 1
    <2>1. 119 \in Byte /\ 0 \in Byte /\ 9 \in Byte
      BY DEF Byte
    <2> QED BY <2>1
  <1>3. /\ address \in Seq(Byte) /\ Len(address) = 4
        /\ ServerBytes(server, address[1], address[2], address[3], address[4])
    <2>1. server \in Nat
      BY DEF IsServer
    <2> QED BY <2>1, LongIs DEF ServerBytes
  <1>4. size \in Seq(Byte) /\ Len(size) = 2
    BY ShortIs
  <1> HIDE DEF sync, address, zero, size, command
  <1>5. p \in Seq(Byte) /\ Joins(p, sync, address)
    BY <1>2, <1>3, ConcatIs
  <1> HIDE DEF p
  <1>6. q \in Seq(Byte) /\ Joins(q, p, zero)
    BY <1>2, <1>5, ConcatIs
  <1> HIDE DEF q
  <1>7. r \in Seq(Byte) /\ Joins(r, q, size)
    BY <1>4, <1>6, ConcatIs
  <1> HIDE DEF r
  <1>8. body \in Seq(Byte) /\ Joins(body, r, command)
    BY <1>2, <1>7, ConcatIs
  <1> HIDE DEF body
  <1>9. tail \in Seq(Byte) /\ Len(tail) = 2 /\ tail[1] = Low(crc) /\ tail[2] = High(crc)
    <2>1. crc \in Nat
      BY ShuttleChecksum DEF HalfWord
    <2> HIDE DEF crc
    <2> QED BY <2>1, ShortIs
  <1> HIDE DEF tail, crc
  <1>10. b \in Seq(Byte) /\ Joins(b, body, tail)
    BY <1>8, <1>9, ConcatIs
  <1> HIDE DEF b
  <1>11. Len(p) = 5 /\ Len(q) = 6 /\ Len(r) = 8 /\ Len(body) = 9 /\ Len(b) = 11
    <2>1. Len(p) = 5
      BY <1>2, <1>3, <1>5 DEF Joins
    <2>2. Len(q) = 6
      BY <2>1, <1>2, <1>6 DEF Joins
    <2>3. Len(r) = 8
      BY <2>2, <1>4, <1>7 DEF Joins
    <2>4. Len(body) = 9
      BY <2>3, <1>2, <1>8 DEF Joins
    <2>5. Len(b) = 11
      BY <2>4, <1>9, <1>10 DEF Joins
    <2> QED BY <2>1, <2>2, <2>3, <2>4, <2>5
  <1>12. \A i \in 1..9 : b[i] = body[i]
    BY <1>10, <1>11 DEF Joins
  <1>13. b[10] = Low(crc) /\ b[11] = High(crc)
    <2>1. 1 \in 1..2 /\ 2 \in 1..2 /\ 9 + 1 = 10 /\ 9 + 2 = 11
      OBVIOUS
    <2> QED BY <1>9, <1>10, <1>11, <2>1 DEF Joins
  <1>14. \A i \in 1..5 : b[i] = p[i]
    <2> TAKE i \in 1..5
    <2>1. i \in 1..6 /\ i \in 1..8 /\ i \in 1..9
      OBVIOUS
    <2>2. q[i] = p[i]
      BY <1>6, <1>11 DEF Joins
    <2>3. r[i] = q[i]
      BY <1>7, <1>11, <2>1 DEF Joins
    <2>4. body[i] = r[i]
      BY <1>8, <1>11, <2>1 DEF Joins
    <2> QED BY <1>12, <2>1, <2>2, <2>3, <2>4
  <1>15. p[1] = 119
    <2>1. 1 \in 1..Len(sync)
      BY <1>2
    <2> QED BY <1>2, <1>5, <2>1 DEF Joins
  <1>16. p[2] = address[1] /\ p[3] = address[2] /\ p[4] = address[3] /\ p[5] = address[4]
    <2>1. \A i \in 1..4 : p[1 + i] = address[i]
      BY <1>2, <1>3, <1>5 DEF Joins
    <2>2. /\ 1 \in 1..4 /\ 2 \in 1..4 /\ 3 \in 1..4 /\ 4 \in 1..4
          /\ 1 + 1 = 2 /\ 1 + 2 = 3 /\ 1 + 3 = 4 /\ 1 + 4 = 5
      OBVIOUS
    <2> QED BY <2>1, <2>2
  <1>17. b[1] = 119 /\ ServerBytes(server, b[2], b[3], b[4], b[5])
    <2>1. 1 \in 1..5 /\ 2 \in 1..5 /\ 3 \in 1..5 /\ 4 \in 1..5 /\ 5 \in 1..5
      OBVIOUS
    <2>2. b[1] = p[1] /\ b[2] = p[2] /\ b[3] = p[3] /\ b[4] = p[4] /\ b[5] = p[5]
      BY <1>14, <2>1
    <2> QED BY <1>3, <1>15, <1>16, <2>2, Zenon
  <1>18. Guarded(b, body, 1, 2)
    BY <1>8, <1>10, <1>11, <1>12 DEF Guarded
  <1>19. IsShuttle(b, server, body)
    <2>1. b = body \o Short(usGet_PL_CRC16(body))
      BY DEF b, tail, crc
    <2>2. b[10] = Low(usGet_PL_CRC16(body)) /\ b[11] = High(usGet_PL_CRC16(body))
      BY <1>13 DEF crc
    <2> QED BY <1>11, <1>17, <1>18, <2>1, <2>2, Zenon DEF IsShuttle
  <1> QED BY <1>1, <1>19

LEMMA ShuttleBody ==
    ASSUME NEW b, NEW server, NEW body, IsShuttle(b, server, body)
    PROVE  /\ b \in Seq(Byte) /\ Len(b) = 11 /\ Len(b) - 1 = 10 /\ Len(b) - 2 = 9
           /\ SubSeq(b, 1, 9) = body /\ Len(body) = 9
  <1>1. /\ b \in Seq(Byte) /\ body \in Seq(Byte) /\ Len(b) = Len(body) + 2 /\ Len(body) = 9
        /\ \A i \in 1..Len(body) : b[i] = body[i]
    BY DEF IsShuttle, Guarded
  <1>2. Len(b) = 11
    BY <1>1
  <1> DEFINE p == Prefix(b, 9)
  <1>3. p \in Seq(Byte) /\ Len(p) = 9 /\ \A i \in 1..9 : p[i] = b[i]
    <2>1. 9 \in 0..Len(b)
      BY <1>2
    <2> QED BY <1>1, <2>1, PrefixOf
  <1>4. SubSeq(b, 1, 9) = p
    BY DEF Prefix
  <1> HIDE DEF p
  <1>5. p = body
    <2>1. Len(p) = Len(body) /\ \A i \in 1..Len(p) : p[i] = body[i]
      BY <1>1, <1>3
    <2> QED BY <1>1, <1>3, <2>1, SeqEqual
  <1> QED BY <1>1, <1>2, <1>4, <1>5

LEMMA ShuttleRead ==
    ASSUME NEW b, NEW server, IsServer(server), NEW body, IsShuttle(b, server, body)
    PROVE  /\ ShuttleValid(b) /\ ExtractAddress(b) = server
           /\ CompileShuttle(SubSeq(b, 1, Len(b) - 2)) = b
  <1> DEFINE crc == usGet_PL_CRC16(body)
  <1>1. /\ b \in Seq(Byte) /\ Len(b) = 11 /\ Len(b) - 1 = 10 /\ Len(b) - 2 = 9
        /\ SubSeq(b, 1, 9) = body /\ Len(body) = 9
    BY ShuttleBody
  <1>2. /\ b = body \o Short(crc) /\ b[10] = Low(crc) /\ b[11] = High(crc)
        /\ b[1] = 119 /\ ServerBytes(server, b[2], b[3], b[4], b[5])
    BY Zenon DEF IsShuttle
  <1>3. Low(crc) + 256 * High(crc) = crc
    BY ShuttleChecksum, BytesValue
  <1> HIDE DEF crc
  <1>4. ShortAt(b, Len(b) - 1) = crc
    <2>1. ShortAt(b, 10) = b[10] + 256 * b[11]
      BY DEF ShortAt
    <2> QED BY <1>1, <1>2, <1>3, <2>1, Zenon
  <1>5. ShuttleValid(b)
    <2>1. Len(b) >= 6 /\ b[1] \in {85, 170, 119, 136}
      BY <1>1, <1>2
    <2>2. usGet_PL_CRC16(SubSeq(b, 1, Len(b) - 2)) = crc
      BY <1>1, Zenon DEF crc
    <2> QED BY <1>4, <2>1, <2>2 DEF ShuttleValid
  <1>6. ExtractAddress(b) = server
    <2>1. LoadIndex(b) = 6
      BY <1>2 DEF LoadIndex
    <2>2. LongAt(b, 2) = server
      <3>1. ShortAt(b, 2) = b[2] + 256 * b[3] /\ ShortAt(b, 4) = b[4] + 256 * b[5]
        BY DEF ShortAt
      <3>2. LongAt(b, 2) = ShortAt(b, 2) + 65536 * ShortAt(b, 4)
        BY DEF LongAt
      <3>3. (b[2] + 256 * b[3]) + 65536 * (b[4] + 256 * b[5]) = server
        <4>1. ServerBytes(server, b[2], b[3], b[4], b[5])
          BY <1>2, Zenon
        <4> QED BY <4>1, ServerValue
      <3> QED BY <3>1, <3>2, <3>3
    <2> QED BY <2>1, <2>2 DEF ExtractAddress
  <1>7. CompileShuttle(SubSeq(b, 1, Len(b) - 2)) = b
    BY <1>1, <1>2, Zenon DEF CompileShuttle, crc
  <1> QED BY <1>5, <1>6, <1>7

LEMMA ShuttleDamaged ==
    ASSUME NEW b, NEW server, NEW body, IsShuttle(b, server, body),
           NEW i \in 1..Len(b), NEW v \in Byte, v # b[i]
    PROVE  ~ShuttleValid(Swapped(b, i, v))
  <1> DEFINE c == Swapped(b, i, v)
             crc == usGet_PL_CRC16(body)
  <1>1. Len(body) = 9 /\ 9 + 1 = 10 /\ 9 + 2 = 11
    BY DEF IsShuttle
  <1>2. /\ c \in Seq(Byte) /\ Len(c) = 11
        /\ \/ /\ OneDiffers(body, SubSeq(c, 1, 9))
              /\ c[10] = b[10] /\ c[11] = b[11]
           \/ /\ SubSeq(c, 1, 9) = body
              /\ c[10] + 256 * c[11] # b[10] + 256 * b[11]
    <2>1. OtherSum(b, body, 1, 2, c)
      <3>1. Guarded(b, body, 1, 2)
        BY DEF IsShuttle
      <3> QED BY <3>1, OneSwapped
    <2> HIDE DEF c
    <2> QED BY <1>1, <2>1 DEF OtherSum
  <1>3. b[10] + 256 * b[11] = crc
    <2>1. b[10] = Low(crc) /\ b[11] = High(crc)
      BY DEF IsShuttle
    <2>2. Low(crc) + 256 * High(crc) = crc
      BY ShuttleChecksum, BytesValue
    <2> QED BY <2>1, <2>2, Zenon
  <1> HIDE DEF c
  <1>4. Len(c) - 2 = 9 /\ Len(c) - 1 = 10
    BY <1>2
  <1>5. usGet_PL_CRC16(SubSeq(c, 1, 9)) # c[10] + 256 * c[11]
    <2>1. CASE OneDiffers(body, SubSeq(c, 1, 9)) /\ c[10] = b[10] /\ c[11] = b[11]
      <3>1. crc # usGet_PL_CRC16(SubSeq(c, 1, 9))
        BY <2>1, ShuttleDiffers
      <3> QED BY <1>3, <2>1, <3>1, Zenon
    <2>2. CASE SubSeq(c, 1, 9) = body /\ c[10] + 256 * c[11] # b[10] + 256 * b[11]
      BY <1>3, <2>2, Zenon
    <2> QED BY <1>2, <2>1, <2>2, Zenon
  <1>6. ShortAt(c, 10) = c[10] + 256 * c[11]
    BY DEF ShortAt
  <1>7. ~ShuttleValid(c)
    BY <1>4, <1>5, <1>6, Zenon DEF ShuttleValid
  <1> QED BY <1>7 DEF c

-----------------------------------------------------------------------------
(* What is sent is the message that was filled, or a shuttle of a server. *)

LegacyInv ==
    /\ legacyKind \in {"midep", "sent"} =>
           /\ midep = [attr |-> midep.attr, blocks |-> midep.blocks]
           /\ midep.attr \in MidepAttrs /\ midep.blocks \in Seq(MidepBlocks)
           /\ Len(midep.blocks) <= MaxBlocks
    /\ legacyKind = "sent" => legacyBytes = Compiled(midep.attr, midep.blocks)
    /\ legacyKind = "shuttle" =>
           \E server \in Servers : legacyBytes = CreateEstConShuttle(server, 1024)

LEMMA LegacyInitially == LegacyInit => LegacyInv
  BY DEF LegacyInit, LegacyInv

LEMMA LegacyStep == LegacyInv /\ [LegacyNext]_legacyVars => LegacyInv'
  <1> SUFFICES ASSUME LegacyInv, [LegacyNext]_legacyVars PROVE LegacyInv'
    OBVIOUS
  <1>1. CASE UNCHANGED legacyVars
    BY <1>1 DEF LegacyInv, legacyVars
  <1>2. CASE InitMessage
    <2>1. PICK attr \in MidepAttrs : midep' = [attr |-> attr, blocks |-> <<>>]
      BY <1>2 DEF InitMessage
    <2>2. legacyKind' = "midep"
      BY <1>2 DEF InitMessage
    <2>3. <<>> \in Seq(MidepBlocks) /\ Len(<<>>) <= MaxBlocks
      BY LegacyAssumption
    <2> QED BY <2>1, <2>2, <2>3 DEF LegacyInv
  <1>3. CASE AddBlock
    <2>1. PICK block \in MidepBlocks :
              midep' = [attr |-> midep.attr, blocks |-> Append(midep.blocks, block)]
      BY <1>3 DEF AddBlock
    <2>2. legacyKind = "midep" /\ legacyKind' = "midep" /\ Len(midep.blocks) < MaxBlocks
      BY <1>3 DEF AddBlock
    <2>3. midep.attr \in MidepAttrs /\ midep.blocks \in Seq(MidepBlocks)
      BY <2>2 DEF LegacyInv
    <2> DEFINE longer == Append(midep.blocks, block)
    <2>4. longer \in Seq(MidepBlocks) /\ Len(longer) = Len(midep.blocks) + 1
      BY <2>3, AppendProperties
    <2>5. Len(longer) <= MaxBlocks
      BY <2>2, <2>3, <2>4, LegacyAssumption, LenProperties
    <2> HIDE DEF longer
    <2>6. midep' = [attr |-> midep.attr, blocks |-> longer]
      BY <2>1 DEF longer
    <2>7. midep'.attr = midep.attr /\ midep'.blocks = longer
      BY <2>6
    <2> QED BY <2>2, <2>3, <2>4, <2>5, <2>6, <2>7 DEF LegacyInv
  <1>4. CASE CompileMessage
    BY <1>4 DEF CompileMessage, LegacyInv
  <1>5. CASE EstablishConnection
    BY <1>5 DEF EstablishConnection, LegacyInv
  <1> QED BY <1>1, <1>2, <1>3, <1>4, <1>5 DEF LegacyNext

(* The messages that are sent are ones the lemmas are about. *)
LEMMA FilledIs ==
    ASSUME NEW attr \in MidepAttrs, NEW blocks \in Seq(MidepBlocks), Len(blocks) <= MaxBlocks
    PROVE  /\ IsMidepAttr(attr) /\ IsBlocks(blocks)
           /\ Len(blocks) <= MIDEP_DATA_BLOCKS_MAX_COUNT
  <1>1. IsMidepAttr(attr)
    <2>1. attr \in [server : Nat, command : Byte, sub : Byte, index : 0..3, result : 0..63]
      BY LegacyAssumption
    <2>2. attr.server \in Nat
      BY <2>1
    <2>3. attr.server \div 65536 < 65536
      BY LegacyAssumption
    <2> QED BY <2>1, <2>2, <2>3 DEF IsMidepAttr, IsServer
  <1>2. IsBlocks(blocks)
    <2>1. \A k \in 1..Len(blocks) : blocks[k] \in MidepBlocks
      BY ElementOfSeq
    <2>2. \A k \in 1..Len(blocks) : blocks[k] \in Seq(Byte) /\ Len(blocks[k]) < 256
      BY <2>1, LegacyAssumption
    <2>3. blocks \in Seq(Seq(Byte))
      <3>1. Len(blocks) \in Nat /\ blocks \in [1..Len(blocks) -> MidepBlocks]
        BY LenProperties
      <3>2. blocks \in [1..Len(blocks) -> Seq(Byte)]
        BY <2>2, <3>1
      <3> QED BY <3>1, <3>2, SequenceOf
    <2> QED BY <2>2, <2>3 DEF IsBlocks
  <1>3. Len(blocks) <= MIDEP_DATA_BLOCKS_MAX_COUNT
    <2>1. Len(blocks) \in Nat
      BY LenProperties
    <2>2. MaxBlocks \in 0..MIDEP_DATA_BLOCKS_MAX_COUNT
      BY LegacyAssumption
    <2> QED BY <2>1, <2>2 DEF MIDEP_DATA_BLOCKS_MAX_COUNT
  <1> QED BY <1>1, <1>2, <1>3

(* Older messages and shuttles are read back as they were built, and refused *)
(* when one byte has become another.                                         *)
THEOREM LegacyCorrect == Spec => []LegacyArrives
  <1>1. LegacyInv => LegacyArrives
    <2> SUFFICES ASSUME LegacyInv PROVE LegacyArrives
      OBVIOUS
    <2>1. ASSUME legacyKind = "sent"
          PROVE  /\ <<>> \notin ToSet(midep.blocks) =>
                        MidepValid(legacyBytes) /\ DecodeMessage(legacyBytes) = midep
                 /\ \A i \in 1..Len(legacyBytes), v \in Mangled :
                        v # legacyBytes[i] => ~MidepValid(Swapped(legacyBytes, i, v))
      <3> DEFINE attr == midep.attr
                 blocks == midep.blocks
      <3>1. /\ midep = [attr |-> attr, blocks |-> blocks]
            /\ attr \in MidepAttrs /\ blocks \in Seq(MidepBlocks) /\ Len(blocks) <= MaxBlocks
            /\ legacyBytes = Compiled(attr, blocks)
        BY <2>1 DEF LegacyInv
      <3> HIDE DEF attr, blocks
      <3>2. /\ IsMidepAttr(attr) /\ IsBlocks(blocks)
            /\ Len(blocks) <= MIDEP_DATA_BLOCKS_MAX_COUNT
        BY <3>1, FilledIs
      <3>3. PICK body : IsMessage(legacyBytes, attr, blocks, body)
        BY <3>1, <3>2, CompiledIs
      <3>4. ASSUME <<>> \notin ToSet(blocks)
            PROVE  MidepValid(legacyBytes) /\ DecodeMessage(legacyBytes) = midep
        <4>1. \A k \in 1..Len(blocks) : blocks[k] # <<>>
          BY <3>4 DEF ToSet
        <4> QED BY <3>1, <3>2, <3>3, <4>1, MessageRead
      <3>5. ASSUME NEW i \in 1..Len(legacyBytes), NEW v \in Mangled, v # legacyBytes[i]
            PROVE  ~MidepValid(Swapped(legacyBytes, i, v))
        <4>1. v \in Byte
          BY LegacyAssumption
        <4> QED BY <3>3, <3>5, <4>1, MessageDamaged
      <3> QED BY <3>4, <3>5 DEF blocks
    <2>2. ASSUME legacyKind = "shuttle"
          PROVE  /\ ShuttleValid(legacyBytes)
                 /\ CompileShuttle(SubSeq(legacyBytes, 1, Len(legacyBytes) - 2)) = legacyBytes
                 /\ \E server \in Servers :
                        legacyBytes = CreateEstConShuttle(server, 1024) /\ ExtractAddress(legacyBytes) = server
                 /\ \A i \in 1..Len(legacyBytes), v \in Mangled :
                        v # legacyBytes[i] => ~ShuttleValid(Swapped(legacyBytes, i, v))
      <3>1. PICK server \in Servers : legacyBytes = CreateEstConShuttle(server, 1024)
        BY <2>2 DEF LegacyInv
      <3>2. IsServer(server)
        BY LegacyAssumption DEF IsServer
      <3>3. PICK body : IsShuttle(legacyBytes, server, body)
        BY <3>1, <3>2, ShuttleIs
      <3>4. /\ ShuttleValid(legacyBytes) /\ ExtractAddress(legacyBytes) = server
            /\ CompileShuttle(SubSeq(legacyBytes, 1, Len(legacyBytes) - 2)) = legacyBytes
        BY <3>2, <3>3, ShuttleRead
      <3>5. ASSUME NEW i \in 1..Len(legacyBytes), NEW v \in Mangled, v # legacyBytes[i]
            PROVE  ~ShuttleValid(Swapped(legacyBytes, i, v))
        <4>1. v \in Byte
          BY LegacyAssumption
        <4> QED BY <3>3, <3>5, <4>1, ShuttleDamaged
      <3> QED BY <3>1, <3>4, <3>5
    <2> QED BY <2>1, <2>2 DEF LegacyArrives
  <1>2. Init => LegacyInv
    BY LegacyInitially DEF Init
  <1>3. [Next]_vars => [LegacyNext]_legacyVars
    BY DEF Next, Idle, vars, legacyVars
  <1>4. LegacyInv /\ [Next]_vars => LegacyInv'
    BY <1>3, LegacyStep
  <1> QED BY <1>1, <1>2, <1>4, PTL DEF Spec
===============================================================================

------------------------------ MODULE FilesProof ------------------------------
(***************************************************************************)
(* What the program keeps in files: the pages of relay-server records are  *)
(* gathered whole, saved accounts are read again, every question file is   *)
(* listed, and editing one keeps its items.                                *)
(***************************************************************************)
EXTENDS Library, LeastElement, FiniteSetTheorems

-----------------------------------------------------------------------------
(* The file of relay-server records. *)

(* What the reading client has is the beginning of the file.                 *)
RecordsInv ==
    /\ recordFile \in Seq(RelayServers) \cup {Missing}
    /\ adding \in [Writers -> RelayServers \cup {NoFile}]
    /\ got \in Seq(RelayServers)
    /\ reading = "idle" => got = <<>>
    /\ reading = "paging" =>
          Len(got) <= Len(Found) /\ \A i \in 1..Len(got) : got[i] = Found[i]

LEMMA FoundIs ==
    ASSUME RecordsInv
    PROVE  Found \in Seq(RelayServers) /\ (recordFile # Missing => Found = recordFile)
  BY EmptySeq DEF RecordsInv, Found

LEMMA PrefixIs ==
    ASSUME NEW S, NEW s \in Seq(S), NEW t \in Seq(S), Len(s) <= Len(t),
           \A i \in 1..Len(s) : s[i] = t[i]
    PROVE  IsPrefix(s, t)
  <1>1. Len(s) \in Nat /\ Len(t) \in Nat
    BY LenProperties
  <1>2. \A i \in 1..Len(s) : s[i] \in S /\ t[i] \in S
    BY <1>1, ElementOfSeq
  <1>3. /\ SubSeq(s, 1, Len(s)) \in Seq(S) /\ SubSeq(t, 1, Len(s)) \in Seq(S)
        /\ Len(SubSeq(s, 1, Len(s))) = Len(s) /\ Len(SubSeq(t, 1, Len(s))) = Len(s)
        /\ \A i \in 1..Len(s) : SubSeq(s, 1, Len(s))[i] = s[i] /\ SubSeq(t, 1, Len(s))[i] = t[i]
    <2>1. /\ SubSeq(s, 1, Len(s)) \in Seq(S)
          /\ Len(SubSeq(s, 1, Len(s))) = IF 1 <= Len(s) THEN Len(s) - 1 + 1 ELSE 0
          /\ \A i \in 1..Len(s) - 1 + 1 : SubSeq(s, 1, Len(s))[i] = s[1 + i - 1]
      BY <1>1, <1>2, SubSeqProperties
    <2>2. /\ SubSeq(t, 1, Len(s)) \in Seq(S)
          /\ Len(SubSeq(t, 1, Len(s))) = IF 1 <= Len(s) THEN Len(s) - 1 + 1 ELSE 0
          /\ \A i \in 1..Len(s) - 1 + 1 : SubSeq(t, 1, Len(s))[i] = t[1 + i - 1]
      BY <1>1, <1>2, SubSeqProperties
    <2> QED BY <1>1, <2>1, <2>2
  <1>4. SubSeq(s, 1, Len(s)) = SubSeq(t, 1, Len(s))
    BY <1>3, SeqEqual
  <1> QED BY <1>1, <1>4 DEF IsPrefix

(* The step that PagesComplete is about. *)
PageKept ==
    reading = "paging" /\ reading' \in {"paging", "done"} =>
        /\ IsPrefix(got', Found)
        /\ reading' = "done" => got' = Found
        /\ ReadRecords /\ FitsWhole(PageFrom(Len(got))) => page'.announced = Len(page'.records)

LEMMA RecordsConstants ==
    /\ PageSize \in Nat \ {0} /\ PageSize < 65536 /\ NoFile \notin RelayServers
    /\ Room \in Nat /\ \A r \in RelayServers : RecordSize[r] \in Nat /\ RecordSize[r] <= Room
  BY RecordsAssumption

(* The bytes of the records are added up one by one.                         *)
LEMMA BytesAdded ==
    ASSUME NEW s \in Seq(RelayServers)
    PROVE  /\ BytesUpTo(s)[0] = 0
           /\ \A n \in 1..Len(s) : /\ BytesUpTo(s)[n] = BytesUpTo(s)[n - 1] + RecordSize[s[n]]
                                    /\ BytesUpTo(s)[n] \in Nat /\ BytesUpTo(s)[n - 1] \in Nat
  <1> DEFINE m == Len(s)
             Steps(g) == g = [n \in 0..m |-> IF n = 0 THEN 0 ELSE g[n - 1] + RecordSize[s[n]]]
             bytes == CHOOSE g : Steps(g)
             step == [n \in 1..m |-> [v \in Nat |-> v + RecordSize[s[n]]]]
  <1>1. m \in Nat /\ \A n \in 1..m : s[n] \in RelayServers
    BY LenProperties, ElementOfSeq
  <1>2. BytesUpTo(s) = bytes
    BY DEF BytesUpTo
  <1>3. \A n \in 1..m : RecordSize[s[n]] \in Nat
    BY <1>1, RecordsConstants
  <1>4. \A g : Steps(g) => \A n \in 0..m : g[n] = IF n = 0 THEN 0 ELSE g[n - 1] + RecordSize[s[n]]
    BY Zenon
  <1>5. ASSUME NEW g, g = [n \in 0..m |-> g[n]],
               \A n \in 0..m : g[n] = IF n = 0 THEN 0 ELSE g[n - 1] + RecordSize[s[n]]
        PROVE  Steps(g)
    BY <1>5
  <1> HIDE DEF Steps, m
  <1>6. step \in [1..m -> [Nat -> Nat]] /\ \A n \in 1..m, v \in Nat : step[n][v] = v + RecordSize[s[n]]
    BY <1>3
  <1> HIDE DEF step
  <1>7. PICK g \in [0..m -> Nat] : g[0] = 0 /\ \A n \in 1..m : g[n] = step[n][g[n - 1]]
    <2>1. \E g \in [0..m -> Nat] : Follows(g, 0, step, m)
      BY <1>1, <1>6, StepByStep
    <2> QED BY <2>1, Zenon DEF Follows
  <1>8. Steps(g)
    <2>1. \A n \in 0..m : g[n] = IF n = 0 THEN 0 ELSE g[n - 1] + RecordSize[s[n]]
      <3> SUFFICES ASSUME NEW n \in 1..m PROVE g[n] = g[n - 1] + RecordSize[s[n]]
        BY <1>1, <1>7
      <3>1. n - 1 \in 0..m
        BY <1>1
      <3> QED BY <1>6, <1>7, <3>1
    <2> QED BY <1>5, <1>7, <2>1
  <1>9. \A n \in 0..m : bytes[n] = IF n = 0 THEN 0 ELSE bytes[n - 1] + RecordSize[s[n]]
    <2>1. Steps(bytes)
      BY <1>8, Zenon
    <2> HIDE DEF bytes
    <2> QED BY <1>4, <2>1
  <1> HIDE DEF bytes
  <1> DEFINE S == {n \in 0..m : bytes[n] \in Nat}
  <1>10. \A n \in 0..m : n \in S
    <2>1. 0 \in S
      BY <1>1, <1>9
    <2>2. ASSUME NEW n \in 1..m, n - 1 \in S PROVE n \in S
      <3>1. n \in 0..m /\ n # 0 /\ bytes[n] = bytes[n - 1] + RecordSize[s[n]]
        BY <1>1, <1>9
      <3> QED BY <1>3, <2>2, <3>1
    <2> HIDE DEF S
    <2> QED BY <1>1, <2>1, <2>2, EachStep
  <1>11. ASSUME NEW n \in 1..m
         PROVE  bytes[n] = bytes[n - 1] + RecordSize[s[n]] /\ bytes[n] \in Nat /\ bytes[n - 1] \in Nat
    <2>1. n \in 0..m /\ n # 0 /\ n - 1 \in 0..m
      BY <1>1
    <2> QED BY <1>9, <1>10, <2>1
  <1>12. bytes[0] = 0
    BY <1>1, <1>9
  <1> QED BY <1>2, <1>11, <1>12 DEF m

(* A message carries a beginning of the records, the first one at least, and *)
(* all of them if they fit.                                                  *)
LEMMA CarriedIs ==
    ASSUME NEW s \in Seq(RelayServers)
    PROVE  \E c \in 0..Len(s) :
              /\ Carried(s) = SubSeq(s, 1, c)
              /\ s # <<>> => c > 0
              /\ FitsWhole(s) => c = Len(s)
  <1> DEFINE bytes == BytesUpTo(s)
             whole == {n \in 1..Len(s) : bytes[n] <= Room}
  <1>1. Len(s) \in Nat /\ \A n \in 1..Len(s) : s[n] \in RelayServers
    BY LenProperties, ElementOfSeq
  <1>2. /\ bytes[0] = 0
        /\ \A n \in 1..Len(s) : /\ bytes[n] = bytes[n - 1] + RecordSize[s[n]]
                                 /\ bytes[n] \in Nat /\ bytes[n - 1] \in Nat
    BY BytesAdded
  <1>3. Carried(s) = SubSeq(s, 1, Cardinality(whole)) /\ (FitsWhole(s) <=> bytes[Len(s)] <= Room)
    BY DEF Carried, FitsWhole
  <1> HIDE DEF bytes
  <1>4. IsFiniteSet(1..Len(s)) /\ Cardinality(1..Len(s)) = Len(s)
    BY <1>1, FS_Interval
  <1>5. IsFiniteSet(whole) /\ Cardinality(whole) \in Nat /\ Cardinality(whole) <= Len(s)
    BY <1>4, FS_Subset, FS_CardinalityType
  <1>6. ASSUME s # <<>> PROVE Cardinality(whole) > 0
    <2>1. 1 \in 1..Len(s)
      BY <1>1, <1>6, EmptySeq
    <2>2. bytes[1] = RecordSize[s[1]] /\ RecordSize[s[1]] <= Room
      BY <1>1, <1>2, <2>1, RecordsConstants
    <2>3. whole # {}
      BY <2>1, <2>2
    <2> HIDE DEF whole
    <2>4. Cardinality(whole) # 0
      BY <1>5, <2>3, FS_EmptySet
    <2> QED BY <1>5, <2>4
  <1>7. ASSUME bytes[Len(s)] <= Room PROVE whole = 1..Len(s)
    <2> DEFINE S == {k \in 0..Len(s) : k = Len(s) \/ bytes[Len(s) - k] <= Room}
    <2>1. 0 \in S
      BY <1>1, <1>7
    <2>2. ASSUME NEW k \in 1..Len(s), k - 1 \in S PROVE k \in S
      <3> SUFFICES ASSUME k # Len(s) PROVE bytes[Len(s) - k] <= Room
        OBVIOUS
      <3>1. /\ Len(s) - (k - 1) \in 1..Len(s) /\ Len(s) - (k - 1) - 1 = Len(s) - k
            /\ k - 1 # Len(s)
        BY <1>1
      <3>2. /\ bytes[Len(s) - (k - 1)] = bytes[Len(s) - k] + RecordSize[s[Len(s) - (k - 1)]]
            /\ bytes[Len(s) - (k - 1)] \in Nat /\ bytes[Len(s) - k] \in Nat
        BY <1>2, <3>1
      <3>3. bytes[Len(s) - (k - 1)] <= Room
        BY <2>2, <3>1
      <3>4. RecordSize[s[Len(s) - (k - 1)]] \in Nat /\ Room \in Nat
        <4>1. s[Len(s) - (k - 1)] \in RelayServers
          BY <1>1, <3>1
        <4> QED BY <4>1, RecordsConstants
      <3> QED BY <3>2, <3>3, <3>4
    <2> HIDE DEF S
    <2>3. \A k \in 0..Len(s) : k \in S
      BY <1>1, <2>1, <2>2, EachStep
    <2>4. ASSUME NEW n \in 1..Len(s) PROVE bytes[n] <= Room
      <3>1. Len(s) - n \in 0..Len(s) /\ Len(s) - n # Len(s) /\ Len(s) - (Len(s) - n) = n
        BY <1>1
      <3> QED BY <2>3, <3>1 DEF S
    <2> QED BY <2>4
  <1> HIDE DEF whole
  <1>8. /\ Cardinality(whole) \in 0..Len(s) /\ Carried(s) = SubSeq(s, 1, Cardinality(whole))
        /\ s # <<>> => Cardinality(whole) > 0
        /\ FitsWhole(s) => Cardinality(whole) = Len(s)
    BY <1>1, <1>3, <1>4, <1>5, <1>6, <1>7
  <1> QED BY <1>8

(* A page does not go beyond the end of the file, nor beyond its size.       *)
LEMMA CountIs ==
    ASSUME Len(Found) \in Nat, NEW n \in Nat
    PROVE  /\ SendCount(n, PageSize) \in Int
           /\ SendCount(n, PageSize) <= Len(Found) - n /\ SendCount(n, PageSize) < 65536
           /\ n <= Len(Found) => SendCount(n, PageSize) >= 0
           /\ n <= Len(Found) /\ SendCount(n, PageSize) = 0 => n = Len(Found)
  <1> DEFINE rest == Len(Found) - n
  <1>1. PageSize \in Nat /\ PageSize > 0 /\ PageSize < 65536
    BY RecordsConstants
  <1>2. rest \in Int /\ (n <= Len(Found) => rest >= 0) /\ (n <= Len(Found) /\ rest = 0 => n = Len(Found))
    OBVIOUS
  <1>3. SendCount(n, PageSize) = IF rest < PageSize THEN rest ELSE PageSize
    BY DEF SendCount
  <1> HIDE DEF rest
  <1>4. CASE rest < PageSize
    BY <1>1, <1>2, <1>3, <1>4 DEF rest
  <1>5. CASE ~ (rest < PageSize)
    BY <1>1, <1>2, <1>3, <1>5 DEF rest
  <1> QED BY <1>4, <1>5

(* A page that begins no further than the end of the file. *)
LEMMA PageIs ==
    ASSUME RecordsInv, NEW n \in 0..Len(Found), ReadPage(n)
    PROVE  /\ Found' = Found /\ recordFile' = Found
           /\ page'.records \in Seq(RelayServers)
           /\ FitsWhole(PageFrom(n)) => page'.announced = Len(page'.records)
           /\ Len(page'.records) \in 0..Len(Found) - n
           /\ \A i \in 1..Len(page'.records) : page'.records[i] = Found[n + i]
           /\ page'.records = <<>> => n = Len(Found)
  <1> DEFINE count == SendCount(n, PageSize)
             records == PageFrom(n)
  <1>1. Found \in Seq(RelayServers) /\ Len(Found) \in Nat /\ n \in Nat
    BY FoundIs, LenProperties
  <1>2. /\ count \in 0..Len(Found) - n /\ count < 65536
        /\ count = 0 => n = Len(Found)
    <2> HIDE DEF count
    <2>1. /\ count \in Int /\ count <= Len(Found) - n /\ count < 65536 /\ count >= 0
          /\ count = 0 => n = Len(Found)
      BY <1>1, CountIs DEF count
    <2> QED BY <1>1, <2>1
  <1>3. recordFile' = Found /\ page' = [announced |-> count % 65536, records |-> Carried(records)]
    BY DEF ReadPage
  <1>4. records = SubSeq(Found, n + 1, n + count)
    BY DEF PageFrom
  <1> HIDE DEF count, records
  <1>5. count % 65536 = count
    BY <1>2
  <1>6. /\ records \in Seq(RelayServers) /\ Len(records) = count
        /\ \A i \in 1..count : records[i] = Found[n + i]
    <2>1. n \in 0..Len(Found) /\ n + count \in 0..Len(Found) /\ n <= n + count /\ (n + count) - n = count
      BY <1>1, <1>2
    <2>2. /\ SubSeq(Found, n + 1, n + count) \in Seq(RelayServers)
          /\ Len(SubSeq(Found, n + 1, n + count)) = (n + count) - n
          /\ \A i \in 1..(n + count) - n : SubSeq(Found, n + 1, n + count)[i] = Found[n + i]
      BY <1>1, <2>1, PieceIs
    <2> QED BY <1>4, <2>1, <2>2
  <1>7. PICK c \in 0..count :
           /\ Carried(records) = SubSeq(records, 1, c)
           /\ records # <<>> => c > 0
           /\ FitsWhole(records) => c = count
    BY <1>6, CarriedIs
  <1>8. /\ Carried(records) \in Seq(RelayServers) /\ Len(Carried(records)) = c
        /\ \A i \in 1..c : Carried(records)[i] = Found[n + i]
    <2>1. 0 \in 0..Len(records) /\ c \in 0..Len(records) /\ 0 <= c /\ 0 + 1 = 1 /\ c - 0 = c
      BY <1>2, <1>6, <1>7
    <2>2. /\ SubSeq(records, 0 + 1, c) \in Seq(RelayServers) /\ Len(SubSeq(records, 0 + 1, c)) = c - 0
          /\ \A i \in 1..c - 0 : SubSeq(records, 0 + 1, c)[i] = records[0 + i]
      BY <1>6, <2>1, PieceIs
    <2>3. \A i \in 1..c : 0 + i = i /\ i \in 1..count
      BY <1>2, <1>7
    <2> QED BY <1>6, <1>7, <2>1, <2>2, <2>3
  <1>9. Found' = Found
    BY <1>3 DEF Found
  <1>10. page'.records = Carried(records) /\ page'.announced = count
    BY <1>3, <1>5
  <1>11. Carried(records) = <<>> => count = 0
    <2>1. Carried(records) = <<>> => c = 0
      BY <1>8, EmptySeq
    <2>2. records = <<>> => count = 0
      BY <1>6, EmptySeq
    <2> QED BY <1>7, <2>1, <2>2
  <1>12. c \in 0..Len(Found) - n
    BY <1>1, <1>2
  <1>13. FitsWhole(PageFrom(n)) => page'.announced = Len(Carried(records))
    BY <1>7, <1>8, <1>10 DEF records
  <1> QED BY <1>2, <1>3, <1>8, <1>9, <1>10, <1>11, <1>12, <1>13

LEMMA ReadStep ==
    ASSUME RecordsInv, ReadRecords
    PROVE  RecordsInv' /\ PageKept
  <1>1. Found \in Seq(RelayServers) /\ Len(Found) \in Nat /\ Len(got) \in Nat
    BY FoundIs, LenProperties DEF RecordsInv
  <1>2. CASE reading \in {"idle", "paging"}
    <2>1. /\ Len(got) \in 0..Len(Found) /\ \A i \in 1..Len(got) : got[i] = Found[i]
      <3>1. reading = "idle" => Len(got) = 0
        BY EmptySeq DEF RecordsInv
      <3> QED BY <1>1, <1>2, <3>1 DEF RecordsInv
    <2>2. /\ Found' = Found /\ recordFile' = Found
          /\ page'.records \in Seq(RelayServers)
          /\ FitsWhole(PageFrom(Len(got))) => page'.announced = Len(page'.records)
          /\ Len(page'.records) \in 0..Len(Found) - Len(got)
          /\ \A i \in 1..Len(page'.records) : page'.records[i] = Found[Len(got) + i]
          /\ page'.records = <<>> => Len(got) = Len(Found)
      BY <2>1, PageIs DEF ReadRecords
    <2>3. CASE page'.records # <<>>
      <3>1. got' = got \o page'.records /\ reading' = "paging" /\ adding' = adding
        BY <1>2, <2>3 DEF ReadRecords
      <3>2. /\ got' \in Seq(RelayServers)
            /\ Len(got') = Len(got) + Len(page'.records)
            /\ \A i \in 1..Len(got) + Len(page'.records) :
                  got'[i] = IF i <= Len(got) THEN got[i] ELSE page'.records[i - Len(got)]
        BY <2>2, <3>1, ConcatProperties DEF RecordsInv
      <3>3. Len(got') <= Len(Found)
        BY <1>1, <2>1, <2>2, <3>2
      <3>4. ASSUME NEW i \in 1..Len(got') PROVE got'[i] = Found[i]
        <4>1. CASE i <= Len(got)
          BY <1>1, <2>1, <2>2, <3>2, <4>1
        <4>2. CASE i > Len(got)
          <5>1. /\ i - Len(got) \in 1..Len(page'.records) /\ Len(got) + (i - Len(got)) = i
                /\ i \in 1..Len(got) + Len(page'.records) /\ ~ (i <= Len(got))
            BY <1>1, <2>2, <3>2, <4>2
          <5> QED BY <2>2, <3>2, <5>1
        <4> QED BY <1>1, <2>2, <3>2, <4>1, <4>2
      <3>5. IsPrefix(got', Found)
        BY <1>1, <3>2, <3>3, <3>4, PrefixIs
      <3>6. RecordsInv'
        BY <1>1, <2>2, <3>1, <3>2, <3>3, <3>4 DEF RecordsInv
      <3> QED BY <2>2, <3>1, <3>5, <3>6 DEF PageKept
    <2>4. CASE page'.records = <<>>
      <3>1. reading' = "done" /\ got' = got /\ adding' = adding
        BY <1>2, <2>4 DEF ReadRecords
      <3>2. got = Found
        BY <1>1, <2>1, <2>2, <2>4, SeqEqual DEF RecordsInv
      <3>3. IsPrefix(got', Found)
        BY <1>1, <2>1, <3>1, PrefixIs DEF RecordsInv
      <3>4. RecordsInv'
        BY <1>1, <2>2, <3>1 DEF RecordsInv
      <3> QED BY <2>2, <3>1, <3>2, <3>3, <3>4 DEF PageKept
    <2> QED BY <2>3, <2>4
  <1>3. CASE reading \notin {"idle", "paging"}
    <2>1. page'.records \in Seq(RelayServers) /\ recordFile' = Found /\ adding' = adding
      <3> DEFINE count == SendCount(Len(got), PageSize)
                 records == PageFrom(Len(got))
      <3>1. count \in Int /\ count <= Len(Found) - Len(got)
        BY <1>1, CountIs
      <3>2. records = SubSeq(Found, Len(got) + 1, Len(got) + count)
        BY DEF PageFrom
      <3>3. page'.records = Carried(records) /\ recordFile' = Found /\ adding' = adding
        BY DEF ReadRecords, ReadPage
      <3> HIDE DEF count, records
      <3>4. \A i \in Len(got) + 1..Len(got) + count : Found[i] \in RelayServers
        <4> SUFFICES ASSUME NEW i \in Len(got) + 1..Len(got) + count PROVE Found[i] \in RelayServers
          OBVIOUS
        <4>1. i \in 1..Len(Found)
          BY <1>1, <3>1
        <4> QED BY <1>1, <4>1, ElementOfSeq
      <3>5. records \in Seq(RelayServers)
        BY <1>1, <3>1, <3>2, <3>4, SubSeqProperties
      <3>6. PICK c \in 0..Len(records) : Carried(records) = SubSeq(records, 1, c)
        BY <3>5, CarriedIs
      <3>7. \A i \in 1..c : records[i] \in RelayServers
        <4>1. Len(records) \in Nat
          BY <3>5, LenProperties
        <4> QED BY <3>5, <3>6, <4>1, ElementOfSeq
      <3>8. Carried(records) \in Seq(RelayServers)
        BY <3>6, <3>7, SubSeqProperties
      <3> QED BY <3>3, <3>8
    <2>2. /\ reading' \in {reading, "done", "idle"}
          /\ got' \in {got \o page'.records, got, <<>>}
          /\ reading' = "idle" => got' = <<>>
      BY <1>3 DEF ReadRecords
    <2>3. got' \in Seq(RelayServers)
      <3>1. got \in Seq(RelayServers) /\ <<>> \in Seq(RelayServers)
        BY EmptySeq DEF RecordsInv
      <3>2. got \o page'.records \in Seq(RelayServers)
        BY <2>1, <3>1, ConcatProperties
      <3> QED BY <2>2, <3>1, <3>2
    <2>4. RecordsInv'
      BY <1>1, <1>3, <2>1, <2>2, <2>3 DEF RecordsInv
    <2> QED BY <1>3, <2>4 DEF PageKept
  <1> QED BY <1>2, <1>3

LEMMA WriterStep ==
    ASSUME RecordsInv,
           \/ \E w \in Writers : FindRecord(w) \/ AppendRecord(w)
           \/ deleteFile \/ UNCHANGED recordVars
    PROVE  RecordsInv' /\ [PageKept]_recordVars
  <1>1. Found \in Seq(RelayServers) /\ Len(Found) \in Nat /\ Len(got) \in Nat
    BY FoundIs, LenProperties DEF RecordsInv
  <1>2. reading = "paging" => IsPrefix(got, Found)
    BY <1>1, PrefixIs DEF RecordsInv
  <1>3. ASSUME NEW w \in Writers, FindRecord(w) PROVE RecordsInv' /\ PageKept
    <2>1. PICK r \in RelayServers : adding' = [adding EXCEPT ![w] = r]
      BY <1>3 DEF FindRecord
    <2>2. adding'[w] # adding[w]
      BY <1>3, <2>1, RecordsConstants DEF FindRecord, RecordsInv
    <2>3. ~ ReadRecords
      BY <2>2 DEF ReadRecords
    <2> QED BY <1>2, <1>3, <2>1, <2>3 DEF FindRecord, RecordsInv, Found, PageKept
  <1>4. ASSUME NEW w \in Writers, AppendRecord(w) PROVE RecordsInv' /\ PageKept
    <2>1. adding[w] \in RelayServers
      BY <1>4 DEF AppendRecord, RecordsInv
    <2>2. /\ recordFile' \in Seq(RelayServers) /\ Len(recordFile') = Len(Found) + 1
          /\ \A i \in 1..Len(Found) : recordFile'[i] = Found[i]
      BY <1>1, <1>4, <2>1, AppendProperties DEF AppendRecord
    <2>3. recordFile' # Missing
      <3>1. recordFile'[1] \in RelayServers
        BY <1>1, <2>2, ElementOfSeq
      <3>2. Missing[1] = NoFile
        BY DEF Missing
      <3>3. NoFile \notin RelayServers
        BY RecordsConstants
      <3> QED BY <3>1, <3>2, <3>3, Zenon
    <2>4. Found' = recordFile'
      BY <2>3 DEF Found
    <2>5. /\ adding' \in [Writers -> RelayServers \cup {NoFile}]
          /\ got' = got /\ page' = page /\ reading' = reading
      BY <1>4 DEF AppendRecord, RecordsInv
    <2>6. reading = "paging" => Len(got) <= Len(Found') /\ \A i \in 1..Len(got) : got[i] = Found'[i]
      BY <1>1, <2>2, <2>4 DEF RecordsInv
    <2>7. RecordsInv'
      BY <2>2, <2>5, <2>6 DEF RecordsInv
    <2>8. ~ ReadRecords
      <3>1. adding'[w] = NoFile /\ adding[w] # NoFile
        BY <1>4 DEF AppendRecord, RecordsInv
      <3> QED BY <3>1 DEF ReadRecords
    <2> QED BY <1>2, <2>5, <2>7, <2>8 DEF PageKept
  <1>5. CASE deleteFile
    BY <1>5 DEF deleteFile, RecordsInv, PageKept
  <1>6. CASE UNCHANGED recordVars
    BY <1>6 DEF recordVars, RecordsInv, Found
  <1> QED BY <1>3, <1>4, <1>5, <1>6

(* A client that reads the records page by page gets the file's beginning,   *)
(* with none left out, and in the end the whole file, however other clients  *)
(* append between its pages and however much of a page its message cuts off; *)
(* each page that fits in its message has as many records as it announces.   *)
(* For every page size of 16 bits, and every room that holds one record.     *)
THEOREM PagesCorrect == Spec => PagesComplete
  <1>1. Init => RecordsInv
    BY EmptySeq DEF Init, RecordsInit, RecordsInv
  <1>2. [Next]_vars => [RecordsNext]_recordVars
    BY DEF Next, Idle, vars, recordVars
  <1>3. RecordsInv /\ [Next]_vars => RecordsInv' /\ [PageKept]_recordVars
    BY <1>2, ReadStep, WriterStep DEF RecordsNext
  <1> QED BY <1>1, <1>3, PTL DEF Spec, PagesComplete, PageKept

-----------------------------------------------------------------------------
(* The file of accounts. *)

(* The provers do not know of a literal that it is a string. *)
Text == STRING \cup {"no file", "User", "Password"}

AccountRecords == [pcLogin : Text, pcPassword : Text, pcRights : Text]

(* The lines behind those the file had at first are the saved accounts.      *)
AccountsInv ==
    /\ accountFile \in Seq(Text) /\ AccountList \in Seq(AccountRecords)
    /\ saved \in Seq(AccountRecords)
    /\ accountPhase = "new" => saved = <<>>
    /\ accountPhase # "new" => accountFile # NoAccounts
    /\ 3 * Len(saved) <= Len(accountFile)
    /\ \A n \in 1..Len(saved) :
          LET before == Len(accountFile) - 3 * Len(saved) + 3 * (n - 1)
          IN  saved[n] = [pcLogin |-> accountFile[before + 1],
                          pcPassword |-> accountFile[before + 2],
                          pcRights |-> accountFile[before + 3]]
    /\ accountPhase = "read" => AccountList = ReadAccounts(accountFile)

LEMMA LinesOf ==
    ASSUME NEW S, NEW a \in S, NEW b \in S, NEW c \in S
    PROVE  /\ <<a>> \in Seq(S) /\ Len(<<a>>) = 1
           /\ <<a, b>> \in Seq(S) /\ Len(<<a, b>>) = 2
           /\ <<a, b, c>> \in Seq(S) /\ Len(<<a, b, c>>) = 3
           /\ <<a, b, c>>[1] = a /\ <<a, b, c>>[2] = b /\ <<a, b, c>>[3] = c
  OBVIOUS

LEMMA KnownLines ==
    /\ AccountFiles \subseteq Seq(Text) /\ Logins \subseteq Text /\ Secrets \subseteq Text
    /\ Template \in Seq(Text) /\ Len(Template) = 2
    /\ NoAccounts \in Seq(Text) /\ Len(NoAccounts) = 1
  <1>1. "no file" \in Text /\ "User" \in Text /\ "Password" \in Text /\ STRING \subseteq Text
    BY DEF Text
  <1>2. Seq(STRING) \subseteq Seq(Text)
    <2> SUFFICES ASSUME NEW q \in Seq(STRING) PROVE q \in Seq(Text)
      OBVIOUS
    <2>1. Len(q) \in Nat /\ q = [i \in 1..Len(q) |-> q[i]]
      BY LenProperties
    <2>2. \A i \in 1..Len(q) : q[i] \in Text
      BY <1>1, ElementOfSeq
    <2>3. q \in [1..Len(q) -> Text]
      BY <2>1, <2>2
    <2> QED BY <2>1, <2>3, SequenceOf
  <1>3. /\ Template \in Seq(Text) /\ Len(Template) = 2
        /\ NoAccounts \in Seq(Text) /\ Len(NoAccounts) = 1
    BY <1>1, LinesOf, Zenon DEF Template, NoAccounts
  <1> QED BY <1>1, <1>2, <1>3, AccountsAssumption

LEMMA AccountLines ==
    ASSUME NEW lines \in Seq(Text), NEW n \in 1..Len(lines) \div 3
    PROVE  /\ Account(SubSeq(lines, 3 * n - 2, 3 * n))
                = [pcLogin |-> lines[3 * n - 2], pcPassword |-> lines[3 * n - 1],
                   pcRights |-> lines[3 * n]]
           /\ Account(SubSeq(lines, 3 * n - 2, 3 * n)) \in AccountRecords
  <1> DEFINE three == SubSeq(lines, 3 * n - 2, 3 * n)
  <1>1. Len(lines) \in Nat /\ n \in Nat
    BY LenProperties
  <1>2. 3 * n - 2 \in 1..Len(lines) /\ 3 * n - 1 \in 1..Len(lines) /\ 3 * n \in 1..Len(lines)
    BY <1>1
  <1>3. \A i \in 3 * n - 2..3 * n : lines[i] \in Text
    <2> SUFFICES ASSUME NEW i \in 3 * n - 2..3 * n PROVE lines[i] \in Text
      OBVIOUS
    <2>1. i \in 1..Len(lines)
      BY <1>1, <1>2
    <2> QED BY <2>1, ElementOfSeq
  <1>4. \A i \in 1..3 * n - (3 * n - 2) + 1 : three[i] = lines[3 * n - 2 + i - 1]
    BY <1>1, <1>3, SubSeqProperties
  <1> HIDE DEF three
  <1>5. three[1] = lines[3 * n - 2] /\ three[2] = lines[3 * n - 1] /\ three[3] = lines[3 * n]
    <2>1. /\ 1 \in 1..3 * n - (3 * n - 2) + 1 /\ 3 * n - 2 + 1 - 1 = 3 * n - 2
          /\ 2 \in 1..3 * n - (3 * n - 2) + 1 /\ 3 * n - 2 + 2 - 1 = 3 * n - 1
          /\ 3 \in 1..3 * n - (3 * n - 2) + 1 /\ 3 * n - 2 + 3 - 1 = 3 * n
      BY <1>1
    <2> QED BY <1>4, <2>1
  <1>6. lines[3 * n - 2] \in Text /\ lines[3 * n - 1] \in Text /\ lines[3 * n] \in Text
    BY <1>2, ElementOfSeq
  <1> QED BY <1>5, <1>6 DEF Account, three, AccountRecords

LEMMA AccountsRead ==
    ASSUME NEW lines \in Seq(Text)
    PROVE  /\ ReadAccounts(lines) \in Seq(AccountRecords)
           /\ Len(ReadAccounts(lines)) = Len(lines) \div 3
           /\ \A n \in 1..Len(lines) \div 3 :
                 ReadAccounts(lines)[n] = [pcLogin |-> lines[3 * n - 2],
                                           pcPassword |-> lines[3 * n - 1],
                                           pcRights |-> lines[3 * n]]
  <1>1. Len(lines) \div 3 \in Nat
    BY LenProperties
  <1> DEFINE size == Len(lines) \div 3
             read(n) == Account(SubSeq(lines, 3 * n - 2, 3 * n))
  <1>2. \A n \in 1..size : read(n) \in AccountRecords
    BY AccountLines
  <1>3. ReadAccounts(lines) = [n \in 1..size |-> read(n)]
    BY DEF ReadAccounts
  <1>4. \A n \in 1..size : ReadAccounts(lines)[n] = read(n)
    BY <1>3
  <1> HIDE DEF read, size
  <1>5. ReadAccounts(lines) \in [1..size -> AccountRecords]
    BY <1>2, <1>3
  <1>6. ReadAccounts(lines) \in Seq(AccountRecords) /\ Len(ReadAccounts(lines)) = size
    <2>1. size \in Nat
      BY <1>1 DEF size
    <2> QED BY <1>5, <2>1, SequenceOf
  <1> QED BY <1>4, <1>6, AccountLines DEF size, read

LEMMA ReadFileStep ==
    ASSUME AccountsInv, ReadFileAccount
    PROVE  AccountsInv'
  <1>1. PICK lines \in Seq(Text) :
            /\ accountFile' = lines /\ AccountList' = ReadAccounts(lines)
            /\ lines # NoAccounts
            /\ accountPhase = "down" => lines = accountFile
    <2>1. Template \in Seq(Text) /\ Template # NoAccounts
      BY KnownLines
    <2>2. accountPhase = "down" => accountFile # NoAccounts
      BY DEF AccountsInv
    <2>3. PICK file \in (IF accountPhase = "new" THEN AccountFiles ELSE {accountFile}) :
             LET lines == IF file = NoAccounts THEN Template ELSE file
             IN  accountFile' = lines /\ AccountList' = ReadAccounts(lines)
      BY DEF ReadFileAccount
    <2>4. file \in Seq(Text)
      BY KnownLines DEF AccountsInv
    <2> QED BY <2>1, <2>2, <2>3, <2>4
  <1>2. accountPhase' = "read" /\ saved' = saved /\ accountPhase \in {"new", "down"}
    BY DEF ReadFileAccount
  <1>3. AccountList' \in Seq(AccountRecords)
    BY <1>1, AccountsRead
  <1>4. CASE accountPhase = "new"
    <2>1. saved = <<>> /\ Len(saved) = 0
      BY <1>4 DEF AccountsInv
    <2>2. Len(lines) \in Nat
      BY LenProperties
    <2> QED BY <1>1, <1>2, <1>3, <2>1, <2>2 DEF AccountsInv
  <1>5. CASE accountPhase = "down"
    BY <1>1, <1>2, <1>3, <1>5 DEF AccountsInv
  <1> QED BY <1>2, <1>4, <1>5

LEMMA SaveStep ==
    ASSUME AccountsInv, NEW l \in Logins, NEW p \in Secrets, NEW r \in Secrets,
           SaveAccount(l, p, r)
    PROVE  AccountsInv'
  <1> DEFINE three == <<l, p, r>>
             entry == [pcLogin |-> l, pcPassword |-> p, pcRights |-> r]
  <1>1. /\ l \in Text /\ p \in Text /\ r \in Text
        /\ three \in Seq(Text) /\ Len(three) = 3
        /\ three[1] = l /\ three[2] = p /\ three[3] = r
    <2>1. l \in Text /\ p \in Text /\ r \in Text
      BY KnownLines
    <2> QED BY <2>1, LinesOf, Zenon
  <1>2. entry \in AccountRecords /\ Account(three) = entry
    BY <1>1 DEF AccountRecords, Account
  <1>3. /\ AccountList' = Append(AccountList, entry) /\ saved' = Append(saved, entry)
        /\ accountFile' = accountFile \o three /\ accountPhase' = "used"
    BY <1>2 DEF SaveAccount
  <1>4. /\ accountFile \in Seq(Text) /\ AccountList \in Seq(AccountRecords)
        /\ saved \in Seq(AccountRecords)
        /\ Len(accountFile) \in Nat /\ Len(saved) \in Nat
    BY LenProperties DEF AccountsInv
  <1> HIDE DEF three, entry
  <1>5. AccountList' \in Seq(AccountRecords)
    BY <1>2, <1>3, <1>4, AppendProperties
  <1>6. /\ saved' \in Seq(AccountRecords) /\ Len(saved') = Len(saved) + 1
        /\ \A i \in 1..Len(saved) : saved'[i] = saved[i]
        /\ saved'[Len(saved) + 1] = entry
    BY <1>2, <1>3, <1>4, AppendProperties
  <1>7. /\ accountFile' \in Seq(Text) /\ Len(accountFile') = Len(accountFile) + 3
        /\ \A i \in 1..Len(accountFile) + 3 :
              accountFile'[i] = IF i <= Len(accountFile) THEN accountFile[i]
                                ELSE three[i - Len(accountFile)]
    <2>1. /\ accountFile \o three \in Seq(Text)
          /\ Len(accountFile \o three) = Len(accountFile) + Len(three)
          /\ \A i \in 1..Len(accountFile) + Len(three) :
                (accountFile \o three)[i] = IF i <= Len(accountFile) THEN accountFile[i]
                                           ELSE three[i - Len(accountFile)]
      BY <1>1, <1>4, ConcatProperties
    <2> QED BY <1>1, <1>3, <2>1
  <1>8. accountFile' # NoAccounts
    <2>1. Len(NoAccounts) = 1
      BY KnownLines
    <2>2. Len(accountFile') # Len(NoAccounts)
      BY <1>4, <1>7, <2>1
    <2> QED BY <2>2, Zenon
  <1>9. 3 * Len(saved') <= Len(accountFile')
    BY <1>4, <1>6, <1>7 DEF AccountsInv
  <1> DEFINE before(n) == Len(accountFile) - 3 * Len(saved) + 3 * (n - 1)
  <1>10. \A n \in 1..Len(saved') : Len(accountFile') - 3 * Len(saved') + 3 * (n - 1) = before(n)
    BY <1>4, <1>6, <1>7
  <1>11. ASSUME NEW n \in 1..Len(saved')
         PROVE  saved'[n] = [pcLogin |-> accountFile'[before(n) + 1],
                             pcPassword |-> accountFile'[before(n) + 2],
                             pcRights |-> accountFile'[before(n) + 3]]
    <2>1. CASE n \in 1..Len(saved)
      <3>1. \A i \in {1, 2, 3} : /\ before(n) + i \in 1..Len(accountFile) + 3
                                 /\ before(n) + i <= Len(accountFile)
        BY <1>4, <2>1 DEF AccountsInv
      <3>2. saved[n] = [pcLogin |-> accountFile[before(n) + 1],
                        pcPassword |-> accountFile[before(n) + 2],
                        pcRights |-> accountFile[before(n) + 3]]
        BY <2>1 DEF AccountsInv
      <3> HIDE DEF before
      <3>3. \A i \in {1, 2, 3} : accountFile'[before(n) + i] = accountFile[before(n) + i]
        BY <1>7, <3>1
      <3> QED BY <1>6, <2>1, <3>2, <3>3
    <2>2. CASE n = Len(saved) + 1
      <3>1. before(n) = Len(accountFile)
        BY <1>4, <2>2
      <3> HIDE DEF before
      <3>2. \A i \in {1, 2, 3} : accountFile'[before(n) + i] = three[i]
        <4> SUFFICES ASSUME NEW i \in {1, 2, 3} PROVE accountFile'[before(n) + i] = three[i]
          OBVIOUS
        <4>1. /\ before(n) + i \in 1..Len(accountFile) + 3 /\ ~ (before(n) + i <= Len(accountFile))
              /\ (before(n) + i) - Len(accountFile) = i
          BY <1>4, <3>1
        <4> QED BY <1>7, <4>1
      <3> QED BY <1>1, <1>6, <2>2, <3>2 DEF entry
    <2> QED BY <1>4, <1>6, <2>1, <2>2
  <1> QED BY <1>3, <1>5, <1>6, <1>7, <1>8, <1>9, <1>10, <1>11 DEF AccountsInv

LEMMA MemoryStep ==
    ASSUME AccountsInv,
           \/ \E l \in Logins, p, r \in Secrets : AddAccount(l, p, r)
           \/ \E i \in 0..MaxAccounts : RemoveAccountByIndex(i)
           \/ Restart
    PROVE  AccountsInv'
  <1>1. AccountList \in Seq(AccountRecords) /\ Len(AccountList) \in Nat
    BY LenProperties DEF AccountsInv
  <1>2. /\ accountPhase' \in {"used", "down"} /\ accountPhase # "new"
        /\ UNCHANGED <<accountFile, saved>>
    BY DEF AddAccount, RemoveAccountByIndex, Restart, Running
  <1>3. AccountList' \in Seq(AccountRecords)
    <2>1. ASSUME NEW l \in Logins, NEW p \in Secrets, NEW r \in Secrets, AddAccount(l, p, r)
          PROVE  AccountList' \in Seq(AccountRecords)
      <3>1. Account(<<l, p, r>>) \in AccountRecords
        <4>1. l \in Text /\ p \in Text /\ r \in Text
          BY KnownLines
        <4>2. Account(<<l, p, r>>) = [pcLogin |-> l, pcPassword |-> p, pcRights |-> r]
          BY DEF Account
        <4> QED BY <4>1, <4>2 DEF AccountRecords
      <3>2. AccountList' = Append(AccountList, Account(<<l, p, r>>))
        BY <2>1 DEF AddAccount
      <3> QED BY <1>1, <3>1, <3>2, AppendProperties
    <2>2. ASSUME NEW i \in 0..MaxAccounts, RemoveAccountByIndex(i)
          PROVE  AccountList' \in Seq(AccountRecords)
      <3>0. i \in 0..Len(AccountList) - 1 /\ AccountList' = RemoveAt(AccountList, i + 1)
        BY <1>1, <2>2 DEF RemoveAccountByIndex
      <3>1. AccountList' = SubSeq(AccountList, 1, (i + 1) - 1)
                              \o SubSeq(AccountList, (i + 1) + 1, Len(AccountList))
        BY <3>0, Zenon DEF RemoveAt
      <3>2. \A m, n \in Int : 1 <= m /\ n <= Len(AccountList)
                                 => SubSeq(AccountList, m, n) \in Seq(AccountRecords)
        <4> SUFFICES ASSUME NEW m \in Int, NEW n \in Int, 1 <= m, n <= Len(AccountList)
                     PROVE  SubSeq(AccountList, m, n) \in Seq(AccountRecords)
          OBVIOUS
        <4>1. \A j \in m..n : j \in 1..Len(AccountList)
          BY <1>1
        <4>2. \A j \in m..n : AccountList[j] \in AccountRecords
          BY <1>1, <4>1, ElementOfSeq
        <4> QED BY <4>2, SubSeqProperties
      <3>3. /\ SubSeq(AccountList, 1, (i + 1) - 1) \in Seq(AccountRecords)
            /\ SubSeq(AccountList, (i + 1) + 1, Len(AccountList)) \in Seq(AccountRecords)
        <4>1. (i + 1) - 1 \in Int /\ (i + 1) - 1 <= Len(AccountList) /\ (i + 1) + 1 \in Int
              /\ 1 <= (i + 1) + 1
              /\ Len(AccountList) \in Int /\ Len(AccountList) <= Len(AccountList)
          BY <1>1, <3>0
        <4> QED BY <3>2, <4>1
      <3> QED BY <3>1, <3>3, ConcatProperties
    <2>3. Restart => AccountList' \in Seq(AccountRecords)
      BY EmptySeq DEF Restart
    <2> QED BY <2>1, <2>2, <2>3
  <1> QED BY <1>2, <1>3 DEF AccountsInv

LEMMA SuffixIs ==
    ASSUME NEW S, NEW s \in Seq(S), NEW t \in Seq(S), Len(s) <= Len(t),
           \A i \in 1..Len(s) : s[i] = t[Len(t) - Len(s) + i]
    PROVE  IsSuffix(s, t)
  <1>1. Len(s) \in Nat /\ Len(t) \in Nat
    BY LenProperties
  <1>2. ASSUME NEW q \in Seq(S)
        PROVE  /\ Reverse(q) \in Seq(S) /\ Len(Reverse(q)) = Len(q)
               /\ \A i \in 1..Len(q) : Reverse(q)[i] = q[(Len(q) - i) + 1]
    <2>1. Len(q) \in Nat
      BY LenProperties
    <2>2. \A i \in 1..Len(q) : (Len(q) - i) + 1 \in 1..Len(q)
      BY <2>1
    <2>3. \A i \in 1..Len(q) : q[(Len(q) - i) + 1] \in S
      BY <2>2, ElementOfSeq
    <2>4. Reverse(q) = [i \in 1..Len(q) |-> q[(Len(q) - i) + 1]]
      BY DEF Reverse
    <2>5. Reverse(q) \in [1..Len(q) -> S]
      BY <2>3, <2>4
    <2> QED BY <2>1, <2>4, <2>5, SequenceOf
  <1>3. ASSUME NEW i \in 1..Len(Reverse(s)) PROVE Reverse(s)[i] = Reverse(t)[i]
    <2>1. i \in 1..Len(s) /\ i \in 1..Len(t)
      BY <1>1, <1>2
    <2>2. (Len(s) - i) + 1 \in 1..Len(s) /\ Len(t) - Len(s) + ((Len(s) - i) + 1) = (Len(t) - i) + 1
      BY <1>1, <2>1
    <2>3. s[(Len(s) - i) + 1] = t[Len(t) - Len(s) + ((Len(s) - i) + 1)]
      BY <2>2
    <2> QED BY <1>2, <2>1, <2>2, <2>3
  <1>4. Len(Reverse(s)) <= Len(Reverse(t)) /\ Reverse(s) \in Seq(S) /\ Reverse(t) \in Seq(S)
    BY <1>2
  <1>5. IsPrefix(Reverse(s), Reverse(t))
    BY <1>3, <1>4, PrefixIs
  <1> QED BY <1>5 DEF IsSuffix

LEMMA AccountsStay == AccountsInv => AccountsKept
  <1> SUFFICES ASSUME AccountsInv, accountPhase = "read", Len(accountFile) % 3 = 0
               PROVE  IsSuffix(saved, AccountList)
    BY DEF AccountsKept
  <1> DEFINE size == Len(accountFile) \div 3
  <1>1. /\ Len(accountFile) \in Nat /\ Len(saved) \in Nat
        /\ accountFile \in Seq(Text) /\ saved \in Seq(AccountRecords)
        /\ AccountList = ReadAccounts(accountFile)
    BY LenProperties DEF AccountsInv
  <1>2. size \in Nat /\ Len(accountFile) = 3 * size /\ Len(saved) <= size
    BY <1>1 DEF AccountsInv
  <1>3. /\ AccountList \in Seq(AccountRecords) /\ Len(AccountList) = size
        /\ \A n \in 1..size : AccountList[n] = [pcLogin |-> accountFile[3 * n - 2],
                                                pcPassword |-> accountFile[3 * n - 1],
                                                pcRights |-> accountFile[3 * n]]
    BY <1>1, AccountsRead
  <1>4. ASSUME NEW n \in 1..Len(saved) PROVE saved[n] = AccountList[size - Len(saved) + n]
    <2> DEFINE m == size - Len(saved) + n
               before == Len(accountFile) - 3 * Len(saved) + 3 * (n - 1)
    <2>1. saved[n] = [pcLogin |-> accountFile[before + 1], pcPassword |-> accountFile[before + 2],
                      pcRights |-> accountFile[before + 3]]
      BY DEF AccountsInv
    <2>2. m \in 1..size /\ before + 1 = 3 * m - 2 /\ before + 2 = 3 * m - 1 /\ before + 3 = 3 * m
      BY <1>1, <1>2
    <2> HIDE DEF m, before
    <2>3. saved[n] = AccountList[m]
      BY <1>3, <2>1, <2>2
    <2> QED BY <2>3 DEF m
  <1> QED BY <1>1, <1>2, <1>3, <1>4, SuffixIs

(* Every account that was saved, in whatever run of the program, is read     *)
(* again after a restart with its own password and rights, if the file had   *)
(* whole records, and no change of the list in memory takes one away.        *)
THEOREM AccountsCorrect == Spec => []AccountsKept
  <1>1. Init => AccountsInv
    <2> QED BY KnownLines, EmptySeq DEF Init, AccountsInit, AccountsInv
  <1>2. [Next]_vars => [AccountsNext]_accountVars
    BY DEF Next, Idle, vars, accountVars
  <1>3. AccountsInv /\ UNCHANGED accountVars => AccountsInv'
    BY DEF AccountsInv, accountVars
  <1>4. AccountsInv /\ [Next]_vars => AccountsInv'
    BY <1>2, <1>3, ReadFileStep, SaveStep, MemoryStep DEF AccountsNext
  <1> QED BY <1>1, <1>4, AccountsStay, PTL DEF Spec

-----------------------------------------------------------------------------
(* The list of question files. *)

Distinct(q) == \A i, j \in 1..Len(q) : q[i] = q[j] => i = j

QuestInv ==
    /\ directory \subseteq Files
    /\ FilesList \in Seq(Files)
    /\ QuestList \in Seq(Files) /\ Distinct(QuestList)
    /\ scanned => /\ (directory \cap valid) \ HiddenFiles \subseteq ToSet(QuestList)
                  /\ Len(QuestList) <= Len(FilesList)

LEMMA PlacesOf ==
    ASSUME NEW S, NEW q \in Seq(S)
    PROVE  /\ Len(q) \in Nat /\ DOMAIN q = 1..Len(q)
           /\ \A x : x \in ToSet(q) <=> \E i \in 1..Len(q) : q[i] = x
           /\ \A i \in 1..Len(q) : q[i] \in S
           /\ IsInjective(q) <=> Distinct(q)
  <1>1. Len(q) \in Nat /\ DOMAIN q = 1..Len(q)
    BY LenProperties
  <1>2. \A i \in 1..Len(q) : q[i] \in S
    BY ElementOfSeq
  <1>3. \A x : x \in ToSet(q) <=> \E i \in 1..Len(q) : q[i] = x
    BY <1>1 DEF ToSet
  <1>4. IsInjective(q) <=> Distinct(q)
    BY <1>1, Zenon DEF IsInjective, Distinct
  <1> QED BY <1>1, <1>2, <1>3, <1>4

(* What appending an element to a list of different ones gives. *)
LEMMA LongerList ==
    ASSUME NEW S, NEW q \in Seq(S), NEW x \in S
    PROVE  /\ Append(q, x) \in Seq(S)
           /\ ToSet(Append(q, x)) = ToSet(q) \cup {x}
           /\ Distinct(q) /\ x \notin ToSet(q) => Distinct(Append(q, x))
  <1> DEFINE p == Append(q, x)
  <1>1. /\ p \in Seq(S) /\ Len(p) = Len(q) + 1 /\ Len(q) \in Nat
        /\ \A i \in 1..Len(q) : p[i] = q[i]
        /\ p[Len(q) + 1] = x
    BY AppendProperties, LenProperties
  <1> HIDE DEF p
  <1>2. \A i \in 1..Len(p) : i \in 1..Len(q) \/ i = Len(q) + 1
    BY <1>1
  <1>3. \A y : y \in ToSet(p) <=> y \in ToSet(q) \/ y = x
    <2> TAKE y
    <2>1. y \in ToSet(p) <=> \E i \in 1..Len(p) : p[i] = y
      BY <1>1, PlacesOf
    <2>2. y \in ToSet(q) <=> \E i \in 1..Len(q) : q[i] = y
      BY PlacesOf
    <2>3. Len(q) + 1 \in 1..Len(p) /\ \A i \in 1..Len(q) : i \in 1..Len(p)
      BY <1>1
    <2> QED BY <1>1, <1>2, <2>1, <2>2, <2>3
  <1>4. ASSUME Distinct(q), x \notin ToSet(q), NEW i \in 1..Len(p), NEW j \in 1..Len(p), p[i] = p[j]
        PROVE  i = j
    <2>1. \A k \in 1..Len(q) : q[k] # x
      BY <1>4, PlacesOf
    <2> QED BY <1>1, <1>2, <1>4, <2>1 DEF Distinct
  <1>5. Distinct(q) /\ x \notin ToSet(q) => Distinct(p)
    BY <1>4 DEF Distinct
  <1>6. p \in Seq(S) /\ ToSet(p) = ToSet(q) \cup {x}
    BY <1>1, <1>3
  <1> QED BY <1>5, <1>6 DEF p

LEMMA AddedSteps ==
    ASSUME NEW list \in Seq(Files), NEW files \in Seq(Files)
    PROVE  \E after \in [0..Len(files) -> Seq(Files)] :
               /\ after[0] = list /\ Added(list, files) = after[Len(files)]
               /\ \A i \in 1..Len(files) :
                     after[i] = IF files[i] \in ToSet(after[i - 1]) \/ files[i] \notin valid
                                THEN after[i - 1] ELSE Append(after[i - 1], files[i])
  <1> DEFINE n == Len(files)
             Add(quests, f) ==
                 IF f \in ToSet(quests) \/ f \notin valid THEN quests ELSE Append(quests, f)
             Steps(g) == g = [i \in 0..n |-> IF i = 0 THEN list ELSE Add(g[i - 1], files[i])]
             after == CHOOSE g : Steps(g)
             step == [i \in 1..n |-> [q \in Seq(Files) |-> Add(q, files[i])]]
  <1>1. n \in Nat /\ \A i \in 1..n : files[i] \in Files
    BY PlacesOf
  <1>2. Added(list, files) = after[n]
    BY DEF Added
  <1>3. \A q \in Seq(Files), f \in Files : Add(q, f) \in Seq(Files)
    BY LongerList
  <1> HIDE DEF n, Add
  <1>4. step \in [1..n -> [Seq(Files) -> Seq(Files)]]
    BY <1>1, <1>3
  <1>5. \A i \in 1..n, q \in Seq(Files) : step[i][q] = Add(q, files[i])
    OBVIOUS
  <1> HIDE DEF step
  <1>6. PICK g \in [0..n -> Seq(Files)] :
                 g[0] = list /\ \A i \in 1..n : g[i] = step[i][g[i - 1]]
    <2>1. \E g \in [0..n -> Seq(Files)] : Follows(g, list, step, n)
      BY <1>1, <1>4, StepByStep
    <2> QED BY <2>1, Zenon DEF Follows
  <1>7. Steps(g)
    <2>1. \A i \in 0..n : g[i] = IF i = 0 THEN list ELSE Add(g[i - 1], files[i])
      <3> SUFFICES ASSUME NEW i \in 1..n PROVE g[i] = Add(g[i - 1], files[i])
        BY <1>1, <1>6
      <3>1. i - 1 \in 0..n
        BY <1>1
      <3>2. g[i - 1] \in Seq(Files)
        BY <1>6, <3>1
      <3> QED BY <1>5, <1>6, <3>2
    <2>2. g = [i \in 0..n |-> g[i]]
      BY <1>6
    <2> QED BY <2>1, <2>2
  <1>8. Steps(after)
    <2> HIDE DEF Steps
    <2> QED BY <1>7, Zenon
  <1> HIDE DEF after
  <1>9. \A i \in 0..n : after[i] = IF i = 0 THEN list ELSE Add(after[i - 1], files[i])
    BY <1>8, Zenon
  <1>10. \A i \in 0..n : after[i] \in Seq(Files)
    <2> DEFINE S == {i \in 0..n : after[i] \in Seq(Files)}
    <2>1. 0 \in S
      BY <1>1, <1>9
    <2>2. ASSUME NEW i \in 1..n, i - 1 \in S PROVE i \in S
      <3>1. i \in 0..n /\ i # 0 /\ files[i] \in Files
        BY <1>1
      <3> QED BY <1>3, <1>9, <2>2, <3>1
    <2> HIDE DEF S
    <2>3. \A i \in 0..n : i \in S
      BY <1>1, <2>1, <2>2, EachStep
    <2> QED BY <2>3 DEF S
  <1>11. after \in [0..n -> Seq(Files)]
    <2>1. after = [i \in 0..n |-> after[i]]
      BY <1>8, Zenon
    <2> QED BY <1>10, <2>1
  <1>12. after[0] = list /\ \A i \in 1..n : after[i] = Add(after[i - 1], files[i])
    BY <1>1, <1>9
  <1> QED BY <1>2, <1>11, <1>12 DEF n, Add

(* The list keeps what it had and gets every file with a question. *)
LEMMA AddedHas ==
    ASSUME NEW list \in Seq(Files), NEW files \in Seq(Files), Distinct(list)
    PROVE  /\ Added(list, files) \in Seq(Files) /\ Distinct(Added(list, files))
           /\ ToSet(files) \cap valid \subseteq ToSet(Added(list, files))
  <1> DEFINE n == Len(files)
  <1>1. n \in Nat /\ \A i \in 1..n : files[i] \in Files
    BY PlacesOf
  <1>2. PICK after \in [0..n -> Seq(Files)] :
               /\ after[0] = list /\ Added(list, files) = after[n]
               /\ \A i \in 1..n :
                     after[i] = IF files[i] \in ToSet(after[i - 1]) \/ files[i] \notin valid
                                THEN after[i - 1] ELSE Append(after[i - 1], files[i])
    BY AddedSteps
  <1> DEFINE Has(i) == \A k \in 1..i : files[k] \in valid => files[k] \in ToSet(after[i])
             S == {i \in 0..n : Distinct(after[i]) /\ Has(i)}
  <1>3. 0 \in S
    BY <1>1, <1>2
  <1>4. ASSUME NEW i \in 1..n, i - 1 \in S PROVE i \in S
    <2>0. /\ i - 1 \in 0..n /\ i \in 0..n
          /\ \A k \in 1..i : k = i \/ k \in 1..i - 1
      BY <1>1
    <2>1. after[i - 1] \in Seq(Files) /\ files[i] \in Files
      BY <1>1, <2>0
    <2>2. /\ ToSet(Append(after[i - 1], files[i])) = ToSet(after[i - 1]) \cup {files[i]}
          /\ Distinct(after[i - 1]) /\ files[i] \notin ToSet(after[i - 1])
                => Distinct(Append(after[i - 1], files[i]))
      BY <2>1, LongerList
    <2>3. Distinct(after[i])
      BY <1>2, <1>4, <2>2
    <2>4. \A k \in 1..i : files[k] \in valid => files[k] \in ToSet(after[i])
      BY <1>2, <1>4, <2>0, <2>2
    <2> QED BY <2>0, <2>3, <2>4
  <1>5. n \in S
    <2> HIDE DEF S, n
    <2>1. \A i \in 0..n : i \in S
      BY <1>1, <1>3, <1>4, EachStep
    <2> QED BY <1>1, <2>1
  <1>6. \A x \in ToSet(files) : \E k \in 1..n : files[k] = x
    BY PlacesOf
  <1> QED BY <1>1, <1>2, <1>5, <1>6

LEMMA ErasedSteps ==
    ASSUME NEW list \in Seq(Files), NEW files \in Seq(Files)
    PROVE  \E kept \in [0..Len(list) -> Seq(Files)] :
               /\ kept[0] = <<>> /\ Erased(list, files) = kept[Len(list)]
               /\ \A i \in 1..Len(list) :
                     kept[i] = IF list[i] \in ToSet(files) THEN Append(kept[i - 1], list[i])
                               ELSE kept[i - 1]
  <1> DEFINE n == Len(list)
             Keep(q, f) == IF f \in ToSet(files) THEN Append(q, f) ELSE q
             Steps(g) == g = [i \in 0..n |-> IF i = 0 THEN <<>>
                                             ELSE IF list[i] \in ToSet(files)
                                                  THEN Append(g[i - 1], list[i])
                                             ELSE g[i - 1]]
             kept == CHOOSE g : Steps(g)
             step == [i \in 1..n |-> [q \in Seq(Files) |-> Keep(q, list[i])]]
  <1>1. n \in Nat /\ (\A i \in 1..n : list[i] \in Files) /\ <<>> \in Seq(Files)
    BY PlacesOf, EmptySeq
  <1>2. Erased(list, files) = kept[n]
    BY DEF Erased
  <1>3. \A q \in Seq(Files), f \in Files : Keep(q, f) \in Seq(Files)
    BY LongerList
  <1>4. \A g : Steps(g) => \A i \in 0..n : g[i] = IF i = 0 THEN <<>> ELSE Keep(g[i - 1], list[i])
    BY Zenon
  <1>5. ASSUME NEW g, g = [i \in 0..n |-> g[i]],
               \A i \in 0..n : g[i] = IF i = 0 THEN <<>> ELSE Keep(g[i - 1], list[i])
        PROVE  Steps(g)
    BY <1>5
  <1>6. \A g : Steps(g) => g = [i \in 0..n |-> g[i]]
    BY Zenon
  <1> HIDE DEF n, Keep, Steps
  <1>7. step \in [1..n -> [Seq(Files) -> Seq(Files)]]
    BY <1>1, <1>3
  <1>8. \A i \in 1..n, q \in Seq(Files) : step[i][q] = Keep(q, list[i])
    OBVIOUS
  <1> HIDE DEF step
  <1>9. PICK g \in [0..n -> Seq(Files)] :
                 g[0] = <<>> /\ \A i \in 1..n : g[i] = step[i][g[i - 1]]
    <2>1. \E g \in [0..n -> Seq(Files)] : Follows(g, <<>>, step, n)
      BY <1>1, <1>7, StepByStep
    <2> QED BY <2>1, Zenon DEF Follows
  <1>10. Steps(g)
    <2>1. \A i \in 0..n : g[i] = IF i = 0 THEN <<>> ELSE Keep(g[i - 1], list[i])
      <3> SUFFICES ASSUME NEW i \in 1..n PROVE g[i] = Keep(g[i - 1], list[i])
        BY <1>1, <1>9
      <3>1. i - 1 \in 0..n
        BY <1>1
      <3>2. g[i - 1] \in Seq(Files)
        BY <1>9, <3>1
      <3> QED BY <1>8, <1>9, <3>2
    <2>2. g = [i \in 0..n |-> g[i]]
      BY <1>9
    <2> QED BY <1>5, <2>1, <2>2
  <1>11. Steps(kept)
    BY <1>10, Zenon
  <1> HIDE DEF kept
  <1>12. \A i \in 0..n : kept[i] = IF i = 0 THEN <<>> ELSE Keep(kept[i - 1], list[i])
    BY <1>4, <1>11
  <1>13. \A i \in 0..n : kept[i] \in Seq(Files)
    <2> DEFINE S == {i \in 0..n : kept[i] \in Seq(Files)}
    <2>1. 0 \in S
      <3>1. 0 \in 0..n /\ kept[0] = <<>>
        BY <1>1, <1>12
      <3> QED BY <1>1, <3>1
    <2>2. ASSUME NEW i \in 1..n, i - 1 \in S PROVE i \in S
      <3>1. i \in 0..n /\ i # 0 /\ list[i] \in Files
        BY <1>1
      <3> QED BY <1>3, <1>12, <2>2, <3>1
    <2> HIDE DEF S
    <2>3. \A i \in 0..n : i \in S
      BY <1>1, <2>1, <2>2, EachStep
    <2> QED BY <2>3 DEF S
  <1>14. kept \in [0..n -> Seq(Files)]
    BY <1>6, <1>11, <1>13
  <1>15. kept[0] = <<>> /\ \A i \in 1..n : kept[i] = Keep(kept[i - 1], list[i])
    BY <1>1, <1>12
  <1> QED BY <1>2, <1>14, <1>15 DEF n, Keep

(* The list keeps those of its elements that are among the files, and no other. *)
LEMMA ErasedHas ==
    ASSUME NEW list \in Seq(Files), NEW files \in Seq(Files), Distinct(list)
    PROVE  /\ Erased(list, files) \in Seq(Files) /\ Distinct(Erased(list, files))
           /\ ToSet(Erased(list, files)) = ToSet(list) \cap ToSet(files)
  <1> DEFINE n == Len(list)
  <1>1. n \in Nat /\ \A i \in 1..n : list[i] \in Files
    BY PlacesOf
  <1>2. PICK kept \in [0..n -> Seq(Files)] :
               /\ kept[0] = <<>> /\ Erased(list, files) = kept[n]
               /\ \A i \in 1..n :
                     kept[i] = IF list[i] \in ToSet(files) THEN Append(kept[i - 1], list[i])
                               ELSE kept[i - 1]
    BY ErasedSteps
  <1> DEFINE Among(i) == {x \in ToSet(files) : \E k \in 1..i : list[k] = x}
             S == {i \in 0..n : Distinct(kept[i]) /\ ToSet(kept[i]) = Among(i)}
  <1>3. 0 \in S
    <2>1. Len(<<>>) = 0 /\ <<>> \in Seq(Files)
      BY EmptySeq
    <2>2. Distinct(<<>>)
      BY <2>1 DEF Distinct
    <2>3. ToSet(<<>>) = {}
      <3>1. \A x : x \in ToSet(<<>>) <=> \E i \in 1..Len(<<>>) : <<>>[i] = x
        BY <2>1, PlacesOf
      <3> QED BY <2>1, <3>1
    <2>4. Among(0) = {} /\ 0 \in 0..n
      BY <1>1
    <2> HIDE DEF Among, n
    <2> QED BY <1>2, <2>2, <2>3, <2>4
  <1>4. ASSUME NEW i \in 1..n, i - 1 \in S PROVE i \in S
    <2>0. /\ i - 1 \in 0..n /\ i \in 0..n /\ i \in 1..i
          /\ \A k \in 1..i : k = i \/ k \in 1..i - 1
          /\ \A k \in 1..i - 1 : k \in 1..i /\ k \in 1..n /\ k # i
      BY <1>1
    <2>1. kept[i - 1] \in Seq(Files) /\ list[i] \in Files
      BY <1>1, <2>0
    <2>2. /\ ToSet(Append(kept[i - 1], list[i])) = ToSet(kept[i - 1]) \cup {list[i]}
          /\ Distinct(kept[i - 1]) /\ list[i] \notin ToSet(kept[i - 1])
                => Distinct(Append(kept[i - 1], list[i]))
      BY <2>1, LongerList
    <2>3. list[i] \notin ToSet(kept[i - 1])
      <3>1. \A k \in 1..i - 1 : list[k] # list[i]
        BY <2>0 DEF Distinct
      <3> QED BY <1>4, <3>1
    <2>4. Distinct(kept[i])
      BY <1>2, <1>4, <2>2, <2>3
    <2>5. Among(i) = IF list[i] \in ToSet(files) THEN Among(i - 1) \cup {list[i]} ELSE Among(i - 1)
      BY <2>0
    <2>6. ToSet(kept[i]) = Among(i)
      <3> HIDE DEF Among
      <3> QED BY <1>2, <1>4, <2>2, <2>5
    <2> QED BY <2>0, <2>4, <2>6
  <1>5. n \in S
    <2> HIDE DEF S, n
    <2>1. \A i \in 0..n : i \in S
      BY <1>1, <1>3, <1>4, EachStep
    <2> QED BY <1>1, <2>1
  <1>6. \A x : x \in ToSet(list) <=> \E k \in 1..n : list[k] = x
    BY PlacesOf
  <1> QED BY <1>1, <1>2, <1>5, <1>6

LEMMA NoMoreThan ==
    ASSUME NEW S, NEW q \in Seq(S), NEW r \in Seq(S), Distinct(q), ToSet(q) \subseteq ToSet(r)
    PROVE  Len(q) <= Len(r)
  <1>1. /\ Len(q) \in Nat /\ Len(r) \in Nat
        /\ q = [i \in 1..Len(q) |-> q[i]] /\ r = [i \in 1..Len(r) |-> r[i]]
    BY LenProperties
  <1>2. /\ IsFiniteSet(1..Len(q)) /\ Cardinality(1..Len(q)) = Len(q)
        /\ IsFiniteSet(1..Len(r)) /\ Cardinality(1..Len(r)) = Len(r)
    <2>1. \A m \in Nat : IsFiniteSet(1..m) /\ Cardinality(1..m) = m
      <3> SUFFICES ASSUME NEW m \in Nat PROVE IsFiniteSet(1..m) /\ Cardinality(1..m) = m
        OBVIOUS
      <3>1. IsFiniteSet(1..m) /\ Cardinality(1..m) = IF 1 > m THEN 0 ELSE m - 1 + 1
        BY FS_Interval
      <3> QED BY <3>1
    <2> QED BY <1>1, <2>1
  <1>3. r \in Surjection(1..Len(r), ToSet(r))
    BY <1>1, PlacesOf DEF Surjection
  <1>4. IsFiniteSet(ToSet(r)) /\ Cardinality(ToSet(r)) <= Cardinality(1..Len(r))
    BY <1>2, <1>3, FS_Surjection
  <1>5. q \in Injection(1..Len(q), ToSet(r))
    <2>1. \A i \in 1..Len(q) : q[i] \in ToSet(r)
      BY PlacesOf
    <2>2. q \in [1..Len(q) -> ToSet(r)]
      BY <1>1, <2>1
    <2>3. IsInjective(q)
      BY PlacesOf
    <2> QED BY <2>2, <2>3, Zenon DEF Injection
  <1>6. Cardinality(1..Len(q)) <= Cardinality(ToSet(r))
    BY <1>4, <1>5, FS_Injection
  <1>7. IsFiniteSet(ToSet(r)) /\ Cardinality(ToSet(r)) \in Nat
    BY <1>4, FS_CardinalityType
  <1> QED BY <1>1, <1>2, <1>4, <1>6, <1>7

(* What a scan of the directory finds, in any order, is all of it. *)
LEMMA FoundAll ==
    ASSUME NEW D, D \subseteq Files, NEW found \in SetToSeqs(D)
    PROVE  found \in Seq(Files) /\ ToSet(found) = D
  <1> DEFINE n == Cardinality(D)
  <1>1. IsFiniteSet(D) /\ n \in Nat
    BY FilesAssumption, FS_Subset, FS_CardinalityType
  <1>2. /\ found \in [1..n -> D]
        /\ \A i, j \in 1..n : i # j => found[i] # found[j]
    BY DEF SetToSeqs
  <1> HIDE DEF n
  <1>3. found \in Injection(1..n, D)
    <2>1. DOMAIN found = 1..n
      BY <1>2
    <2>2. IsInjective(found)
      BY <1>2, <2>1 DEF IsInjective
    <2> QED BY <1>2, <2>2 DEF Injection
  <1>4. Cardinality(1..n) = Cardinality(D)
    BY <1>1, FS_Interval DEF n
  <1>5. found \in Surjection(1..n, D)
    BY <1>1, <1>3, <1>4, FS_Injection
  <1>6. found \in Seq(Files) /\ Len(found) = n
    <2>1. found \in [1..n -> Files]
      BY <1>2
    <2> QED BY <1>1, <2>1, SequenceOf
  <1>7. \A x \in D : \E i \in 1..n : found[i] = x
    BY <1>5 DEF Surjection
  <1>8. \A x : x \in ToSet(found) <=> x \in D
    BY <1>2, <1>6, <1>7, PlacesOf
  <1> QED BY <1>6, <1>8

LEMMA ScanLists ==
    ASSUME QuestInv, NEW found \in Seq(Files), executeScan(found)
    PROVE  /\ FilesList' \in Seq(Files) /\ QuestList' \in Seq(Files) /\ Distinct(QuestList')
           /\ ToSet(found) \cap valid \subseteq ToSet(QuestList')
           /\ Len(QuestList') <= Len(FilesList')
           /\ UNCHANGED <<directory, valid>>
  <1> DEFINE quests == Added(QuestList, found)
  <1>1. /\ FilesList' = found /\ UNCHANGED <<directory, valid>>
        /\ QuestList' = IF Len(found) < Len(quests) THEN Erased(quests, found) ELSE quests
    BY DEF executeScan
  <1>2. /\ quests \in Seq(Files) /\ Distinct(quests)
        /\ ToSet(found) \cap valid \subseteq ToSet(quests)
    BY AddedHas DEF QuestInv
  <1> HIDE DEF quests
  <1>3. CASE Len(found) < Len(quests)
    <2>1. /\ QuestList' \in Seq(Files) /\ Distinct(QuestList')
          /\ ToSet(QuestList') = ToSet(quests) \cap ToSet(found)
      BY <1>1, <1>2, <1>3, ErasedHas
    <2>2. Len(QuestList') <= Len(found)
      <3>1. ToSet(QuestList') \subseteq ToSet(found)
        BY <2>1
      <3> QED BY <2>1, <3>1, NoMoreThan
    <2> QED BY <1>1, <1>2, <2>1, <2>2
  <1>4. CASE ~ (Len(found) < Len(quests))
    <2>1. Len(found) \in Nat /\ Len(quests) \in Nat
      BY <1>2, LenProperties
    <2> QED BY <1>1, <1>2, <1>4, <2>1
  <1> QED BY <1>3, <1>4

LEMMA QuestStep == QuestInv /\ QuestNext => QuestInv'
  <1> SUFFICES ASSUME QuestInv, QuestNext PROVE QuestInv'
    OBVIOUS
  <1>1. CASE ChangeDirectory
    BY <1>1 DEF ChangeDirectory, QuestInv
  <1>2. CASE Scan
    <2> DEFINE D == directory \ HiddenFiles
    <2>1. PICK found \in SetToSeqs(D) : executeScan(found) /\ scanned' = TRUE
      BY <1>2 DEF Scan
    <2>2. D \subseteq Files
      BY DEF QuestInv
    <2>3. found \in Seq(Files) /\ ToSet(found) = D
      <3> HIDE DEF D
      <3> QED BY <2>2, FoundAll
    <2> QED BY <2>1, <2>3, ScanLists DEF QuestInv
  <1>3. CASE ScanFails
    <2>1. FilesList \in Seq(Files)
      BY DEF QuestInv
    <2>2. executeScan(FilesList) /\ scanned' = FALSE
      BY <1>3 DEF ScanFails
    <2> QED BY <2>1, <2>2, ScanLists DEF QuestInv
  <1> QED BY <1>1, <1>2, <1>3 DEF QuestNext

(* After a scan every file with a question that can be read is listed, none  *)
(* twice, however files come, go and change between scans and in whatever    *)
(* order the directory names them, and there are no more entries than files. *)
THEOREM QuestionsCorrect == Spec => []QuestListed
  <1>1. Init => QuestInv
    <2>1. <<>> \in Seq(Files) /\ Len(<<>>) = 0
      BY EmptySeq
    <2>2. Distinct(<<>>)
      BY <2>1 DEF Distinct
    <2> QED BY <2>1, <2>2 DEF Init, QuestInit, QuestInv
  <1>2. [Next]_vars => [QuestNext]_questVars
    BY DEF Next, Idle, vars, questVars
  <1>3. QuestInv /\ UNCHANGED questVars => QuestInv'
    BY DEF QuestInv, questVars
  <1>4. QuestInv /\ [Next]_vars => QuestInv'
    BY <1>2, <1>3, QuestStep
  <1>5. QuestInv => QuestListed
    BY PlacesOf DEF QuestInv, QuestListed
  <1> QED BY <1>1, <1>4, <1>5, PTL DEF Spec

-----------------------------------------------------------------------------
(* Editing a question file. *)

FileItem == [id : Nat, type : Types, data : Seq(Nat)]
ItemLength(item) == 3 + Len(item.data)

(* The item is in the cells from o on. *)
ItemAt(f, o, item) ==
    /\ f[o] = item.type
    /\ f[o + 1] = item.id
    /\ f[o + 2] = Len(item.data)
    /\ \A i \in 1..Len(item.data) : f[o + 2 + i] = item.data[i]

(* The cells of a file without its checksum: the items, where each of them   *)
(* begins and where they end.                                                *)
Holds(body, items, places) ==
    /\ body \in Seq(Nat) /\ items \in Seq(FileItem) /\ places \in Seq(Nat)
    /\ Len(places) = Len(items) + 1
    /\ places[1] = 2
    /\ \A n \in 1..Len(items) :
          /\ ItemAt(body, places[n], items[n])
          /\ places[n + 1] = places[n] + ItemLength(items[n])
    /\ Len(body) = places[Len(places)]
    /\ body[Len(body)] = Empty

LEMMA ItemIs ==
    ASSUME NEW item \in FileItem
    PROVE  /\ item.id \in Nat /\ item.type = 1 /\ item.data \in Seq(Nat)
           /\ Len(item.data) \in Nat /\ \A i \in 1..Len(item.data) : item.data[i] \in Nat
           /\ item = [id |-> item.id, type |-> item.type, data |-> item.data]
  <1>1. item.id \in Nat /\ item.type = 1 /\ item.data \in Seq(Nat)
    BY DEF FileItem, Types
  <1>2. item = [id |-> item.id, type |-> item.type, data |-> item.data]
    BY DEF FileItem
  <1> QED BY <1>1, <1>2, LenProperties, ElementOfSeq

(* The places lie one behind the other. *)
LEMMA PlacesRise ==
    ASSUME NEW body, NEW items, NEW places, Holds(body, items, places)
    PROVE  /\ Len(items) \in Nat /\ Len(body) \in Nat
           /\ \A n \in 1..Len(items) + 1 : places[n] \in n + 1..Len(body)
           /\ \A n \in 1..Len(items) : places[n + 1] >= places[n] + 3
           /\ \A n \in 1..Len(items) + 1 : \A k \in 1..n : places[k] <= places[n]
  <1> DEFINE m == Len(items)
  <1>1. m \in Nat /\ Len(body) \in Nat /\ Len(places) = m + 1 /\ places[1] = 2
    BY LenProperties DEF Holds
  <1>2. \A n \in 1..m + 1 : places[n] \in Nat
    BY <1>1, ElementOfSeq DEF Holds
  <1>3. ASSUME NEW n \in 1..m PROVE places[n + 1] >= places[n] + 3
    <2>1. items[n] \in FileItem
      BY ElementOfSeq DEF Holds
    <2>2. Len(items[n].data) \in Nat
      BY <2>1, ItemIs
    <2>3. places[n] \in Nat
      BY <1>1, <1>2
    <2>4. places[n + 1] = places[n] + ItemLength(items[n])
      BY DEF Holds
    <2> QED BY <2>2, <2>3, <2>4 DEF ItemLength
  <1> HIDE DEF m
  <1> DEFINE S == {i \in Nat : i + 1 \in 1..m + 1 => places[i + 1] >= i + 2}
  <1>4. \A i \in 0..m : i \in S
    <2>1. 0 \in S
      BY <1>1
    <2>2. ASSUME NEW i \in 1..m, i - 1 \in S PROVE i \in S
      <3>1. i - 1 + 1 = i /\ i \in 1..m + 1 /\ i + 1 \in 1..m + 1 /\ i - 1 + 2 = i + 1
        BY <1>1
      <3>2. places[i] >= i + 1
        BY <2>2, <3>1
      <3>3. places[i + 1] >= places[i] + 3 /\ places[i] \in Nat /\ places[i + 1] \in Nat
        BY <1>2, <1>3, <3>1
      <3> QED BY <3>1, <3>2, <3>3
    <2> HIDE DEF S
    <2> QED BY <1>1, <2>1, <2>2, EachStep
  <1>5. ASSUME NEW n \in 1..m + 1 PROVE places[n] >= n + 1
    <2>1. n - 1 \in 0..m /\ n - 1 + 1 = n /\ n - 1 + 2 = n + 1
      BY <1>1
    <2> QED BY <1>4, <2>1
  <1> DEFINE U(k) == {i \in 0..m + 1 - k : places[k] <= places[k + i]}
  <1>6. ASSUME NEW k \in 1..m + 1 PROVE \A i \in 0..m + 1 - k : i \in U(k)
    <2>1. 0 \in U(k)
      BY <1>1, <1>2
    <2>2. ASSUME NEW i \in 1..m + 1 - k, i - 1 \in U(k) PROVE i \in U(k)
      <3>1. k + (i - 1) \in 1..m /\ k + (i - 1) + 1 = k + i /\ k + i \in 1..m + 1
        BY <1>1
      <3>2. /\ places[k + i] >= places[k + (i - 1)] + 3 /\ places[k + (i - 1)] >= places[k]
            /\ places[k + i] \in Nat /\ places[k + (i - 1)] \in Nat /\ places[k] \in Nat
        BY <1>1, <1>2, <1>3, <2>2, <3>1
      <3> QED BY <1>1, <3>2
    <2>3. m + 1 - k \in Nat
      BY <1>1
    <2> HIDE DEF U
    <2> QED BY <2>1, <2>2, <2>3, EachStep
  <1>7. ASSUME NEW n \in 1..m + 1, NEW k \in 1..n PROVE places[k] <= places[n]
    <2>1. k \in 1..m + 1 /\ n - k \in 0..m + 1 - k /\ k + (n - k) = n
      BY <1>1
    <2> QED BY <1>6, <2>1
  <1>8. Len(body) = places[m + 1] /\ m + 1 \in 1..m + 1
    BY <1>1 DEF Holds
  <1>9. ASSUME NEW n \in 1..m + 1 PROVE places[n] \in n + 1..Len(body)
    <2>1. n \in 1..m + 1 /\ places[n] \in Nat /\ places[n] <= places[m + 1]
      BY <1>1, <1>2, <1>7, <1>8
    <2> QED BY <1>1, <1>5, <1>8, <2>1
  <1> QED BY <1>1, <1>3, <1>7, <1>9 DEF m

-----------------------------------------------------------------------------
NextStarts(f, s) == IF HasItem(f, Last(s)) THEN Append(s, Last(s) + 3 + f[Last(s) + 2]) ELSE s

(* The starts are found one by one. *)
LEMMA StartsSteps ==
    ASSUME NEW f, Len(f) \in Nat, NEW V, << 2 >> \in V, \A s \in V : NextStarts(f, s) \in V
    PROVE  \E g \in [0..Len(f) -> V] :
              /\ g[0] = << 2 >> /\ \A n \in 1..Len(f) : g[n] = NextStarts(f, g[n - 1])
              /\ Starts(f) = g[Len(f)]
  <1> DEFINE n == Len(f)
             Follower(s) == IF HasItem(f, Last(s)) THEN Append(s, Last(s) + 3 + f[Last(s) + 2]) ELSE s
             Steps(g) == g = [k \in 0..n |-> IF k = 0 THEN << 2 >> ELSE Follower(g[k - 1])]
             starts == CHOOSE g : Steps(g)
             step == [k \in 1..n |-> [s \in V |-> NextStarts(f, s)]]
  <1>1. n \in Nat
    OBVIOUS
  <1>2. Starts(f) = starts[n]
    BY DEF Starts
  <1>3. \A s : Follower(s) = NextStarts(f, s)
    BY DEF NextStarts
  <1> HIDE DEF Follower
  <1>4. \A g : Steps(g) => \A k \in 0..n : g[k] = IF k = 0 THEN << 2 >> ELSE Follower(g[k - 1])
    BY Zenon
  <1>5. ASSUME NEW g, g = [k \in 0..n |-> g[k]],
               \A k \in 0..n : g[k] = IF k = 0 THEN << 2 >> ELSE Follower(g[k - 1])
        PROVE  Steps(g)
    BY <1>5
  <1> HIDE DEF Steps, n
  <1>6. step \in [1..n -> [V -> V]]
    OBVIOUS
  <1>7. \A k \in 1..n, s \in V : step[k][s] = NextStarts(f, s)
    OBVIOUS
  <1> HIDE DEF step
  <1>8. PICK g \in [0..n -> V] : g[0] = << 2 >> /\ \A k \in 1..n : g[k] = step[k][g[k - 1]]
    <2>1. \E g \in [0..n -> V] : Follows(g, << 2 >>, step, n)
      BY <1>1, <1>6, StepByStep
    <2> QED BY <2>1, Zenon DEF Follows
  <1>9. \A k \in 1..n : g[k] = NextStarts(f, g[k - 1])
    <2> SUFFICES ASSUME NEW k \in 1..n PROVE g[k] = NextStarts(f, g[k - 1])
      OBVIOUS
    <2>1. k - 1 \in 0..n
      BY <1>1
    <2>2. g[k - 1] \in V
      BY <1>8, <2>1
    <2> QED BY <1>7, <1>8, <2>2
  <1>10. Steps(g)
    <2>1. \A k \in 0..n : g[k] = IF k = 0 THEN << 2 >> ELSE Follower(g[k - 1])
      <3> SUFFICES ASSUME NEW k \in 1..n PROVE g[k] = Follower(g[k - 1])
        BY <1>1, <1>8
      <3> QED BY <1>3, <1>9
    <2>2. g = [k \in 0..n |-> g[k]]
      BY <1>8
    <2> QED BY <1>5, <2>1, <2>2
  <1>11. Steps(starts)
    BY <1>10, Zenon
  <1> HIDE DEF starts
  <1>12. \A k \in 0..n : starts[k] = IF k = 0 THEN << 2 >> ELSE Follower(starts[k - 1])
    BY <1>4, <1>11
  <1> DEFINE S == {k \in 0..n : starts[k] = g[k]}
  <1>13. 0 \in S
    BY <1>1, <1>8, <1>12
  <1>14. ASSUME NEW k \in 1..n, k - 1 \in S PROVE k \in S
    <2>1. k \in 0..n /\ k # 0
      BY <1>1
    <2>2. starts[k] = Follower(starts[k - 1]) /\ starts[k - 1] = g[k - 1]
      BY <1>12, <1>14, <2>1
    <2> QED BY <1>3, <1>9, <2>1, <2>2
  <1> HIDE DEF S
  <1>15. n \in S
    <2>1. \A k \in 0..n : k \in S
      BY <1>1, <1>13, <1>14, EachStep
    <2> QED BY <1>1, <2>1
  <1>16. Starts(f) = g[n]
    BY <1>2, <1>15 DEF S
  <1> QED BY <1>8, <1>9, <1>16 DEF n

(* The file f is what there is of these cells, or all of them and one more.  *)
Begins(f, body) ==
    /\ f \in Seq(Nat) /\ Len(f) <= Len(body) + 1
    /\ \A i \in 1..Len(f) : i <= Len(body) => f[i] = body[i]

LEMMA HasItemAt ==
    ASSUME NEW body, NEW items, NEW places, Holds(body, items, places),
           NEW f, Begins(f, body), NEW k \in 1..Len(items) + 1
    PROVE  /\ HasItem(f, places[k]) <=> k <= Len(items) /\ places[k + 1] - 1 <= Len(f)
           /\ HasItem(f, places[k]) => places[k] + 3 + f[places[k] + 2] = places[k + 1]
  <1>1. /\ Len(items) \in Nat /\ Len(body) \in Nat /\ Len(f) \in Nat /\ k \in Nat
        /\ Len(f) <= Len(body) + 1 /\ places[k] \in k + 1..Len(body)
    <2>1. Len(items) \in Nat /\ Len(body) \in Nat /\ places[k] \in k + 1..Len(body)
      BY PlacesRise
    <2>2. f \in Seq(Nat) /\ Len(f) \in Nat /\ Len(f) <= Len(body) + 1
      BY LenProperties DEF Begins
    <2>3. k \in Nat
      BY <2>1
    <2> QED BY <2>1, <2>2, <2>3
  <1>2. CASE k = Len(items) + 1
    <2>1. places[k] = Len(body)
      BY <1>2 DEF Holds
    <2> QED BY <1>1, <1>2, <2>1 DEF HasItem
  <1>3. CASE k <= Len(items)
    <2>1. k \in 1..Len(items) /\ k + 1 \in 1..Len(items) + 1
      BY <1>1, <1>3
    <2>2. items[k] \in FileItem
      BY <2>1, ElementOfSeq DEF Holds
    <2> DEFINE o == places[k]
               d == Len(items[k].data)
    <2>3. d \in Nat /\ items[k].type \in Types
      BY <2>2, ItemIs DEF Types
    <2>4. /\ body[o] = items[k].type /\ body[o + 2] = d
          /\ places[k + 1] = o + (3 + d)
      BY <2>1 DEF Holds, ItemAt, ItemLength
    <2>5. places[k + 1] \in 0..Len(body) /\ o \in Nat /\ o >= 2
      BY <1>1, <2>1, PlacesRise
    <2> HIDE DEF d, o
    <2>6. o + 2 \in 1..Len(body) /\ o \in 1..Len(body)
      BY <1>1, <2>3, <2>4, <2>5
    <2>7. CASE o + 2 <= Len(f)
      <3>1. o \in 1..Len(f) /\ o + 2 \in 1..Len(f) /\ o <= Len(body) /\ o + 2 <= Len(body)
        BY <1>1, <2>5, <2>6, <2>7
      <3>2. f[o] = body[o] /\ f[o + 2] = body[o + 2]
        BY <3>1 DEF Begins
      <3>3. HasItem(f, o) <=> o + 2 + d <= Len(f)
        BY <2>3, <2>4, <2>7, <3>2 DEF HasItem
      <3>4. HasItem(f, o) <=> places[k + 1] - 1 <= Len(f)
        BY <1>1, <2>3, <2>4, <2>5, <3>3
      <3>5. o + 3 + f[o + 2] = places[k + 1]
        BY <2>3, <2>4, <2>5, <3>2
      <3> QED BY <1>3, <3>4, <3>5 DEF o
    <2>8. CASE ~ (o + 2 <= Len(f))
      <3>1. ~ HasItem(f, o)
        BY <2>8 DEF HasItem
      <3>2. ~ (places[k + 1] - 1 <= Len(f))
        BY <1>1, <2>3, <2>4, <2>5, <2>8
      <3> QED BY <3>1, <3>2 DEF o
    <2> QED BY <2>7, <2>8
  <1> QED BY <1>1, <1>2, <1>3

(* Where a search that has found the first k places goes on. *)
LEMMA NextPlace ==
    ASSUME NEW body, NEW items, NEW places, Holds(body, items, places),
           NEW f, Begins(f, body), NEW k \in 1..Len(items) + 1
    PROVE  NextStarts(f, Some(places, k)) =
              IF k <= Len(items) /\ places[k + 1] - 1 <= Len(f) THEN Some(places, k + 1)
              ELSE Some(places, k)
  <1>1. /\ places \in Seq(Nat) /\ Len(places) = Len(items) + 1 /\ Len(items) \in Nat
        /\ k \in 1..Len(places)
    BY LenProperties DEF Holds
  <1>2. Last(Some(places, k)) = places[k]
    BY <1>1, SomeAre DEF Last
  <1>3. CASE HasItem(f, places[k])
    <2>1. k <= Len(items) /\ places[k + 1] - 1 <= Len(f) /\ places[k] + 3 + f[places[k] + 2] = places[k + 1]
      BY <1>3, HasItemAt
    <2>2. k \in 1..Len(places) - 1
      BY <1>1, <2>1
    <2>3. Append(Some(places, k), places[k + 1]) = Some(places, k + 1)
      BY <1>1, <2>2, SomeMore
    <2> QED BY <1>2, <1>3, <2>1, <2>3 DEF NextStarts
  <1>4. CASE ~ HasItem(f, places[k])
    <2>1. ~ (k <= Len(items) /\ places[k + 1] - 1 <= Len(f))
      BY <1>4, HasItemAt
    <2> QED BY <1>2, <1>4, <2>1 DEF NextStarts
  <1> QED BY <1>3, <1>4

LEMMA PlacesBegin ==
    ASSUME NEW body, NEW items, NEW places, Holds(body, items, places)
    PROVE  Some(places, 1) = <<2>> /\ Some(places, Len(items) + 1) = places
  <1>1. places \in Seq(Nat) /\ Len(places) = Len(items) + 1 /\ Len(items) \in Nat /\ places[1] = 2
    BY LenProperties DEF Holds
  <1>2. /\ Some(places, 1) \in Seq(Nat) /\ Len(Some(places, 1)) = 1
        /\ \A i \in 1..1 : Some(places, 1)[i] = places[i]
    <2>1. 1 \in 1..Len(places)
      BY <1>1
    <2> QED BY <1>1, <2>1, SomeAre
  <1>3. <<2>> \in Seq(Nat) /\ Len(<<2>>) = 1 /\ <<2>>[1] = 2
    OBVIOUS
  <1>4. Some(places, 1) = <<2>>
    <2>1. \A i \in 1..Len(<<2>>) : <<2>>[i] = Some(places, 1)[i]
      BY <1>1, <1>2, <1>3
    <2>2. Len(<<2>>) = Len(Some(places, 1))
      BY <1>2, <1>3
    <2>3. <<2>> = Some(places, 1)
      BY <1>2, <1>3, <2>1, <2>2, SeqEqual
    <2> QED BY <2>3
  <1>5. Some(places, Len(items) + 1) = places
    BY <1>1, SubSeqFull DEF Some
  <1> QED BY <1>4, <1>5

LEMMA StartsFound ==
    ASSUME NEW body, NEW items, NEW places, Holds(body, items, places),
           NEW f, Begins(f, body)
    PROVE  \E g \in [0..Len(f) -> {Some(places, k) : k \in 1..Len(items) + 1}] :
              /\ g[0] = <<2>> /\ \A n \in 1..Len(f) : g[n] = NextStarts(f, g[n - 1])
              /\ Starts(f) = g[Len(f)]
  <1> DEFINE V == {Some(places, k) : k \in 1..Len(items) + 1}
  <1>1. Len(items) \in Nat /\ Len(f) \in Nat
    BY LenProperties DEF Holds, Begins
  <1>2. <<2>> \in V
    <2>1. 1 \in 1..Len(items) + 1
      BY <1>1
    <2> QED BY <2>1, PlacesBegin
  <1>3. ASSUME NEW s \in V PROVE NextStarts(f, s) \in V
    <2>1. PICK k \in 1..Len(items) + 1 : s = Some(places, k)
      OBVIOUS
    <2>2. \/ NextStarts(f, s) = Some(places, k + 1) /\ k + 1 \in 1..Len(items) + 1
          \/ NextStarts(f, s) = Some(places, k)
      <3>1. k <= Len(items) => k + 1 \in 1..Len(items) + 1
        BY <1>1
      <3> QED BY <2>1, <3>1, NextPlace
    <2> QED BY <2>2
  <1> HIDE DEF V
  <1>4. \E g \in [0..Len(f) -> V] :
              /\ g[0] = <<2>> /\ \A n \in 1..Len(f) : g[n] = NextStarts(f, g[n - 1])
              /\ Starts(f) = g[Len(f)]
    BY <1>1, <1>2, <1>3, StartsSteps
  <1> QED BY <1>4 DEF V

(* In a file that was cut off some of the items are found. *)
LEMMA StartsOfPart ==
    ASSUME NEW body, NEW items, NEW places, Holds(body, items, places),
           NEW f, Begins(f, body)
    PROVE  \E k \in 1..Len(items) + 1 : Starts(f) = Some(places, k)
  <1>1. PICK g \in [0..Len(f) -> {Some(places, k) : k \in 1..Len(items) + 1}] : Starts(f) = g[Len(f)]
    BY StartsFound
  <1>2. Len(f) \in 0..Len(f)
    BY LenProperties DEF Begins
  <1> QED BY <1>1, <1>2

(* In a whole file all of them are. *)
LEMMA StartsOfWhole ==
    ASSUME NEW body, NEW items, NEW places, Holds(body, items, places),
           NEW f, Begins(f, body), Len(f) = Len(body) + 1
    PROVE  Starts(f) = places
  <1> DEFINE m == Len(items) + 1
             At(n) == IF n + 1 <= m THEN n + 1 ELSE m
  <1>1. /\ m \in Nat \ {0} /\ Len(f) \in Nat /\ Len(body) \in Nat /\ Len(body) >= m + 1
        /\ \A k \in 1..m : places[k] \in 0..Len(body)
    <2>1. Len(items) \in Nat /\ Len(f) \in Nat /\ Len(body) \in Nat
      BY PlacesRise, LenProperties DEF Begins
    <2>2. \A n \in 1..m : places[n] \in n + 1..Len(body)
      BY PlacesRise
    <2> HIDE DEF m
    <2>3. m \in Nat \ {0} /\ m \in 1..m
      BY <2>1 DEF m
    <2>4. places[m] \in m + 1..Len(body)
      BY <2>2, <2>3
    <2> QED BY <2>1, <2>2, <2>3, <2>4
  <1>2. PICK g : /\ g[0] = <<2>> /\ \A n \in 1..Len(f) : g[n] = NextStarts(f, g[n - 1])
                 /\ Starts(f) = g[Len(f)]
    BY StartsFound
  <1>3. ASSUME NEW k \in 1..m
        PROVE  NextStarts(f, Some(places, k)) = Some(places, IF k + 1 <= m THEN k + 1 ELSE m)
    <2>1. NextStarts(f, Some(places, k)) =
              IF k <= Len(items) /\ places[k + 1] - 1 <= Len(f) THEN Some(places, k + 1)
              ELSE Some(places, k)
      BY NextPlace
    <2>2. CASE k + 1 <= m
      <3>1. k + 1 \in 1..m
        BY <1>1, <2>2
      <3>2. places[k + 1] \in 0..Len(body)
        BY <1>1, <3>1
      <3>3. k <= Len(items) /\ places[k + 1] - 1 <= Len(f)
        BY <1>1, <2>2, <3>2
      <3> QED BY <2>1, <2>2, <3>3
    <2>3. CASE ~ (k + 1 <= m)
      <3>1. k = m /\ ~ (k <= Len(items))
        BY <1>1, <2>3
      <3> QED BY <2>1, <2>3, <3>1
    <2> QED BY <2>2, <2>3
  <1>4. Some(places, 1) = <<2>> /\ Some(places, m) = places
    BY PlacesBegin
  <1> HIDE DEF m
  <1> DEFINE S == {n \in 0..Len(f) : g[n] = Some(places, At(n))}
  <1>5. 0 \in S
    <2>1. At(0) = 1 /\ 0 \in 0..Len(f)
      BY <1>1
    <2> QED BY <1>2, <1>4, <2>1
  <1>6. ASSUME NEW n \in 1..Len(f), n - 1 \in S PROVE n \in S
    <2>1. /\ n \in 0..Len(f) /\ At(n - 1) \in 1..m
          /\ (IF At(n - 1) + 1 <= m THEN At(n - 1) + 1 ELSE m) = At(n)
      BY <1>1
    <2>2. g[n] = NextStarts(f, g[n - 1]) /\ g[n - 1] = Some(places, At(n - 1))
      BY <1>2, <1>6
    <2> HIDE DEF At
    <2>3. g[n] = Some(places, At(n))
      BY <1>3, <2>1, <2>2
    <2> QED BY <2>1, <2>3
  <1> HIDE DEF S
  <1>7. Len(f) \in S
    <2>1. \A n \in 0..Len(f) : n \in S
      BY <1>1, <1>5, <1>6, EachStep
    <2> QED BY <1>1, <2>1
  <1>8. At(Len(f)) = m
    BY <1>1
  <1> HIDE DEF At
  <1> QED BY <1>2, <1>4, <1>7, <1>8 DEF S

LEMMA ChecksumIs ==
    ASSUME NEW cells \in Seq(Nat)
    PROVE  CRC16(cells) \in Nat
  <1> DEFINE n == Len(cells)
             Steps(g) == g = [k \in 0..n |-> IF k = 0 THEN 0 ELSE (7 * g[k - 1] + cells[k] + 1) % 257]
             crc == CHOOSE g : Steps(g)
             step == [k \in 1..n |-> [v \in Nat |-> (7 * v + cells[k] + 1) % 257]]
  <1>1. n \in Nat /\ \A k \in 1..n : cells[k] \in Nat
    BY LenProperties, ElementOfSeq
  <1>2. CRC16(cells) = crc[n]
    BY DEF CRC16
  <1>3. \A g : Steps(g) =>
              \A k \in 0..n : g[k] = IF k = 0 THEN 0 ELSE (7 * g[k - 1] + cells[k] + 1) % 257
    BY Zenon
  <1>4. ASSUME NEW g, g = [k \in 0..n |-> g[k]],
               \A k \in 0..n : g[k] = IF k = 0 THEN 0 ELSE (7 * g[k - 1] + cells[k] + 1) % 257
        PROVE  Steps(g)
    BY <1>4
  <1> HIDE DEF Steps, n
  <1>5. \A v \in Nat, k \in 1..n : (7 * v + cells[k] + 1) % 257 \in Nat
    <2>1. ASSUME NEW v \in Nat, NEW w \in Nat PROVE (7 * v + w + 1) % 257 \in Nat
      OBVIOUS
    <2> QED BY <1>1, <2>1
  <1>6. step \in [1..n -> [Nat -> Nat]]
    BY <1>5
  <1>7. \A k \in 1..n, v \in Nat : step[k][v] = (7 * v + cells[k] + 1) % 257
    OBVIOUS
  <1> HIDE DEF step
  <1>8. PICK g \in [0..n -> Nat] : g[0] = 0 /\ \A k \in 1..n : g[k] = step[k][g[k - 1]]
    <2>1. \E g \in [0..n -> Nat] : Follows(g, 0, step, n)
      BY <1>1, <1>6, StepByStep
    <2> QED BY <2>1, Zenon DEF Follows
  <1>9. Steps(g)
    <2>1. \A k \in 0..n : g[k] = IF k = 0 THEN 0 ELSE (7 * g[k - 1] + cells[k] + 1) % 257
      <3> SUFFICES ASSUME NEW k \in 1..n PROVE g[k] = (7 * g[k - 1] + cells[k] + 1) % 257
        BY <1>1, <1>8
      <3>1. k - 1 \in 0..n
        BY <1>1
      <3>2. g[k - 1] \in Nat
        BY <1>8, <3>1
      <3> QED BY <1>7, <1>8, <3>2
    <2>2. g = [k \in 0..n |-> g[k]]
      BY <1>8
    <2> QED BY <1>4, <2>1, <2>2
  <1>10. Steps(crc)
    BY <1>9, Zenon
  <1> HIDE DEF crc
  <1>11. \A k \in 0..n : crc[k] = IF k = 0 THEN 0 ELSE (7 * crc[k - 1] + cells[k] + 1) % 257
    BY <1>3, <1>10
  <1> DEFINE S == {k \in 0..n : crc[k] \in Nat}
  <1>12. 0 \in S
    <2>1. crc[0] = 0 /\ 0 \in 0..n
      BY <1>1, <1>11
    <2> QED BY <2>1
  <1>13. ASSUME NEW k \in 1..n, k - 1 \in S PROVE k \in S
    <2>1. k \in 0..n /\ k # 0
      BY <1>1
    <2> QED BY <1>5, <1>11, <1>13, <2>1
  <1> HIDE DEF S
  <1>14. n \in S
    <2>1. \A k \in 0..n : k \in S
      BY <1>1, <1>12, <1>13, EachStep
    <2> QED BY <1>1, <2>1
  <1> QED BY <1>2, <1>14 DEF S

LEMMA CheckedIs ==
    ASSUME NEW body \in Seq(Nat)
    PROVE  /\ Checked(body) \in Seq(Nat) /\ Len(Checked(body)) = Len(body) + 1
           /\ \A i \in 1..Len(body) : Checked(body)[i] = body[i]
           /\ Checked(body)[Len(body) + 1] = CRC16(body)
           /\ Begins(Checked(body), body)
  <1> DEFINE crc == CRC16(body)
  <1>1. crc \in Nat /\ Len(body) \in Nat
    BY ChecksumIs, LenProperties
  <1> HIDE DEF crc
  <1>2. /\ Append(body, crc) \in Seq(Nat) /\ Len(Append(body, crc)) = Len(body) + 1
        /\ \A i \in 1..Len(body) : Append(body, crc)[i] = body[i]
        /\ Append(body, crc)[Len(body) + 1] = crc
    BY <1>1, AppendProperties
  <1>3. Checked(body) = Append(body, crc)
    BY DEF Checked, crc
  <1>4. Begins(Append(body, crc), body)
    BY <1>1, <1>2 DEF Begins
  <1> QED BY <1>2, <1>3, <1>4 DEF crc

(* What was written is read again. *)
LEMMA ItemRead ==
    ASSUME NEW f \in Seq(Nat), NEW item \in FileItem, NEW o \in Nat, ItemAt(f, o, item),
           o + 2 + Len(item.data) <= Len(f)
    PROVE  ItemOf(f, o) = item
  <1> DEFINE d == Len(item.data)
  <1>1. /\ d \in Nat /\ Len(f) \in Nat
        /\ f[o] = item.type /\ f[o + 1] = item.id /\ f[o + 2] = d
        /\ \A i \in 1..d : f[o + 2 + i] = item.data[i]
        /\ item.data \in Seq(Nat) /\ item = [id |-> item.id, type |-> item.type, data |-> item.data]
    BY ItemIs, LenProperties DEF ItemAt
  <1> DEFINE q == SubSeq(f, o + 3, o + 2 + d)
  <1>2. q = item.data
    <2>1. d \in Nat /\ Len(f) \in Nat /\ o + 2 + d <= Len(f)
      BY <1>1
    <2> HIDE DEF d
    <2>2. /\ o + 2 \in 0..Len(f) /\ o + 2 + d \in 0..Len(f) /\ o + 2 <= o + 2 + d
          /\ o + 2 + 1 = o + 3 /\ (o + 2 + d) - (o + 2) = d
      BY <2>1
    <2>3. /\ SubSeq(f, o + 2 + 1, o + 2 + d) \in Seq(Nat)
          /\ Len(SubSeq(f, o + 2 + 1, o + 2 + d)) = (o + 2 + d) - (o + 2)
          /\ \A i \in 1..(o + 2 + d) - (o + 2) : SubSeq(f, o + 2 + 1, o + 2 + d)[i] = f[o + 2 + i]
      BY <2>2, PieceIs
    <2>4. q \in Seq(Nat) /\ Len(q) = d /\ \A i \in 1..d : q[i] = f[o + 2 + i]
      BY <2>2, <2>3
    <2> HIDE DEF q
    <2>5. Len(q) = Len(item.data) /\ \A i \in 1..Len(q) : q[i] = item.data[i]
      BY <1>1, <2>4 DEF d
    <2> QED BY <1>1, <2>4, <2>5, SeqEqual
  <1>3. ItemOf(f, o) = [id |-> f[o + 1], type |-> f[o], data |-> q]
    BY <1>1 DEF ItemOf
  <1> QED BY <1>1, <1>2, <1>3

LEMMA ReadBack ==
    ASSUME NEW body, NEW items, NEW places, Holds(body, items, places)
    PROVE  /\ IsRead(Checked(body)) /\ Starts(Checked(body)) = places
           /\ ItemsOf(Checked(body)) = items
           /\ Len(ItemStarts(Checked(body))) = Len(items)
           /\ Len(body) = Last(places)
  <1> DEFINE f == Checked(body)
             m == Len(items)
  <1>1. body \in Seq(Nat) /\ items \in Seq(FileItem) /\ places \in Seq(Nat) /\ Len(places) = m + 1
    BY DEF Holds
  <1>2. /\ f \in Seq(Nat) /\ Len(f) = Len(body) + 1
        /\ \A i \in 1..Len(body) : f[i] = body[i]
        /\ f[Len(body) + 1] = CRC16(body)
        /\ Begins(f, body)
    BY <1>1, CheckedIs
  <1> HIDE DEF f, m
  <1>3. Starts(f) = places
    BY <1>2, StartsOfWhole
  <1>4. m \in Nat /\ Len(body) \in Nat
    BY <1>1, LenProperties DEF m
  <1>5. Last(places) = Len(body) /\ body[Len(body)] = Empty /\ Len(body) \in 1..Len(body)
    <2>1. Last(places) = Len(body) /\ body[Len(body)] = Empty
      BY DEF Holds, Last
    <2>2. places[m + 1] \in m + 1 + 1..Len(body)
      <3>1. m + 1 \in 1..Len(items) + 1
        BY <1>4 DEF m
      <3> QED BY <3>1, PlacesRise
    <2> QED BY <1>4, <2>1, <2>2
  <1>6. SubSeq(f, 1, Len(body)) = body
    <2>1. 0 \in 0..Len(f) /\ Len(body) \in 0..Len(f) /\ 0 <= Len(body) /\ 0 + 1 = 1 /\ Len(body) - 0 = Len(body)
      BY <1>2, <1>4
    <2>2. /\ SubSeq(f, 0 + 1, Len(body)) \in Seq(Nat) /\ Len(SubSeq(f, 0 + 1, Len(body))) = Len(body) - 0
          /\ \A i \in 1..Len(body) - 0 : SubSeq(f, 0 + 1, Len(body))[i] = f[0 + i]
      BY <1>2, <2>1, PieceIs
    <2>3. \A i \in 1..Len(body) : f[0 + i] = body[i]
      <3>1. \A i \in 1..Len(body) : 0 + i = i
        OBVIOUS
      <3> QED BY <1>2, <3>1
    <2> DEFINE q == SubSeq(f, 1, Len(body))
    <2>4. q \in Seq(Nat) /\ Len(q) = Len(body) /\ \A i \in 1..Len(q) : q[i] = body[i]
      BY <2>1, <2>2, <2>3
    <2> HIDE DEF q
    <2>5. q = body
      BY <1>1, <2>4, SeqEqual
    <2> QED BY <2>5 DEF q
  <1>7. IsRead(f)
    <2>1. Last(Starts(f)) = Len(body) /\ Len(body) < Len(f) /\ f[Len(body)] = Empty
      BY <1>2, <1>3, <1>4, <1>5
    <2> QED BY <1>2, <1>6, <2>1 DEF IsRead
  <1> DEFINE front == ItemStarts(f)
  <1>8. Len(front) = m /\ \A n \in 1..m : front[n] = places[n]
    <2>1. front = SubSeq(places, 1, Len(places) - 1)
      BY <1>3 DEF ItemStarts, Front
    <2>2. 0 \in 0..Len(places) /\ m \in 0..Len(places) /\ 0 <= m /\ 0 + 1 = 1 /\ m - 0 = m /\ Len(places) - 1 = m
      BY <1>1, <1>4
    <2>3. /\ Len(SubSeq(places, 0 + 1, m)) = m - 0
          /\ \A i \in 1..m - 0 : SubSeq(places, 0 + 1, m)[i] = places[0 + i]
      BY <1>1, <2>2, PieceIs
    <2>4. \A i \in 1..m : 0 + i = i
      OBVIOUS
    <2> QED BY <2>1, <2>2, <2>3, <2>4
  <1> HIDE DEF front
  <1>9. ASSUME NEW n \in 1..m PROVE ItemOf(f, front[n]) = items[n]
    <2>1. /\ n \in 1..Len(items) /\ n + 1 \in 1..Len(items) + 1 /\ n \in 1..Len(items) + 1
          /\ items[n] \in FileItem
      BY <1>1, <1>4, ElementOfSeq DEF m
    <2>2. ItemAt(body, places[n], items[n]) /\ places[n + 1] = places[n] + ItemLength(items[n])
      BY <2>1 DEF Holds
    <2>3. places[n] \in Nat /\ places[n] >= 1 /\ places[n + 1] \in Nat /\ places[n + 1] <= Len(body)
      BY <1>4, <2>1, PlacesRise
    <2> DEFINE o == places[n]
               d == Len(items[n].data)
    <2>4. d \in Nat /\ o + 2 + d <= Len(body) /\ o \in Nat /\ o >= 1
      BY <1>4, <2>1, <2>2, <2>3, ItemIs DEF ItemLength
    <2>5. /\ body[o] = items[n].type /\ body[o + 1] = items[n].id /\ body[o + 2] = d
          /\ \A i \in 1..d : body[o + 2 + i] = items[n].data[i]
      BY <2>2 DEF ItemAt
    <2> HIDE DEF o, d
    <2>6. /\ o \in 1..Len(body) /\ o + 1 \in 1..Len(body) /\ o + 2 \in 1..Len(body)
          /\ \A i \in 1..d : o + 2 + i \in 1..Len(body)
      BY <1>4, <2>4
    <2>7. ItemAt(f, o, items[n])
      BY <1>2, <2>5, <2>6 DEF ItemAt, d
    <2>8. o + 2 + d <= Len(f)
      BY <1>2, <1>4, <2>4
    <2>9. ItemOf(f, o) = items[n]
      BY <1>2, <2>1, <2>4, <2>7, <2>8, ItemRead DEF d
    <2> QED BY <1>8, <2>9 DEF o
  <1>10. ItemsOf(f) = items
    <2>1. ItemsOf(f) = [n \in 1..m |-> ItemOf(f, front[n])]
      BY <1>8 DEF ItemsOf, front
    <2>2. items = [n \in 1..m |-> items[n]]
      BY <1>1, LenProperties DEF m
    <2> QED BY <1>9, <2>1, <2>2
  <1> QED BY <1>3, <1>5, <1>7, <1>8, <1>10 DEF f, m, front

(* A file that lost its end is not read. *)
LEMMA PartRefused ==
    ASSUME NEW body, NEW items, NEW places, Holds(body, items, places),
           NEW f, Begins(f, body), Len(f) <= Len(body)
    PROVE  ~ IsRead(f)
  <1>1. PICK k \in 1..Len(items) + 1 : Starts(f) = Some(places, k)
    BY StartsOfPart
  <1>2. /\ places \in Seq(Nat) /\ Len(places) = Len(items) + 1 /\ Len(items) \in Nat
        /\ Len(f) \in Nat /\ Len(body) \in Nat /\ places[k] \in k + 1..Len(body)
    BY PlacesRise, LenProperties DEF Holds, Begins
  <1>3. Last(Starts(f)) = places[k]
    BY <1>1, <1>2, SomeAre DEF Last
  <1>4. CASE k = Len(items) + 1
    <2>1. places[k] = Len(body)
      BY <1>2, <1>4 DEF Holds
    <2> QED BY <1>2, <1>3, <2>1 DEF IsRead
  <1>5. CASE k # Len(items) + 1
    <2>1. k \in 1..Len(items)
      BY <1>2, <1>5
    <2>2. items[k] \in FileItem
      BY <2>1, ElementOfSeq DEF Holds
    <2>3. body[places[k]] = 1
      BY <2>1, <2>2, ItemIs DEF Holds, ItemAt
    <2>4. ASSUME places[k] < Len(f) PROVE f[places[k]] = 1
      <3>1. places[k] \in 1..Len(f) /\ places[k] <= Len(body)
        BY <1>2, <2>4
      <3> QED BY <2>3, <3>1 DEF Begins
    <2> QED BY <1>3, <2>4 DEF IsRead, Empty
  <1> QED BY <1>4, <1>5

-----------------------------------------------------------------------------
(* Before the n-th item r are taken out and c are put in: at most one each.  *)
Spliced(old, new, n, r, c, item) ==
    /\ new \in Seq(FileItem) /\ Len(new) = Len(old) + c - r
    /\ \A k \in 1..Len(new) :
          new[k] = IF k < n THEN old[k] ELSE IF k < n + c THEN item ELSE old[k + r - c]

(* The cells up to a stay, d come, and those behind e follow. *)
CellsSpliced(old, new, a, d, e) ==
    /\ new \in Seq(Nat) /\ Len(new) = a + d + (Len(old) - e)
    /\ \A i \in 1..a : new[i] = old[i]
    /\ \A i \in e + 1..Len(old) : new[i + (a + d - e)] = old[i]

(* An edit of a file, by what it does to the items.                          *)
Edits(body, items, places, n, r, c, item, new) ==
    /\ Holds(body, items, places)
    /\ n \in 1..Len(items) + 1 /\ r \in 0..1 /\ c \in 0..1 /\ n + r <= Len(items) + 1
    /\ item \in FileItem /\ Spliced(items, new, n, r, c, item)

LEMMA ItemMoved ==
    ASSUME NEW f, NEW g, NEW o \in Int, NEW s \in Int, NEW item \in FileItem, ItemAt(f, o, item),
           \A i \in o..o + 2 + Len(item.data) : g[i + s] = f[i]
    PROVE  ItemAt(g, o + s, item)
  <1> DEFINE d == Len(item.data)
  <1>1. d \in Nat
    BY ItemIs
  <1>2. /\ f[o] = item.type /\ f[o + 1] = item.id /\ f[o + 2] = d
        /\ \A i \in 1..d : f[o + 2 + i] = item.data[i]
    BY DEF ItemAt
  <1>3. \A i \in o..o + 2 + d : g[i + s] = f[i]
    OBVIOUS
  <1> HIDE DEF d
  <1>4. /\ o \in o..o + 2 + d /\ o + 1 \in o..o + 2 + d /\ o + 2 \in o..o + 2 + d
        /\ \A i \in 1..d : o + 2 + i \in o..o + 2 + d
    BY <1>1
  <1>5. /\ o + s + 1 = o + 1 + s /\ o + s + 2 = o + 2 + s
        /\ \A i \in 1..d : o + s + 2 + i = o + 2 + i + s
    BY <1>1
  <1>6. /\ g[o + s] = item.type /\ g[o + s + 1] = item.id /\ g[o + s + 2] = d
    BY <1>2, <1>3, <1>4, <1>5
  <1>7. ASSUME NEW i \in 1..d PROVE g[o + s + 2 + i] = item.data[i]
    <2>1. g[o + 2 + i + s] = f[o + 2 + i]
      BY <1>3, <1>4
    <2> QED BY <1>2, <1>5, <2>1
  <1> QED BY <1>6, <1>7 DEF ItemAt, d

(* When the cells change that way so do the items. *)
LEMMA SplicedHolds ==
    ASSUME NEW body, NEW items, NEW places, NEW n, NEW r, NEW c, NEW item, NEW new, NEW cells, NEW d,
           Edits(body, items, places, n, r, c, item, new),
           d = IF c = 1 THEN ItemLength(item) ELSE 0,
           CellsSpliced(body, cells, places[n] - 1, d, places[n + r] - 1),
           c = 1 => ItemAt(cells, places[n], item)
    PROVE  \E newplaces : Holds(cells, new, newplaces)
  <1> USE DEF Edits
  <1> DEFINE m == Len(items)
             L == Len(body)
             s == places[n] + d - places[n + r]
             size == m + c - r
             newplaces == [k \in 1..size + 1 |-> IF k < n + c THEN places[k] ELSE places[k + r - c] + s]
  <1>1. /\ m \in Nat /\ L \in Nat
        /\ \A k \in 1..m + 1 : places[k] \in k + 1..L
        /\ \A k \in 1..m + 1 : \A j \in 1..k : places[j] <= places[k]
    BY PlacesRise
  <1>2. d \in Nat
    <2>1. ItemLength(item) \in Nat
      BY ItemIs DEF ItemLength
    <2> QED BY <2>1
  <1>3. /\ \A k \in 1..m : ItemAt(body, places[k], items[k]) /\ places[k + 1] = places[k] + ItemLength(items[k])
        /\ places[1] = 2 /\ places[m + 1] = L /\ body[L] = Empty
        /\ items \in Seq(FileItem)
    BY DEF Holds
  <1>4. \A k \in 1..m : items[k] \in FileItem /\ ItemLength(items[k]) = 3 + Len(items[k].data)
                        /\ Len(items[k].data) \in Nat
    BY <1>3, ElementOfSeq, ItemIs DEF ItemLength
  <1>5. /\ new \in Seq(FileItem) /\ Len(new) = size
        /\ \A k \in 1..size : new[k] = IF k < n THEN items[k] ELSE IF k < n + c THEN item ELSE items[k + r - c]
    BY DEF Spliced
  <1> HIDE DEF m, L
  <1>6. /\ n \in 1..m + 1 /\ n + r \in 1..m + 1 /\ size \in Nat /\ size + 1 >= n + c
        /\ n \in Nat /\ r \in 0..1 /\ c \in 0..1 /\ c = 0 => d = 0
    BY <1>1 DEF m
  <1>7. places[n] \in 2..L /\ places[n + r] \in 2..L /\ s \in Int
    <2>1. places[n] \in n + 1..L /\ places[n + r] \in n + r + 1..L
      BY <1>1, <1>6
    <2>2. L \in Nat /\ n + 1 >= 2 /\ n + r + 1 >= 2 /\ n + 1 \in Nat /\ n + r + 1 \in Nat
      BY <1>1, <1>6
    <2>3. places[n] \in 2..L /\ places[n + r] \in 2..L
      BY <2>1, <2>2
    <2> HIDE DEF s
    <2>4. \A i, j \in 2..L : i + d - j \in Int
      BY <1>2, <2>2
    <2> QED BY <2>3, <2>4 DEF s
  <1>8. /\ cells \in Seq(Nat) /\ Len(cells) = L + s
        /\ \A i \in 1..places[n] - 1 : cells[i] = body[i]
        /\ \A i \in places[n + r]..L : cells[i + s] = body[i]
    <2>1. /\ cells \in Seq(Nat) /\ Len(cells) = places[n] - 1 + d + (L - (places[n + r] - 1))
          /\ \A i \in 1..places[n] - 1 : cells[i] = body[i]
          /\ \A i \in places[n + r] - 1 + 1..L : cells[i + (places[n] - 1 + d - (places[n + r] - 1))] = body[i]
      BY DEF CellsSpliced, L
    <2>2. /\ places[n] - 1 + d + (L - (places[n + r] - 1)) = L + s
          /\ places[n] - 1 + d - (places[n + r] - 1) = s
          /\ places[n + r] - 1 + 1 = places[n + r]
      <3>1. L \in Nat
        BY <1>1
      <3>2. \A i, j \in 2..L : /\ i - 1 + d + (L - (j - 1)) = L + (i + d - j)
                               /\ i - 1 + d - (j - 1) = i + d - j
                               /\ j - 1 + 1 = j
        BY <1>2, <3>1
      <3>3. places[n] \in 2..L /\ places[n + r] \in 2..L
        BY <1>7
      <3> QED BY <3>2, <3>3 DEF s
    <2> QED BY <2>1, <2>2
  <1>9. places[n + r] + s = places[n] + d
    <2>1. \A i, j \in 2..L : j + (i + d - j) = i + d
      BY <1>1, <1>2
    <2>2. places[n] \in 2..L /\ places[n + r] \in 2..L
      BY <1>7
    <2> QED BY <2>1, <2>2, Zenon DEF s
  <1>10. \A k \in 1..size + 1 : newplaces[k] = IF k < n + c THEN places[k] ELSE places[k + r - c] + s
    OBVIOUS
  <1>11. newplaces \in Seq(Nat) /\ Len(newplaces) = size + 1
    <2>1. ASSUME NEW k \in 1..size + 1
          PROVE  (IF k < n + c THEN places[k] ELSE places[k + r - c] + s) \in Nat
      <3>1. CASE k < n + c
        <4>1. k \in 1..m + 1
          BY <1>1, <1>6, <3>1
        <4> QED BY <1>1, <3>1, <4>1
      <3>2. CASE ~ (k < n + c)
        <4>1. k + r - c \in 1..m + 1 /\ n + r \in 1..k + r - c
          BY <1>1, <1>6, <3>2
        <4>2. places[n + r] <= places[k + r - c] /\ places[k + r - c] \in Nat
          BY <1>1, <4>1
        <4>3. L \in Nat
          BY <1>1
        <4> HIDE DEF s
        <4>6. s \in Int /\ places[n + r] \in Nat /\ places[n] \in Nat
          BY <1>7, <4>3
        <4>7. \A i, j \in Nat : i <= j => j + s >= i + s
          BY <4>6
        <4>8. places[k + r - c] + s >= places[n] + d /\ places[n] + d \in Nat
          <5>1. places[k + r - c] + s >= places[n + r] + s
            BY <4>2, <4>6, <4>7
          <5> QED BY <1>2, <1>9, <4>6, <5>1
        <4>5. places[k + r - c] + s \in Nat
          BY <4>2, <4>6, <4>8
        <4> QED BY <3>2, <4>5
      <3> QED BY <3>1, <3>2
    <2>2. newplaces \in [1..size + 1 -> Nat]
      BY <2>1
    <2> HIDE DEF newplaces
    <2> QED BY <1>6, <2>2, SequenceOf
  <1> HIDE DEF newplaces
  <1>12. newplaces[n] = places[n] /\ newplaces[n + c] = places[n] + d
    <2>1. n \in 1..size + 1 /\ n + c \in 1..size + 1 /\ ~ (n + c < n + c) /\ n + c + r - c = n + r
      BY <1>6
    <2>2. newplaces[n + c] = places[n] + d
      BY <1>9, <1>10, <2>1
    <2>3. CASE c = 0
      <3>1. n + c = n /\ places[n] + d = places[n]
        BY <1>6, <1>7, <2>3
      <3> QED BY <2>2, <3>1
    <2>4. CASE c = 1
      <3>1. n < n + c
        BY <1>6, <2>4
      <3> QED BY <1>10, <2>1, <2>2, <3>1
    <2> QED BY <1>6, <2>3, <2>4
  <1>13. \A k \in 1..n : newplaces[k] = places[k]
    <2> SUFFICES ASSUME NEW k \in 1..n PROVE newplaces[k] = places[k]
      OBVIOUS
    <2>1. CASE k = n
      BY <1>12, <2>1
    <2>2. CASE k # n
      <3>1. k \in 1..size + 1 /\ k < n + c
        BY <1>6, <2>2
      <3> QED BY <1>10, <3>1
    <2> QED BY <2>1, <2>2
  <1>14. newplaces[1] = 2
    <2>1. 1 \in 1..n
      BY <1>6
    <2> QED BY <1>3, <1>13, <2>1
  <1>15. ASSUME NEW k \in 1..size
         PROVE  ItemAt(cells, newplaces[k], new[k]) /\ newplaces[k + 1] = newplaces[k] + ItemLength(new[k])
    <2>1. CASE k < n
      <3>1. k \in 1..m /\ k \in 1..n /\ k + 1 \in 1..n /\ k \in 1..m + 1
        BY <1>1, <1>6, <2>1
      <3>2. new[k] = items[k] /\ newplaces[k] = places[k] /\ newplaces[k + 1] = places[k + 1]
        BY <1>5, <1>13, <2>1, <3>1
      <3> DEFINE o == places[k]
                 x == items[k]
                 l == Len(items[k].data)
      <3>3. ItemAt(body, o, x) /\ x \in FileItem /\ l \in Nat /\ places[k + 1] = o + ItemLength(x) /\ ItemLength(x) = 3 + l
        BY <1>3, <1>4, <3>1
      <3>4. o \in Nat /\ o >= 1 /\ places[k + 1] <= places[n] /\ places[k + 1] \in Nat
        <4>1. k + 1 \in 1..m + 1
          BY <1>1, <3>1
        <4>2. places[k + 1] <= places[n]
          BY <1>1, <1>6, <3>1
        <4>3. o \in k + 1..L /\ places[k + 1] \in k + 1 + 1..L
          BY <1>1, <3>1, <4>1
        <4> HIDE DEF o
        <4> QED BY <1>1, <3>1, <4>2, <4>3
      <3> HIDE DEF o, l
      <3>5. ASSUME NEW i \in o..o + 2 + l PROVE cells[i + 0] = body[i]
        <4>1. i \in 1..places[n] - 1 /\ i + 0 = i
          BY <1>7, <3>3, <3>4
        <4> QED BY <1>8, <4>1
      <3>6. \A i \in o..o + 2 + Len(x.data) : cells[i + 0] = body[i]
        BY <3>5 DEF l
      <3>7. 0 \in Int /\ o \in Int /\ o + 0 = o
        BY <3>4
      <3> HIDE DEF x
      <3>8. ItemAt(cells, o + 0, x)
        BY <3>3, <3>6, <3>7, ItemMoved
      <3>9. ItemAt(cells, o, x) /\ places[k + 1] = o + ItemLength(x)
        BY <3>3, <3>7, <3>8
      <3> QED BY <3>2, <3>9 DEF o, x
    <2>2. CASE ~ (k < n) /\ k < n + c
      <3>1. k = n /\ c = 1 /\ n + c = n + 1
        BY <1>6, <2>2
      <3>2. new[k] = item /\ d = ItemLength(item) /\ k \in 1..n
        BY <1>5, <1>6, <2>2, <3>1
      <3>3. newplaces[n + 1] = places[n] + d /\ newplaces[n] = places[n]
        BY <1>12, <3>1
      <3>4. ItemAt(cells, places[n], item)
        BY <3>1
      <3> QED BY <3>1, <3>2, <3>3, <3>4
    <2>3. CASE ~ (k < n + c)
      <3> DEFINE j == k + r - c
      <3>1. /\ j \in 1..m /\ j \in 1..m + 1 /\ j + 1 \in 1..m + 1 /\ n + r \in 1..j /\ k + 1 + r - c = j + 1
            /\ ~ (k < n) /\ k \in 1..size + 1 /\ k + 1 \in 1..size + 1 /\ ~ (k + 1 < n + c)
        BY <1>1, <1>6, <2>3
      <3>2. new[k] = items[j] /\ newplaces[k] = places[j] + s
        BY <1>5, <1>10, <2>3, <3>1
      <3>3. newplaces[k + 1] = places[j + 1] + s
        <4>1. newplaces[k + 1] = places[k + 1 + r - c] + s
          BY <1>10, <3>1
        <4> QED BY <3>1, <4>1
      <3> HIDE DEF j
      <3> DEFINE o == places[j]
                 x == items[j]
                 l == Len(items[j].data)
      <3>4. ItemAt(body, o, x) /\ x \in FileItem /\ l \in Nat /\ places[j + 1] = o + ItemLength(x) /\ ItemLength(x) = 3 + l
        BY <1>3, <1>4, <3>1
      <3>5. o \in Nat /\ o >= places[n + r] /\ places[j + 1] \in Nat /\ places[j + 1] <= L
        BY <1>1, <3>1
      <3> HIDE DEF o, l
      <3>6. ASSUME NEW i \in o..o + 2 + l PROVE cells[i + s] = body[i]
        <4>1. i \in places[n + r]..L
          BY <1>1, <1>7, <3>4, <3>5
        <4> QED BY <1>8, <4>1
      <3>7. \A i \in o..o + 2 + Len(x.data) : cells[i + s] = body[i]
        BY <3>6 DEF l
      <3>8. o \in Int /\ s \in Int /\ ItemLength(x) \in Nat
        BY <1>7, <3>4, <3>5
      <3> HIDE DEF x, s
      <3>9. ItemAt(cells, o + s, x)
        BY <3>4, <3>7, <3>8, ItemMoved
      <3>10. places[j + 1] + s = o + s + ItemLength(x)
        BY <3>4, <3>8
      <3> QED BY <3>2, <3>3, <3>9, <3>10 DEF o, x
    <2> QED BY <2>1, <2>2, <2>3
  <1>16. newplaces[size + 1] = L + s
    <2>1. size + 1 \in 1..size + 1 /\ ~ (size + 1 < n + c) /\ size + 1 + r - c = m + 1
      BY <1>1, <1>6
    <2>2. newplaces[size + 1] = places[size + 1 + r - c] + s
      BY <1>10, <2>1
    <2> QED BY <1>3, <2>1, <2>2
  <1>17. cells[L + s] = Empty
    <2>1. L \in places[n + r]..L
      BY <1>1, <1>7
    <2> QED BY <1>3, <1>8, <2>1
  <1> HIDE DEF s, size
  <1>18. Holds(cells, new, newplaces)
    BY <1>5, <1>8, <1>11, <1>14, <1>15, <1>16, <1>17 DEF Holds
  <1> QED BY <1>18

LEMMA CellsAre ==
    ASSUME NEW id \in Nat, NEW item, item.type = 1, item.data \in Seq(Nat)
    PROVE  /\ Cells(id, item) \in Seq(Nat) /\ Len(Cells(id, item)) = 3 + Len(item.data)
           /\ Cells(id, item)[1] = item.type /\ Cells(id, item)[2] = id
           /\ Cells(id, item)[3] = Len(item.data)
           /\ \A i \in 1..Len(item.data) : Cells(id, item)[3 + i] = item.data[i]
  <1> DEFINE d == Len(item.data)
             data == item.data
  <1>1. d \in Nat /\ data \in Seq(Nat)
    BY LenProperties
  <1> DEFINE head == <<1, id, d>>
  <1> HIDE DEF d, data
  <1>2. head \in Seq(Nat) /\ Len(head) = 3 /\ head[1] = 1 /\ head[2] = id /\ head[3] = d
    BY <1>1
  <1> HIDE DEF head
  <1>3. head \o data \in Seq(Nat) /\ Joins(head \o data, head, data)
    BY <1>1, <1>2, ConcatIs
  <1>4. Cells(id, item) = head \o data
    BY DEF Cells, head, d, data
  <1>5. Len(data) = d
    BY DEF d, data
  <1>6. 1 \in 1..Len(head) /\ 2 \in 1..Len(head) /\ 3 \in 1..Len(head)
    BY <1>2
  <1>7. /\ Cells(id, item) \in Seq(Nat) /\ Len(Cells(id, item)) = 3 + d
        /\ Cells(id, item)[1] = 1 /\ Cells(id, item)[2] = id
        /\ Cells(id, item)[3] = d
        /\ \A i \in 1..d : Cells(id, item)[3 + i] = data[i]
    BY <1>2, <1>3, <1>4, <1>5, <1>6 DEF Joins
  <1> QED BY <1>7 DEF d, data

(* The first cells of a file up to a, the cells q, and the rest of the       *)
(* file's cells from behind e on.                                            *)
Pieces(body, f, a, e, q, rest, cells) ==
    /\ cells = SubSeq(f, 1, a) \o q \o rest
    /\ body \in Seq(Nat) /\ f \in Seq(Nat) /\ Len(body) <= Len(f)
    /\ \A i \in 1..Len(body) : f[i] = body[i]
    /\ a \in 0..Len(body) /\ e \in 0..Len(body) /\ q \in Seq(Nat) /\ rest \in Seq(Nat)
    /\ Len(rest) = Len(body) - e /\ \A i \in 1..Len(body) - e : rest[i] = body[e + i]

LEMMA PutTogether ==
    ASSUME NEW body, NEW f, NEW a, NEW e, NEW q, NEW rest, NEW cells,
           Pieces(body, f, a, e, q, rest, cells)
    PROVE  /\ CellsSpliced(body, cells, a, Len(q), e)
           /\ \A i \in 1..Len(q) : cells[a + i] = q[i]
  <1> DEFINE L == Len(body)
             d == Len(q)
             p == SubSeq(f, 1, a)
             s == a + d - e
  <1>1. L \in Nat /\ d \in Nat /\ Len(f) \in Nat /\ a \in 0..L /\ e \in 0..L /\ L <= Len(f)
    BY LenProperties DEF Pieces
  <1>2. /\ \A i \in 1..L : f[i] = body[i]
        /\ rest \in Seq(Nat) /\ Len(rest) = L - e /\ \A i \in 1..L - e : rest[i] = body[e + i]
        /\ q \in Seq(Nat) /\ Len(q) = d /\ f \in Seq(Nat)
    BY DEF Pieces
  <1> HIDE DEF L, d
  <1>3. p \in Seq(Nat) /\ Len(p) = a /\ \A i \in 1..a : p[i] = body[i]
    <2>1. 0 \in 0..Len(f) /\ a \in 0..Len(f) /\ 0 <= a /\ 0 + 1 = 1 /\ a - 0 = a
      BY <1>1
    <2>2. /\ SubSeq(f, 0 + 1, a) \in Seq(Nat) /\ Len(SubSeq(f, 0 + 1, a)) = a - 0
          /\ \A i \in 1..a - 0 : SubSeq(f, 0 + 1, a)[i] = f[0 + i]
      BY <1>2, <2>1, PieceIs
    <2>3. \A i \in 1..a : i \in 1..L /\ 0 + i = i
      BY <1>1
    <2> QED BY <1>2, <2>1, <2>2, <2>3
  <1> HIDE DEF p
  <1>4. p \o q \in Seq(Nat) /\ Joins(p \o q, p, q)
    BY <1>2, <1>3, ConcatIs
  <1>5. /\ Len(p \o q) = a + d /\ \A i \in 1..a : (p \o q)[i] = body[i]
        /\ \A i \in 1..d : (p \o q)[a + i] = q[i]
    BY <1>2, <1>3, <1>4 DEF Joins
  <1> DEFINE new == p \o q \o rest
  <1>6. new \in Seq(Nat) /\ Joins(new, p \o q, rest)
    BY <1>2, <1>4, ConcatIs
  <1> DEFINE pq == p \o q
  <1> HIDE DEF new, pq
  <1>7. /\ new \in Seq(Nat) /\ Len(new) = a + d + (L - e)
        /\ \A i \in 1..a + d : new[i] = pq[i]
        /\ \A i \in 1..L - e : new[a + d + i] = rest[i]
    BY <1>2, <1>5, <1>6 DEF Joins, pq
  <1>8. \A i \in 1..a : new[i] = body[i]
    <2>1. \A i \in 1..a : i \in 1..a + d
      BY <1>1
    <2> QED BY <1>5, <1>7, <2>1 DEF pq
  <1>9. \A i \in 1..d : new[a + i] = q[i]
    <2>1. \A i \in 1..d : a + i \in 1..a + d
      BY <1>1
    <2> QED BY <1>5, <1>7, <2>1 DEF pq
  <1>10. ASSUME NEW i \in e + 1..L PROVE new[i + s] = body[i]
    <2>1. i - e \in 1..L - e /\ a + d + (i - e) = i + s /\ e + (i - e) = i
      BY <1>1
    <2>2. new[a + d + (i - e)] = rest[i - e] /\ rest[i - e] = body[e + (i - e)]
      BY <1>2, <1>7, <2>1
    <2> QED BY <2>1, <2>2
  <1>11. CellsSpliced(body, new, a, d, e)
    BY <1>7, <1>8, <1>10 DEF CellsSpliced, L
  <1>12. cells = new
    BY DEF Pieces, new, p
  <1> HIDE DEF new
  <1> QED BY <1>9, <1>11, <1>12 DEF d

LEMMA ItemPut ==
    ASSUME NEW item \in FileItem, NEW it, it.type = item.type, it.data = item.data,
           NEW cells, NEW a \in Nat,
           \A i \in 1..Len(Cells(item.id, it)) : cells[a + i] = Cells(item.id, it)[i]
    PROVE  ItemAt(cells, a + 1, item) /\ Len(Cells(item.id, it)) = ItemLength(item)
  <1> DEFINE q == Cells(item.id, it)
             d == Len(item.data)
  <1>1. d \in Nat /\ item.id \in Nat /\ it.type = 1 /\ it.data \in Seq(Nat) /\ it.data = item.data
    BY ItemIs
  <1>2. /\ q \in Seq(Nat) /\ Len(q) = 3 + Len(it.data)
        /\ q[1] = it.type /\ q[2] = item.id
        /\ q[3] = Len(it.data)
        /\ \A i \in 1..Len(it.data) : q[3 + i] = it.data[i]
    BY <1>1, CellsAre
  <1>3. \A i \in 1..Len(q) : cells[a + i] = q[i]
    OBVIOUS
  <1> HIDE DEF q
  <1>4. /\ Len(q) = 3 + d /\ q[1] = item.type /\ q[2] = item.id /\ q[3] = d
        /\ \A i \in 1..d : q[3 + i] = item.data[i]
    BY <1>2
  <1>5. Len(q) = ItemLength(item)
    BY <1>4 DEF ItemLength
  <1> HIDE DEF d
  <1>6. /\ 1 \in 1..Len(q) /\ 2 \in 1..Len(q) /\ 3 \in 1..Len(q)
        /\ \A i \in 1..d : 3 + i \in 1..Len(q) /\ a + 1 + 2 + i = a + (3 + i)
        /\ a + 1 + 1 = a + 2 /\ a + 1 + 2 = a + 3
    BY <1>1, <1>4
  <1>7. cells[a + 1] = item.type /\ cells[a + 1 + 1] = item.id /\ cells[a + 1 + 2] = d
    BY <1>3, <1>4, <1>6
  <1>8. \A i \in 1..d : cells[a + 1 + 2 + i] = item.data[i]
    BY <1>3, <1>4, <1>6
  <1> QED BY <1>5, <1>7, <1>8 DEF ItemAt, q, d

(* The cells that an edit writes: up to the n-th item, the item if one comes *)
(* in, and the rest.                                                         *)
Writes(body, places, n, r, c, item, it, rest, cells) ==
    /\ it.type = item.type /\ it.data = item.data
    /\ rest \in Seq(Nat) /\ Len(rest) = Len(body) - (places[n + r] - 1)
    /\ \A i \in 1..Len(body) - (places[n + r] - 1) : rest[i] = body[places[n + r] - 1 + i]
    /\ cells = SubSeq(Checked(body), 1, places[n] - 1)
                  \o (IF c = 1 THEN Cells(item.id, it) ELSE <<>>) \o rest

(* They hold the items as the edit leaves them. *)
LEMMA Edited ==
    ASSUME NEW body, NEW items, NEW places, NEW n, NEW r, NEW c, NEW item, NEW new,
           Edits(body, items, places, n, r, c, item, new),
           NEW it, NEW rest, NEW cells, Writes(body, places, n, r, c, item, it, rest, cells)
    PROVE  \E newplaces : Holds(cells, new, newplaces)
  <1> DEFINE f == Checked(body)
             q == IF c = 1 THEN Cells(item.id, it) ELSE <<>>
             a == places[n] - 1
             e == places[n + r] - 1
             d == IF c = 1 THEN ItemLength(item) ELSE 0
  <1>1. /\ body \in Seq(Nat) /\ Len(body) \in Nat /\ Len(items) \in Nat
        /\ f \in Seq(Nat) /\ Len(f) = Len(body) + 1 /\ \A i \in 1..Len(body) : f[i] = body[i]
    BY CheckedIs, PlacesRise DEF Holds, Edits
  <1>2. places[n] \in Nat /\ a \in 0..Len(body) /\ e \in 0..Len(body) /\ a + 1 = places[n]
    <2>1. n \in 1..Len(items) + 1 /\ n + r \in 1..Len(items) + 1
      BY <1>1 DEF Edits
    <2>2. places[n] \in n + 1..Len(body) /\ places[n + r] \in n + r + 1..Len(body)
      BY <2>1, PlacesRise DEF Edits
    <2>3. n + 1 >= 2 /\ n + r + 1 >= 2 /\ n + 1 \in Nat /\ n + r + 1 \in Nat
      BY <1>1, <2>1
    <2>4. \A k \in Nat : k >= 2 => \A p \in k..Len(body) :
              p \in Nat /\ p - 1 \in 0..Len(body) /\ p - 1 + 1 = p
      BY <1>1
    <2> QED BY <2>2, <2>3, <2>4
  <1>3. q \in Seq(Nat)
    <2>1. item.id \in Nat /\ it.type = 1 /\ it.data \in Seq(Nat)
      BY ItemIs DEF Edits, Writes
    <2>2. Cells(item.id, it) \in Seq(Nat)
      BY <2>1, CellsAre
    <2> QED BY <2>2, EmptySeq
  <1>4. /\ rest \in Seq(Nat) /\ Len(rest) = Len(body) - e
        /\ \A i \in 1..Len(body) - e : rest[i] = body[e + i]
        /\ cells = SubSeq(f, 1, a) \o q \o rest
        /\ it.type = item.type /\ it.data = item.data
    BY DEF Writes
  <1> HIDE DEF f, q, a, e
  <1>5. Len(body) <= Len(f) /\ a \in 0..Len(body) /\ e \in 0..Len(body) /\ q \in Seq(Nat)
    BY <1>1, <1>2, <1>3
  <1>6. CellsSpliced(body, cells, a, Len(q), e) /\ \A i \in 1..Len(q) : cells[a + i] = q[i]
    <2>1. Pieces(body, f, a, e, q, rest, cells)
      BY <1>1, <1>4, <1>5 DEF Pieces
    <2> QED BY <2>1, PutTogether
  <1>7. c = 1 => ItemAt(cells, a + 1, item) /\ Len(q) = ItemLength(item)
    <2> SUFFICES ASSUME c = 1 PROVE ItemAt(cells, a + 1, item) /\ Len(q) = ItemLength(item)
      OBVIOUS
    <2>1. q = Cells(item.id, it)
      BY DEF q
    <2>2. a \in Nat
      BY <1>2
    <2>3. \A i \in 1..Len(Cells(item.id, it)) : cells[a + i] = Cells(item.id, it)[i]
      BY <1>6, <2>1
    <2>4. ItemAt(cells, a + 1, item) /\ Len(Cells(item.id, it)) = ItemLength(item)
      BY <1>4, <2>2, <2>3, ItemPut DEF Edits
    <2> QED BY <2>1, <2>4
  <1>8. Len(q) = d
    BY <1>7, EmptySeq DEF q
  <1> HIDE DEF d
  <1>9. d = IF c = 1 THEN ItemLength(item) ELSE 0
    BY DEF d
  <1>10. CellsSpliced(body, cells, places[n] - 1, d, places[n + r] - 1)
    BY <1>6, <1>8 DEF a, e
  <1>11. c = 1 => ItemAt(cells, places[n], item)
    BY <1>2, <1>7
  <1>12. \E newplaces : Holds(cells, new, newplaces)
    BY <1>9, <1>10, <1>11, SplicedHolds
  <1> QED BY <1>12

-----------------------------------------------------------------------------
IdsBelow(items, m) == \A n \in 1..Len(items) : items[n].id < m

LEMMA SplicedIds ==
    ASSUME NEW body, NEW items, NEW places, NEW n, NEW r, NEW c, NEW item, NEW new,
           Edits(body, items, places, n, r, c, item, new),
           NEW m \in Nat, NEW l \in Nat, IdsBelow(items, m), m <= l, item.id < l
    PROVE  IdsBelow(new, l)
  <1>7. items \in Seq(FileItem) /\ Spliced(items, new, n, r, c, item)
    BY DEF Edits, Holds
  <1>1. Len(items) \in Nat /\ Len(new) = Len(items) + c - r
    BY <1>7, LenProperties DEF Spliced
  <1>8. n \in 1..Len(items) + 1 /\ r \in 0..1 /\ c \in 0..1 /\ n + r <= Len(items) + 1
    BY DEF Edits
  <1> SUFFICES ASSUME NEW k \in 1..Len(new) PROVE new[k].id < l
    BY DEF IdsBelow
  <1>2. new[k] = IF k < n THEN items[k] ELSE IF k < n + c THEN item ELSE items[k + r - c]
    BY <1>7 DEF Spliced
  <1>9. ASSUME NEW x \in Nat, x < m PROVE x < l
    BY <1>9
  <1>3. ASSUME NEW j \in 1..Len(items) PROVE items[j].id < l
    <2>1. items[j] \in FileItem
      BY <1>7, ElementOfSeq
    <2>2. items[j].id \in Nat /\ items[j].id < m
      BY <2>1, ItemIs DEF IdsBelow
    <2> QED BY <1>9, <2>2
  <1>4. CASE k < n
    <2>1. k \in 1..Len(items)
      BY <1>1, <1>4, <1>8
    <2> QED BY <1>2, <1>3, <1>4, <2>1
  <1>5. CASE ~ (k < n) /\ k < n + c
    BY <1>2, <1>5
  <1>6. CASE ~ (k < n + c)
    <2>1. k + r - c \in 1..Len(items) /\ ~ (k < n)
      BY <1>1, <1>6, <1>8
    <2> QED BY <1>2, <1>3, <1>6, <2>1
  <1> QED BY <1>4, <1>5, <1>6

LEMMA AppendSpliced ==
    ASSUME NEW items \in Seq(FileItem), NEW item \in FileItem
    PROVE  Spliced(items, Append(items, item), Len(items) + 1, 0, 1, item)
  <1> DEFINE new == Append(items, item)
             m == Len(items)
  <1>1. m \in Nat
    BY LenProperties
  <1>2. /\ new \in Seq(FileItem) /\ Len(new) = m + 1
        /\ \A k \in 1..m : new[k] = items[k]
        /\ new[m + 1] = item
    BY AppendProperties
  <1> HIDE DEF new, m
  <1>3. ASSUME NEW k \in 1..Len(new)
        PROVE  new[k] = IF k < m + 1 THEN items[k] ELSE IF k < m + 1 + 1 THEN item ELSE items[k + 0 - 1]
    <2>1. CASE k < m + 1
      <3>1. k \in 1..m
        BY <1>1, <1>2, <2>1
      <3> QED BY <1>2, <2>1, <3>1
    <2>2. CASE ~ (k < m + 1)
      <3>1. k = m + 1 /\ k < m + 1 + 1
        BY <1>1, <1>2, <2>2
      <3> QED BY <1>2, <2>2, <3>1
    <2> QED BY <2>1, <2>2
  <1>4. Len(new) = m + 1 - 0
    BY <1>1, <1>2
  <1>5. Spliced(items, new, m + 1, 0, 1, item)
    BY <1>2, <1>3, <1>4 DEF Spliced, m
  <1> QED BY <1>5 DEF new, m

LEMMA ReplaceSpliced ==
    ASSUME NEW items \in Seq(FileItem), NEW item \in FileItem, NEW n \in 1..Len(items)
    PROVE  Spliced(items, ReplaceAt(items, n, item), n, 1, 1, item)
  <1> DEFINE new == ReplaceAt(items, n, item)
             m == Len(items)
  <1>1. m \in Nat /\ n \in 1..m
    BY LenProperties
  <1>2. /\ new \in Seq(FileItem) /\ Len(new) = m
        /\ \A k \in 1..m : new[k] = IF k = n THEN item ELSE items[k]
    BY ExceptSeq DEF ReplaceAt
  <1> HIDE DEF new, m
  <1>3. ASSUME NEW k \in 1..Len(new)
        PROVE  new[k] = IF k < n THEN items[k] ELSE IF k < n + 1 THEN item ELSE items[k + 1 - 1]
    <2>1. k \in 1..m /\ k + 1 - 1 = k /\ (k < n => k # n) /\ (~ (k < n) /\ k < n + 1 <=> k = n)
      BY <1>1, <1>2
    <2> QED BY <1>2, <2>1
  <1>4. Len(new) = m + 1 - 1
    BY <1>1, <1>2
  <1>5. Spliced(items, new, n, 1, 1, item)
    BY <1>2, <1>3, <1>4 DEF Spliced, m
  <1> QED BY <1>5 DEF new

LEMMA RemoveSpliced ==
    ASSUME NEW items \in Seq(FileItem), NEW item \in FileItem, NEW n \in 1..Len(items)
    PROVE  Spliced(items, RemoveAt(items, n), n, 1, 0, item)
  <1> DEFINE m == Len(items)
             p == SubSeq(items, 1, n - 1)
             q == SubSeq(items, n + 1, m)
             new == p \o q
  <1>1. m \in Nat /\ n \in 1..m /\ items \in Seq(FileItem)
    BY LenProperties
  <1>2. new = RemoveAt(items, n)
    BY DEF RemoveAt
  <1>3. p \in Seq(FileItem) /\ Len(p) = n - 1 /\ \A k \in 1..n - 1 : p[k] = items[k]
    <2>1. 0 \in 0..Len(items) /\ n - 1 \in 0..Len(items) /\ 0 <= n - 1 /\ 0 + 1 = 1 /\ n - 1 - 0 = n - 1
      BY <1>1
    <2>2. /\ SubSeq(items, 0 + 1, n - 1) \in Seq(FileItem) /\ Len(SubSeq(items, 0 + 1, n - 1)) = n - 1 - 0
          /\ \A i \in 1..n - 1 - 0 : SubSeq(items, 0 + 1, n - 1)[i] = items[0 + i]
      BY <1>1, <2>1, PieceIs
    <2>3. \A k \in 1..n - 1 : 0 + k = k
      BY <1>1
    <2> QED BY <2>1, <2>2, <2>3
  <1>4. q \in Seq(FileItem) /\ Len(q) = m - n /\ \A k \in 1..m - n : q[k] = items[n + k]
    <2>1. n \in 0..Len(items) /\ m \in 0..Len(items) /\ n <= m
      BY <1>1
    <2> QED BY <1>1, <2>1, PieceIs
  <1> HIDE DEF p, q, m
  <1>5. new \in Seq(FileItem) /\ Joins(new, p, q)
    BY <1>3, <1>4, ConcatIs
  <1> HIDE DEF new
  <1>6. /\ Len(new) = n - 1 + (m - n)
        /\ \A k \in 1..n - 1 : new[k] = p[k]
        /\ \A k \in 1..m - n : new[n - 1 + k] = q[k]
    BY <1>3, <1>4, <1>5 DEF Joins
  <1>7. ASSUME NEW k \in 1..Len(new)
        PROVE  new[k] = IF k < n THEN items[k] ELSE IF k < n + 0 THEN item ELSE items[k + 1 - 0]
    <2>1. CASE k < n
      <3>1. k \in 1..n - 1
        BY <1>1, <2>1
      <3> QED BY <1>3, <1>6, <2>1, <3>1
    <2>2. CASE ~ (k < n)
      <3>1. k - (n - 1) \in 1..m - n /\ n - 1 + (k - (n - 1)) = k /\ n + (k - (n - 1)) = k + 1 - 0 /\ ~ (k < n + 0)
        BY <1>1, <1>6, <2>2
      <3>2. new[k] = items[k + 1 - 0]
        BY <1>4, <1>6, <3>1
      <3> QED BY <2>2, <3>1, <3>2
    <2> QED BY <2>1, <2>2
  <1>8. Len(new) = m + 0 - 1
    BY <1>1, <1>6
  <1>9. Spliced(items, new, n, 1, 0, item)
    BY <1>5, <1>7, <1>8 DEF Spliced, m
  <1> QED BY <1>2, <1>9

(* The next ID is greater than all others and no greater than it must be.    *)
LEMMA NextIs ==
    ASSUME NEW f, NEW items \in Seq(FileItem), ItemsOf(f) = items,
           NEW m \in Nat, m < IDCount, IDCount \in Nat, IdsBelow(items, m)
    PROVE  NextID(f) \in 0..m /\ IdsBelow(items, NextID(f))
  <1> DEFINE n == Len(items)
             Step(k, v) == IF items[k].id > v \/ v = IDCount - 1 THEN items[k].id ELSE v
             Steps(g) == g = [k \in 0..n |-> IF k = 0 THEN IDCount - 1 ELSE Step(k, g[k - 1])]
             max == CHOOSE g : Steps(g)
             step == [k \in 1..n |-> [v \in Nat |-> Step(k, v)]]
  <1>1. n \in Nat /\ \A k \in 1..n : items[k].id \in Nat /\ items[k].id < m
    BY LenProperties, ElementOfSeq, ItemIs DEF IdsBelow
  <1>2. NextID(f) = (max[n] + 1) % IDCount
    BY DEF NextID
  <1>3. \A g : Steps(g) => \A k \in 0..n : g[k] = IF k = 0 THEN IDCount - 1 ELSE Step(k, g[k - 1])
    BY Zenon
  <1>4. ASSUME NEW g, g = [k \in 0..n |-> g[k]],
               \A k \in 0..n : g[k] = IF k = 0 THEN IDCount - 1 ELSE Step(k, g[k - 1])
        PROVE  Steps(g)
    BY <1>4
  <1> HIDE DEF Steps, n
  <1>5. \A v \in Nat, k \in 1..n : Step(k, v) \in Nat
    BY <1>1
  <1> HIDE DEF Step
  <1>6. step \in [1..n -> [Nat -> Nat]]
    BY <1>5
  <1>7. \A k \in 1..n, v \in Nat : step[k][v] = Step(k, v)
    OBVIOUS
  <1> HIDE DEF step
  <1>8. PICK g \in [0..n -> Nat] : g[0] = IDCount - 1 /\ \A k \in 1..n : g[k] = step[k][g[k - 1]]
    <2> DEFINE first == IDCount - 1
    <2>1. first \in Nat
      OBVIOUS
    <2> HIDE DEF first
    <2>2. \E g \in [0..n -> Nat] : Follows(g, first, step, n)
      BY <1>1, <1>6, <2>1, StepByStep
    <2>3. \E g \in [0..n -> Nat] : g[0] = first /\ \A k \in 1..n : g[k] = step[k][g[k - 1]]
      BY <2>2, Zenon DEF Follows
    <2> QED BY <2>3 DEF first
  <1>9. Steps(g)
    <2>1. \A k \in 0..n : g[k] = IF k = 0 THEN IDCount - 1 ELSE Step(k, g[k - 1])
      <3> SUFFICES ASSUME NEW k \in 1..n PROVE g[k] = Step(k, g[k - 1])
        BY <1>1, <1>8
      <3>1. k - 1 \in 0..n
        BY <1>1
      <3>2. g[k - 1] \in Nat
        BY <1>8, <3>1
      <3> QED BY <1>7, <1>8, <3>2
    <2>2. g = [k \in 0..n |-> g[k]]
      BY <1>8
    <2> QED BY <1>4, <2>1, <2>2
  <1>10. Steps(max)
    BY <1>9, Zenon
  <1> HIDE DEF max
  <1>11. \A k \in 0..n : max[k] = IF k = 0 THEN IDCount - 1 ELSE Step(k, max[k - 1])
    BY <1>3, <1>10
  <1> DEFINE Greatest(k) == IF k = 0 THEN max[k] = IDCount - 1
                       ELSE max[k] \in Nat /\ max[k] < m /\ \A i \in 1..k : items[i].id <= max[k]
             S == {k \in 0..n : Greatest(k)}
  <1>12. 0 \in S
    BY <1>1, <1>11
  <1>13. ASSUME NEW k \in 1..n, k - 1 \in S PROVE k \in S
    <2>1. k \in 0..n /\ k # 0 /\ k - 1 \in 0..n
      BY <1>1
    <2>2. max[k] = Step(k, max[k - 1]) /\ Greatest(k - 1)
      BY <1>11, <1>13, <2>1
    <2>3. items[k].id \in Nat /\ items[k].id < m
      BY <1>1
    <2>4. CASE k - 1 = 0
      <3>1. max[k - 1] = IDCount - 1
        BY <2>2, <2>4
      <3>2. max[k] = items[k].id
        BY <2>2, <3>1 DEF Step
      <3>3. \A i \in 1..k : i = k
        BY <2>4
      <3>4. Greatest(k)
        BY <2>1, <2>3, <3>2, <3>3
      <3> HIDE DEF Greatest
      <3> QED BY <2>1, <3>4
    <2>5. CASE k - 1 # 0
      <3>1. max[k - 1] \in Nat /\ max[k - 1] < m /\ \A i \in 1..k - 1 : items[i].id <= max[k - 1]
        BY <2>2, <2>5
      <3>2. max[k - 1] # IDCount - 1
        BY <3>1
      <3>3. max[k] = IF items[k].id > max[k - 1] THEN items[k].id ELSE max[k - 1]
        BY <2>2, <3>2 DEF Step
      <3>4. max[k] \in Nat /\ max[k] < m /\ items[k].id <= max[k] /\ max[k - 1] <= max[k]
        BY <2>3, <3>1, <3>3
      <3>5. ASSUME NEW i \in 1..k PROVE items[i].id <= max[k]
        <4>1. CASE i = k
          BY <3>4, <4>1
        <4>2. CASE i # k
          <5>1. i \in 1..k - 1 /\ i \in 1..n
            BY <1>1, <4>2
          <5>2. items[i].id \in Nat /\ items[i].id <= max[k - 1]
            BY <1>1, <3>1, <5>1
          <5>3. ASSUME NEW a \in Nat, NEW b \in Nat, NEW c \in Nat, a <= b, b <= c
                PROVE  a <= c
            BY <5>3
          <5> QED BY <3>1, <3>4, <5>2, <5>3
        <4> QED BY <4>1, <4>2
      <3>6. Greatest(k)
        BY <2>1, <3>4, <3>5
      <3> HIDE DEF Greatest
      <3> QED BY <2>1, <3>6
    <2> QED BY <2>4, <2>5
  <1> HIDE DEF S
  <1>14. n \in S
    <2>1. \A k \in 0..n : k \in S
      BY <1>1, <1>12, <1>13, EachStep
    <2> QED BY <1>1, <2>1
  <1>15. Greatest(n)
    BY <1>14 DEF S
  <1>16. CASE n = 0
    <2>1. max[n] = IDCount - 1
      BY <1>15, <1>16
    <2>2. IDCount % IDCount = 0 /\ IDCount - 1 + 1 = IDCount
      OBVIOUS
    <2>3. NextID(f) = 0
      BY <1>2, <2>1, <2>2
    <2>4. IdsBelow(items, 0)
      BY <1>16 DEF IdsBelow, n
    <2> QED BY <2>3, <2>4
  <1>17. CASE n # 0
    <2>1. max[n] \in Nat /\ max[n] < m /\ \A i \in 1..n : items[i].id <= max[n]
      BY <1>15, <1>17
    <2>2. (max[n] + 1) % IDCount = max[n] + 1
      <3>1. max[n] + 1 \in Nat /\ max[n] + 1 < IDCount
        BY <2>1
      <3> QED BY <3>1
    <2>3. NextID(f) = max[n] + 1 /\ NextID(f) \in 0..m
      BY <1>2, <2>1, <2>2
    <2>4. \A i \in 1..n : items[i].id < NextID(f)
      BY <1>1, <2>1, <2>3
    <2> QED BY <2>3, <2>4 DEF IdsBelow, n
  <1> QED BY <1>16, <1>17

LEMMA FirstIs ==
    ASSUME NEW f, NEW items \in Seq(FileItem), ItemsOf(f) = items, NEW id
    PROVE  \/ FirstWith(f, id) = 0 /\ \A n \in 1..Len(items) : items[n].id # id
           \/ FirstWith(f, id) \in 1..Len(items) /\ items[FirstWith(f, id)].id = id
  <1> DEFINE S == {n \in 1..Len(items) : items[n].id = id}
  <1>1. FirstWith(f, id) = IF S = {} THEN 0 ELSE CHOOSE n \in S : \A m \in S : n <= m
    BY DEF FirstWith
  <1>2. CASE S = {}
    BY <1>1, <1>2
  <1>3. CASE S # {}
    <2>1. S \subseteq Nat
      OBVIOUS
    <2> HIDE DEF S
    <2>2. \E n \in S : \A m \in S : n <= m
      BY <1>3, <2>1, LeastNatural
    <2>3. FirstWith(f, id) \in S
      BY <1>1, <1>3, <2>2, Zenon
    <2> QED BY <2>3 DEF S
  <1> QED BY <1>2, <1>3

-----------------------------------------------------------------------------
(* The cells of a file that edits have left, or as many as the buffer had    *)
(* room for; no edit has used an ID yet that is m or more.                   *)
Good(f, m) ==
    \E body, items, places :
        /\ Holds(body, items, places) /\ IdsBelow(items, m)
        /\ f = Checked(body) \/ (Begins(f, body) /\ Len(f) <= Len(body))

EditInv ==
    /\ edit.edits \in 0..MaxEdits
    /\ Good(ucReadFileData, edit.edits) /\ Good(ucBufFileData, edit.edits)

LEMMA GoodRead ==
    ASSUME NEW f, NEW m, Good(f, m), IsRead(f)
    PROVE  \E body, items, places : Holds(body, items, places) /\ IdsBelow(items, m) /\ f = Checked(body)
  <1>1. PICK body, items, places :
            /\ Holds(body, items, places) /\ IdsBelow(items, m)
            /\ f = Checked(body) \/ (Begins(f, body) /\ Len(f) <= Len(body))
    BY DEF Good
  <1>2. f = Checked(body)
    BY <1>1, PartRefused
  <1> QED BY <1>1, <1>2

LEMMA GoodLater ==
    ASSUME NEW f, NEW m \in Nat, Good(f, m)
    PROVE  Good(f, m + 1)
  <1>1. PICK body, items, places :
            /\ Holds(body, items, places) /\ IdsBelow(items, m)
            /\ f = Checked(body) \/ (Begins(f, body) /\ Len(f) <= Len(body))
    BY DEF Good
  <1>2. IdsBelow(items, m + 1)
    <2> SUFFICES ASSUME NEW n \in 1..Len(items) PROVE items[n].id < m + 1
      BY DEF IdsBelow
    <2>1. items[n] \in FileItem
      BY <1>1, ElementOfSeq DEF Holds
    <2>2. items[n].id \in Nat /\ items[n].id < m
      BY <1>1, <2>1, ItemIs DEF IdsBelow
    <2> QED BY <2>2
  <1> QED BY <1>1, <1>2 DEF Good

LEMMA WrittenGood ==
    ASSUME NEW body, NEW items, NEW places, Holds(body, items, places), NEW m, IdsBelow(items, m)
    PROVE  /\ Good(Written(Checked(body)), m)
           /\ Len(Checked(body)) <= VIRTUAL_FILE_SIZE => Written(Checked(body)) = Checked(body)
  <1> DEFINE f == Checked(body)
             w == Written(f)
             V == VIRTUAL_FILE_SIZE
  <1>1. /\ body \in Seq(Nat) /\ Len(body) \in Nat /\ f \in Seq(Nat) /\ Len(f) = Len(body) + 1
        /\ \A i \in 1..Len(body) : f[i] = body[i]
    BY CheckedIs, LenProperties DEF Holds
  <1>2. V \in Nat
    BY EditAssumption
  <1> HIDE DEF f, V
  <1>3. CASE Len(f) <= V
    <2>1. (IF Len(f) < V THEN Len(f) ELSE V) = Len(f)
      BY <1>1, <1>2, <1>3
    <2>2. w = SubSeq(f, 1, Len(f))
      BY <2>1 DEF Written, V
    <2>3. w = f
      BY <1>1, <2>2, SubSeqFull
    <2> HIDE DEF w
    <2>4. Good(w, m)
      BY <2>3 DEF Good, f
    <2> QED BY <2>3, <2>4 DEF w, f
  <1>4. CASE ~ (Len(f) <= V)
    <2>1. (IF Len(f) < V THEN Len(f) ELSE V) = V
      BY <1>1, <1>2, <1>4
    <2>2. w = SubSeq(f, 1, V)
      BY <2>1 DEF Written, V
    <2>3. 0 \in 0..Len(f) /\ V \in 0..Len(f) /\ 0 <= V /\ 0 + 1 = 1 /\ V - 0 = V /\ V <= Len(body)
      BY <1>1, <1>2, <1>4
    <2>4. /\ SubSeq(f, 0 + 1, V) \in Seq(Nat) /\ Len(SubSeq(f, 0 + 1, V)) = V - 0
          /\ \A i \in 1..V - 0 : SubSeq(f, 0 + 1, V)[i] = f[0 + i]
      BY <1>1, <2>3, PieceIs
    <2>5. \A i \in 1..V : 0 + i = i /\ i \in 1..Len(body)
      BY <1>1, <1>2, <2>3
    <2>6. w \in Seq(Nat) /\ Len(w) = V /\ \A i \in 1..V : w[i] = body[i]
      BY <1>1, <2>2, <2>3, <2>4, <2>5
    <2> HIDE DEF w
    <2>7. Begins(w, body) /\ Len(w) <= Len(body)
      BY <1>1, <1>2, <2>3, <2>6 DEF Begins
    <2>8. Good(w, m)
      BY <2>7 DEF Good
    <2> QED BY <1>4, <2>8 DEF w, f, V
  <1> QED BY <1>3, <1>4

LEMMA NewGood == Good(NewFile, 0)
  <1> DEFINE body == <<Version, Empty>>
             items == <<>>
             places == <<2>>
  <1>1. /\ body \in Seq(Nat) /\ Len(body) = 2 /\ body[2] = Empty
        /\ items \in Seq(FileItem) /\ Len(items) = 0
        /\ places \in Seq(Nat) /\ Len(places) = 1 /\ places[1] = 2
    BY EmptySeq DEF Version, Empty
  <1>2. NewFile = Checked(body)
    BY DEF NewFile
  <1> HIDE DEF body, items, places
  <1>3. Holds(body, items, places)
    BY <1>1 DEF Holds
  <1>4. IdsBelow(items, 0)
    BY <1>1 DEF IdsBelow
  <1> QED BY <1>2, <1>3, <1>4 DEF Good

-----------------------------------------------------------------------------
(* The step that EditKeepsItems is about. *)
ItemsKept ==
    edit'.edits > edit.edits /\ edit'.result = 1 =>
        LET old == ItemsOf(ucReadFileData)
            new == ItemsOf(ucReadFileData')
            item == [id |-> edit'.id, type |-> edit'.item.type, data |-> edit'.item.data]
            n == FirstWith(ucReadFileData, edit'.id)
        IN  /\ IsRead(ucReadFileData')
            /\ CASE edit'.call = "add"    -> n = 0 /\ new = Append(old, item)
                 [] edit'.call = "modify" -> new = ReplaceAt(old, n, item)
                 [] edit'.call = "remove" -> new = RemoveAt(old, n)

LEMMA FailKeeps ==
    ASSUME EditInv, edit.edits < MaxEdits, NEW call, NEW id, NEW item, NEW result \in {-1, 0},
           Fail(call, id, item, result), ucReadFileData' \in {ucReadFileData, ucBufFileData}
    PROVE  EditInv' /\ ItemsKept
  <1>1. edit'.edits = edit.edits + 1 /\ edit'.result = result /\ ucBufFileData' = ucBufFileData
    BY DEF Fail
  <1>2. edit.edits \in Nat /\ edit.edits + 1 \in 0..MaxEdits /\ MaxEdits \in Nat
    BY EditAssumption DEF EditInv
  <1>3. Good(ucReadFileData, edit.edits + 1) /\ Good(ucBufFileData, edit.edits + 1)
    BY <1>2, GoodLater DEF EditInv
  <1>4. EditInv'
    BY <1>1, <1>2, <1>3 DEF EditInv
  <1>5. edit'.result # 1
    BY <1>1
  <1> QED BY <1>4, <1>5 DEF ItemsKept

(* A successful call writes the file that holds the changed items.           *)
LEMMA WriteKeeps ==
    ASSUME EditInv, edit.edits < MaxEdits, NEW call, NEW id, NEW item, NEW body, NEW items, NEW places,
           Holds(body, items, places), IdsBelow(items, edit.edits + 1),
           Write(call, id, item, Checked(body))
    PROVE  /\ edit'.edits \in 0..MaxEdits /\ edit'.call = call /\ edit'.id = id /\ edit'.item = item
           /\ Good(ucBufFileData', edit'.edits) /\ Good(ucReadFileData, edit'.edits)
           /\ edit'.result = 1 =>
                  ucBufFileData' = Checked(body) /\ IsRead(ucBufFileData') /\ ItemsOf(ucBufFileData') = items
  <1> DEFINE f == Checked(body)
  <1>1. /\ edit'.edits = edit.edits + 1 /\ edit'.call = call /\ edit'.id = id /\ edit'.item = item
        /\ ucBufFileData' = Written(f)
        /\ edit'.result = IF Len(f) <= VIRTUAL_FILE_SIZE THEN 1 ELSE -1
    BY DEF Write
  <1>2. edit.edits \in Nat /\ edit.edits + 1 \in 0..MaxEdits
    BY EditAssumption DEF EditInv
  <1>3. Good(Written(f), edit.edits + 1) /\ (Len(f) <= VIRTUAL_FILE_SIZE => Written(f) = f)
    BY WrittenGood
  <1>4. IsRead(f) /\ ItemsOf(f) = items
    BY ReadBack
  <1>5. Good(ucReadFileData, edit.edits + 1)
    BY <1>2, GoodLater DEF EditInv
  <1> HIDE DEF f
  <1>6. edit'.result = 1 => Len(f) <= VIRTUAL_FILE_SIZE
    BY <1>1
  <1>7. edit'.result = 1 => ucBufFileData' = f /\ IsRead(ucBufFileData') /\ ItemsOf(ucBufFileData') = items
    BY <1>1, <1>3, <1>4, <1>6, Zenon
  <1> QED BY <1>1, <1>2, <1>3, <1>5, <1>7 DEF f

LEMMA AddKeeps ==
    ASSUME EditInv, NEW item, item.type = 1, item.data \in Seq(Nat), AddArray(item)
    PROVE  EditInv' /\ ItemsKept
  <1> DEFINE f == ucReadFileData
             id == NextID(f)
             new == Checked(SubSeq(f, 1, Last(Starts(f)) - 1) \o Cells(id, item) \o <<Empty>>)
  <1>1. /\ edit.edits < MaxEdits /\ ucReadFileData' = ucBufFileData'
        /\ IF IsRead(f) THEN Write("add", id, item, new) ELSE Fail("add", 0, item, -1)
    BY DEF AddArray
  <1>2. CASE ~ IsRead(f)
    <2>1. Fail("add", 0, item, -1)
      BY <1>1, <1>2
    <2>2. ucReadFileData' \in {ucReadFileData, ucBufFileData}
      BY <1>1, <2>1 DEF Fail
    <2> QED BY <1>1, <2>1, <2>2, FailKeeps
  <1>3. CASE IsRead(f)
    <2> DEFINE e == edit.edits
    <2>1. PICK body, items, places : Holds(body, items, places) /\ IdsBelow(items, e) /\ f = Checked(body)
      BY <1>3, GoodRead DEF EditInv
    <2>2. /\ items \in Seq(FileItem) /\ body \in Seq(Nat) /\ Len(items) \in Nat /\ Len(body) \in Nat
          /\ Len(body) >= 1
      <3>1. /\ items \in Seq(FileItem) /\ body \in Seq(Nat) /\ Len(items) \in Nat /\ Len(body) \in Nat
        BY <2>1, LenProperties DEF Holds
      <3>2. 1 \in 1..Len(items) + 1
        BY <3>1
      <3>3. places[1] \in 1 + 1..Len(body)
        BY <2>1, <3>2, PlacesRise
      <3> QED BY <3>1, <3>3
    <2>3. Starts(f) = places /\ ItemsOf(f) = items /\ Last(places) = Len(body)
      BY <2>1, ReadBack
    <2>4. e \in Nat /\ e < IDCount /\ IDCount \in Nat
      BY <1>1, EditAssumption DEF EditInv
    <2>5. id \in 0..e /\ IdsBelow(items, id)
      <3> HIDE DEF f, e
      <3> QED BY <2>1, <2>2, <2>3, <2>4, NextIs
    <2> HIDE DEF f, id, e
    <2> DEFINE x == [id |-> id, type |-> item.type, data |-> item.data]
               n == Len(items) + 1
               after == Append(items, x)
               rest == <<Empty>>
               cells == SubSeq(f, 1, Last(Starts(f)) - 1) \o Cells(id, item) \o <<Empty>>
    <2>6. x \in FileItem /\ x.id = id /\ x.type = item.type /\ x.data = item.data
      BY <2>4, <2>5 DEF FileItem, Types
    <2>7. rest \in Seq(Nat) /\ Len(rest) = 1 /\ rest[1] = Empty
      BY DEF Empty
    <2>8. places[n] = Len(body) /\ body[Len(body)] = Empty /\ n + 0 = n
      BY <2>1, <2>2 DEF Holds
    <2> HIDE DEF x, rest
    <2>9. Spliced(items, after, n, 0, 1, x)
      BY <2>2, <2>6, AppendSpliced
    <2> HIDE DEF after
    <2>10. Edits(body, items, places, n, 0, 1, x, after)
      <3>1. n \in 1..Len(items) + 1 /\ 0 \in 0..1 /\ 1 \in 0..1 /\ n + 0 <= Len(items) + 1
        BY <2>2
      <3> HIDE DEF n
      <3> QED BY <2>1, <2>6, <2>9, <3>1 DEF Edits
    <2> HIDE DEF n
    <2>11. Writes(body, places, n, 0, 1, x, item, rest, cells)
      <3>1. places[n + 0] - 1 = Len(body) - 1
        BY <2>8
      <3>2. Len(body) - (Len(body) - 1) = 1 /\ \A i \in 1..1 : i = 1 /\ Len(body) - 1 + i = Len(body)
        BY <2>2
      <3>3. /\ Len(rest) = Len(body) - (places[n + 0] - 1)
            /\ \A i \in 1..Len(body) - (places[n + 0] - 1) : rest[i] = body[places[n + 0] - 1 + i]
        BY <2>7, <2>8, <3>1, <3>2
      <3>4. cells = SubSeq(Checked(body), 1, places[n] - 1) \o Cells(x.id, item) \o rest
        BY <2>1, <2>3, <2>6, <2>8 DEF rest
      <3> HIDE DEF cells
      <3> QED BY <2>6, <2>7, <3>3, <3>4 DEF Writes
    <2> HIDE DEF cells
    <2>14. PICK newplaces : Holds(cells, after, newplaces)
      BY <2>10, <2>11, Edited
    <2>15. IdsBelow(after, e + 1)
      <3>2. e + 1 \in Nat /\ e <= e + 1 /\ x.id < e + 1
        BY <2>4, <2>5, <2>6
      <3> QED BY <2>1, <2>4, <2>10, <3>2, SplicedIds
    <2>16. Write("add", id, item, Checked(cells))
      BY <1>1, <1>3 DEF cells, f, id
    <2>17. IdsBelow(after, edit.edits + 1)
      BY <2>15 DEF e
    <2>18. /\ edit'.edits \in 0..MaxEdits /\ edit'.call = "add" /\ edit'.id = id /\ edit'.item = item
           /\ Good(ucBufFileData', edit'.edits) /\ Good(ucReadFileData, edit'.edits)
           /\ edit'.result = 1 =>
                  ucBufFileData' = Checked(cells) /\ IsRead(ucBufFileData') /\ ItemsOf(ucBufFileData') = after
      BY <1>1, <2>14, <2>16, <2>17, WriteKeeps
    <2>19. FirstWith(f, id) = 0
      <3>1. ASSUME NEW i \in 1..Len(items) PROVE items[i].id # id
        <4>1. items[i] \in FileItem
          BY <2>2, ElementOfSeq
        <4>2. items[i].id < id /\ items[i].id \in Nat /\ id \in Nat
          BY <2>4, <2>5, <4>1, ItemIs DEF IdsBelow
        <4> QED BY <4>2
      <3> QED BY <2>2, <2>3, <3>1, FirstIs
    <2>20. EditInv'
      BY <1>1, <2>18 DEF EditInv
    <2>21. ItemsKept
      <3>1. edit'.result = 1 =>
                /\ IsRead(ucReadFileData') /\ ItemsOf(ucReadFileData') = after
        BY <1>1, <2>18
      <3>2. x = [id |-> edit'.id, type |-> edit'.item.type, data |-> edit'.item.data]
        BY <2>18 DEF x
      <3>3. FirstWith(ucReadFileData, edit'.id) = 0 /\ ItemsOf(ucReadFileData) = items
        BY <2>3, <2>18, <2>19 DEF f
      <3>4. after = Append(ItemsOf(ucReadFileData), [id |-> edit'.id, type |-> edit'.item.type, data |-> edit'.item.data])
        BY <3>2, <3>3 DEF after
      <3> QED BY <2>18, <3>1, <3>3, <3>4 DEF ItemsKept
    <2> QED BY <2>20, <2>21
  <1> QED BY <1>2, <1>3

LEMMA RemoveModifyKeeps ==
    ASSUME EditInv, NEW call \in {"modify", "remove"}, NEW id \in Nat,
           NEW item, item.type = 1, item.data \in Seq(Nat), RemoveModifyItem(call, id, item)
    PROVE  EditInv' /\ ItemsKept
  <1> DEFINE f == ucReadFileData
             n == FirstWith(f, id)
             cells == SubSeq(f, 1, Starts(f)[n] - 1)
                        \o (IF call = "modify" THEN Cells(id, item) ELSE <<>>)
                        \o SubSeq(f, Starts(f)[n + 1], Last(Starts(f)))
  <1>1. /\ edit.edits < MaxEdits
        /\ IF ~ IsRead(f) THEN Fail(call, id, item, -1)
           ELSE IF n = 0 THEN Fail(call, id, item, 0)
           ELSE Write(call, id, item, Checked(cells))
        /\ ucReadFileData' = IF edit'.result = 1 THEN ucBufFileData' ELSE ucReadFileData
    BY DEF RemoveModifyItem
  <1>2. CASE ~ IsRead(f) \/ n = 0
    <2>1. PICK result \in {-1, 0} : Fail(call, id, item, result)
      BY <1>1, <1>2
    <2>2. edit'.result # 1
      BY <2>1 DEF Fail
    <2>3. ucReadFileData' \in {ucReadFileData, ucBufFileData}
      BY <1>1, <2>2
    <2> QED BY <1>1, <2>1, <2>3, FailKeeps
  <1>3. CASE IsRead(f) /\ n # 0
    <2> DEFINE e == edit.edits
    <2>1. PICK body, items, places : Holds(body, items, places) /\ IdsBelow(items, e) /\ f = Checked(body)
      BY <1>3, GoodRead DEF EditInv
    <2>2. /\ items \in Seq(FileItem) /\ body \in Seq(Nat) /\ Len(items) \in Nat /\ Len(body) \in Nat
      BY <2>1, LenProperties DEF Holds
    <2>3. Starts(f) = places /\ ItemsOf(f) = items /\ Last(places) = Len(body)
      BY <2>1, ReadBack
    <2>4. e \in Nat
      BY EditAssumption DEF EditInv
    <2>5. n \in 1..Len(items) /\ items[n].id = id
      BY <1>3, <2>2, <2>3, FirstIs
    <2>6. id < e
      <3> HIDE DEF n, e
      <3> QED BY <2>1, <2>5 DEF IdsBelow
    <2> HIDE DEF f, n, e
    <2> DEFINE x == [id |-> id, type |-> item.type, data |-> item.data]
               c == IF call = "modify" THEN 1 ELSE 0
               after == IF call = "modify" THEN ReplaceAt(items, n, x) ELSE RemoveAt(items, n)
               rest == SubSeq(f, Starts(f)[n + 1], Last(Starts(f)))
    <2>7. x \in FileItem /\ x.id = id /\ x.type = item.type /\ x.data = item.data
      BY DEF FileItem, Types
    <2> HIDE DEF x
    <2>8. Spliced(items, after, n, 1, c, x)
      <3>1. CASE call = "modify"
        BY <2>2, <2>5, <2>7, <3>1, ReplaceSpliced
      <3>2. CASE call # "modify"
        BY <2>2, <2>5, <2>7, <3>2, RemoveSpliced
      <3> QED BY <3>1, <3>2
    <2>9. (c = 1 <=> call = "modify") /\ c \in 0..1
      OBVIOUS
    <2> HIDE DEF after, c
    <2>10. Edits(body, items, places, n, 1, c, x, after)
      <3>1. n \in 1..Len(items) + 1 /\ 1 \in 0..1 /\ n + 1 <= Len(items) + 1
        BY <2>2, <2>5
      <3> QED BY <2>1, <2>7, <2>8, <2>9, <3>1 DEF Edits
    <2>11. /\ rest \in Seq(Nat) /\ Len(rest) = Len(body) - (places[n + 1] - 1)
           /\ \A i \in 1..Len(body) - (places[n + 1] - 1) : rest[i] = body[places[n + 1] - 1 + i]
      <3> DEFINE b == places[n + 1] - 1
      <3>1. b \in 0..Len(body) /\ b + 1 = places[n + 1]
        <4>1. n + 1 \in 1..Len(items) + 1 /\ n + 1 + 1 \in Nat /\ n + 1 + 1 >= 1
          BY <2>2, <2>5
        <4>2. places[n + 1] \in n + 1 + 1..Len(body)
          BY <2>1, <4>1, PlacesRise
        <4>3. \A p \in n + 1 + 1..Len(body) : p - 1 \in 0..Len(body) /\ p - 1 + 1 = p
          BY <2>2, <4>1
        <4> QED BY <4>2, <4>3
      <3>2. rest = SubSeq(f, b + 1, Len(body))
        BY <2>3, <3>1
      <3> HIDE DEF b, rest
      <3>3. f \in Seq(Nat) /\ Len(f) = Len(body) + 1 /\ \A i \in 1..Len(body) : f[i] = body[i]
        BY <2>1, <2>2, CheckedIs
      <3>4. b \in 0..Len(f) /\ Len(body) \in 0..Len(f) /\ b <= Len(body)
        BY <2>2, <3>1, <3>3
      <3>5. /\ SubSeq(f, b + 1, Len(body)) \in Seq(Nat) /\ Len(SubSeq(f, b + 1, Len(body))) = Len(body) - b
            /\ \A i \in 1..Len(body) - b : SubSeq(f, b + 1, Len(body))[i] = f[b + i]
        BY <3>3, <3>4, PieceIs
      <3>6. \A i \in 1..Len(body) - b : b + i \in 1..Len(body)
        BY <2>2, <3>1
      <3>7. /\ rest \in Seq(Nat) /\ Len(rest) = Len(body) - b
            /\ \A i \in 1..Len(body) - b : rest[i] = body[b + i]
        BY <3>2, <3>3, <3>5, <3>6
      <3> QED BY <3>7 DEF b
    <2>12. cells = SubSeq(Checked(body), 1, places[n] - 1)
                     \o (IF c = 1 THEN Cells(x.id, item) ELSE <<>>) \o rest
      <3>1. CASE call = "modify"
        BY <2>1, <2>3, <2>7, <2>9, <3>1
      <3>2. CASE call # "modify"
        BY <2>1, <2>3, <2>7, <2>9, <3>2
      <3> QED BY <3>1, <3>2
    <2> HIDE DEF cells, rest
    <2>13. Writes(body, places, n, 1, c, x, item, rest, cells)
      BY <2>7, <2>11, <2>12 DEF Writes
    <2>14. PICK newplaces : Holds(cells, after, newplaces)
      BY <2>10, <2>13, Edited
    <2>15. IdsBelow(after, e + 1)
      <3>1. e + 1 \in Nat /\ e <= e + 1 /\ x.id < e + 1
        BY <2>4, <2>6, <2>7
      <3> QED BY <2>1, <2>4, <2>10, <3>1, SplicedIds
    <2>16. Write(call, id, item, Checked(cells))
      BY <1>1, <1>3 DEF cells, f, n
    <2>17. IdsBelow(after, edit.edits + 1)
      BY <2>15 DEF e
    <2>18. /\ edit'.edits \in 0..MaxEdits /\ edit'.call = call /\ edit'.id = id /\ edit'.item = item
           /\ Good(ucBufFileData', edit'.edits) /\ Good(ucReadFileData, edit'.edits)
           /\ edit'.result = 1 =>
                  ucBufFileData' = Checked(cells) /\ IsRead(ucBufFileData') /\ ItemsOf(ucBufFileData') = after
      BY <1>1, <2>14, <2>16, <2>17, WriteKeeps
    <2>19. EditInv'
      BY <1>1, <2>18 DEF EditInv
    <2>20. ItemsKept
      <3>1. edit'.result = 1 =>
                /\ IsRead(ucReadFileData') /\ ItemsOf(ucReadFileData') = after
        BY <1>1, <2>18
      <3>2. x = [id |-> edit'.id, type |-> edit'.item.type, data |-> edit'.item.data]
        BY <2>18 DEF x
      <3>3. FirstWith(ucReadFileData, edit'.id) = n /\ ItemsOf(ucReadFileData) = items
        BY <2>3, <2>18 DEF f, n
      <3> DEFINE y == [id |-> edit'.id, type |-> edit'.item.type, data |-> edit'.item.data]
                 k == FirstWith(ucReadFileData, edit'.id)
      <3>4. CASE call = "modify"
        <4>1. edit'.call = "modify" /\ after = ReplaceAt(ItemsOf(ucReadFileData), k, y)
          BY <2>18, <3>2, <3>3, <3>4 DEF after
        <4> QED BY <3>1, <4>1 DEF ItemsKept
      <3>5. CASE call # "modify"
        <4>1. edit'.call = "remove" /\ after = RemoveAt(ItemsOf(ucReadFileData), k)
          BY <2>18, <3>3, <3>5 DEF after
        <4> QED BY <3>1, <4>1 DEF ItemsKept
      <3> QED BY <3>4, <3>5
    <2> QED BY <2>19, <2>20
  <1> QED BY <1>2, <1>3

LEMMA EditStep == EditInv /\ EditNext => EditInv' /\ ItemsKept
  <1> SUFFICES ASSUME EditInv, EditNext PROVE EditInv' /\ ItemsKept
    OBVIOUS
  <1>1. PICK size \in ItemSizes :
            LET item == [type |-> 1, data |-> [i \in 1..size |-> edit.edits + 1]]
            IN  \/ AddArray(item)
                \/ \E id \in 0..MaxEdits :
                       RemoveModifyItem("modify", id, item) \/ RemoveModifyItem("remove", id, item)
    BY Zenon DEF EditNext
  <1> DEFINE data == [i \in 1..size |-> edit.edits + 1]
             item == [type |-> 1, data |-> data]
  <1>2. data \in Seq(Nat)
    <2>1. size \in Nat /\ edit.edits + 1 \in Nat
      BY EditAssumption DEF EditInv
    <2>2. data \in [1..size -> Nat]
      BY <2>1
    <2> HIDE DEF data
    <2> QED BY <2>1, <2>2, SequenceOf
  <1>3. item.type = 1 /\ item.data \in Seq(Nat)
    BY <1>2
  <1>4. \/ AddArray(item)
        \/ \E id \in 0..MaxEdits :
               RemoveModifyItem("modify", id, item) \/ RemoveModifyItem("remove", id, item)
    BY <1>1
  <1> HIDE DEF item
  <1>5. CASE AddArray(item)
    BY <1>3, <1>5, AddKeeps
  <1>6. ASSUME NEW id \in 0..MaxEdits,
               RemoveModifyItem("modify", id, item) \/ RemoveModifyItem("remove", id, item)
        PROVE  EditInv' /\ ItemsKept
    <2>1. id \in Nat /\ "modify" \in {"modify", "remove"} /\ "remove" \in {"modify", "remove"}
      BY EditAssumption
    <2> QED BY <1>3, <1>6, <2>1, RemoveModifyKeeps
  <1> QED BY <1>4, <1>5, <1>6

(* An edit that reports success leaves a file that is read again, in which   *)
(* the other items are as they were and in their order, a changed item keeps *)
(* its ID and its place and a new one comes last with an ID of its own:      *)
(* for buffers and items of every size, and as many edits as there are IDs.  *)
THEOREM EditCorrect == Spec => EditKeepsItems
  <1>1. Init => EditInv
    <2> SUFFICES ASSUME Init PROVE EditInv
      OBVIOUS
    <2>1. edit.edits = 0 /\ ucReadFileData = NewFile /\ ucBufFileData = NewFile
      BY DEF Init, EditInit
    <2>2. 0 \in 0..MaxEdits
      BY EditAssumption
    <2> QED BY <2>1, <2>2, NewGood DEF EditInv
  <1>2. [Next]_vars => [EditNext]_editVars
    BY DEF Next, Idle, vars, editVars
  <1>3. EditInv /\ UNCHANGED editVars => EditInv' /\ ItemsKept
    <2> SUFFICES ASSUME EditInv, UNCHANGED editVars PROVE EditInv' /\ ItemsKept
      OBVIOUS
    <2>1. edit' = edit /\ ucReadFileData' = ucReadFileData /\ ucBufFileData' = ucBufFileData
      BY DEF editVars
    <2>2. edit.edits \in Nat
      BY EditAssumption DEF EditInv
    <2>3. ~ (edit'.edits > edit.edits)
      BY <2>1, <2>2
    <2>4. EditInv'
      BY <2>1 DEF EditInv
    <2> QED BY <2>3, <2>4 DEF ItemsKept
  <1>4. EditInv /\ [Next]_vars => EditInv' /\ ItemsKept
    BY <1>2, <1>3, EditStep
  <1>5. ItemsKept => [ItemsKept]_editVars
    OBVIOUS
  <1>6. Spec => [][ItemsKept]_editVars
    BY <1>1, <1>4, <1>5, PTL DEF Spec
  <1>7. [][ItemsKept]_editVars => EditKeepsItems
    BY DEF EditKeepsItems, ItemsKept
  <1> QED BY <1>6, <1>7
=============================================================================

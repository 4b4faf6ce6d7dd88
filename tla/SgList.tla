------------------------------- MODULE SgList -------------------------------
(***************************************************************************)
(* The keyed list of SgListLib.c: an array of items sorted by key, found   *)
(* by binary search.  Keys are unsigned integers that wrap: KeyCount       *)
(* stands for 2^32.                                                        *)
(***************************************************************************)
EXTENDS Integers, Sequences, SequencesExt

CONSTANTS
    KeyCount,      \* keys are 0 .. KeyCount - 1
    ListItems,     \* what the caller stores
    Null,          \* the null pointer
    uiCapacity     \* uiDataHeapSize / sizeof(str_SgListItem)

ASSUME ListAssumption == KeyCount \in Nat \ {0} /\ uiCapacity \in Nat

VARIABLES
    pxItems,       \* the items in use, uiCount of them
    listCall,      \* the last call: which, with which key
    listAnswer     \* what it returned: index, key, item

listVars == <<pxItems, listCall, listAnswer>>

Keys == 0..KeyCount - 1
uiCount == Len(pxItems)
Key(i) == pxItems[i + 1].uiKey        \* i counts from 0 as in the code
Item(i) == pxItems[i + 1].pvItem

ListInit ==
    /\ pxItems = <<>> /\ listCall = <<"none", 0>>
    /\ listAnswer = [index |-> -1, key |-> 0, item |-> Null]

Error == listAnswer' = [index |-> -1, key |-> 0, item |-> Null] /\ UNCHANGED pxItems
Return(i) == listAnswer' = [index |-> i, key |-> Key(i), item |-> Item(i)] /\ UNCHANGED pxItems

-----------------------------------------------------------------------------
(* The bisection of iBinarySearch, GetNext and GetNearest: where the key is, *)
(* or else where it would be; nothing when it comes before the first one.    *)
Search(uiKey) ==
    LET within[p \in (0..uiCount) \X (0..uiCount - 1)] ==
            LET l == p[1]
                r == p[2]
                mid == (l + r) \div 2
            IN  IF l > r THEN l
                ELSE IF uiKey = Key(mid) THEN mid
                ELSE IF uiKey > Key(mid) THEN within[<<mid + 1, r>>]
                ELSE IF mid = 0 THEN -1
                ELSE within[<<l, mid - 1>>]
    IN  IF uiCount = 0 THEN -1 ELSE within[<<0, uiCount - 1>>]

iBinarySearch(uiKey) ==
    LET i == Search(uiKey)
    IN  IF i \in 0..uiCount - 1 /\ Key(i) = uiKey THEN i ELSE -1

(* iSgListAddItem: the key after the last one, unless that is zero again. *)
AddItem(v) ==
    LET k == IF uiCount = 0 THEN 0 ELSE (Key(uiCount - 1) + 1) % KeyCount
    IN  IF uiCount >= uiCapacity \/ (uiCount > 0 /\ k = 0) THEN Error
        ELSE /\ pxItems' = Append(pxItems, [uiKey |-> k, pvItem |-> v])
             /\ listAnswer' = [index |-> uiCount, key |-> k, item |-> v]

(* Where a new key goes: behind the last smaller one. *)
Place(uiKey) ==
    LET from[n \in 0..uiCount] == IF n = 0 \/ uiKey > Key(n - 1) THEN n ELSE from[n - 1]
    IN  from[uiCount]

(* iSgListPutItem: a full list is refused before the key is looked for. *)
PutItem(uiKey, v) ==
    LET i == iBinarySearch(uiKey)
        n == Place(uiKey)
    IN  IF uiCount >= uiCapacity THEN Error
        ELSE IF i >= 0
        THEN /\ pxItems' = [pxItems EXCEPT ![i + 1] = [uiKey |-> Key(i), pvItem |-> v]]
             /\ listAnswer' = [index |-> i, key |-> uiKey, item |-> v]
        ELSE /\ pxItems' = InsertAt(pxItems, n + 1, [uiKey |-> uiKey, pvItem |-> v])
             /\ listAnswer' = [index |-> n, key |-> uiKey, item |-> v]

GetItem(uiKey) ==
    LET i == iBinarySearch(uiKey)
    IN  IF i >= 0 /\ Item(i) # Null THEN Return(i) ELSE Error

(* Mutant: the item at the remembered index is taken for the key's. *)
RepeatWithoutKey(uiKey, iPreviousResult) ==
    IF iPreviousResult \in 0..uiCount - 1 /\ Item(iPreviousResult) # Null
    THEN Return(iPreviousResult)
    ELSE GetItem(uiKey)

(* iSgListRepeatGetItem: the index of an earlier call is tried first. *)
RepeatGetItem(uiKey, iPreviousResult) ==
    IF iPreviousResult \in 0..uiCount - 1 /\ Key(iPreviousResult) = uiKey
       /\ Item(iPreviousResult) # Null
    THEN Return(iPreviousResult)
    ELSE GetItem(uiKey)

GetFirstItem == IF uiCount = 0 THEN Error ELSE Return(0)

GetFrom(uiKey) ==
    LET i == Search(uiKey) IN IF i \in 0..uiCount - 1 THEN Return(i) ELSE Error

(* iSgListGetNextItem looks for the key after the one given. *)
GetNextItem(uiKey) == GetFrom((uiKey + 1) % KeyCount)

GetNearestItem(uiKey) == IF uiKey = 0 THEN GetFirstItem ELSE GetFrom(uiKey)

DeleteItem(uiKey) ==
    LET i == iBinarySearch(uiKey)
    IN  IF i < 0 THEN Error
        ELSE /\ pxItems' = RemoveAt(pxItems, i + 1)
             /\ listAnswer' = [index |-> i, key |-> uiKey, item |-> Item(i)]

Call(name, k) == listCall' = <<name, k>>

ListNext ==
    \/ GetFirstItem /\ Call("first", 0)
    \/ \E v \in ListItems \cup {Null} :
           \/ AddItem(v) /\ Call("add", 0)
           \/ \E k \in Keys : PutItem(k, v) /\ Call("put", k)
    \/ \E k \in Keys :
           \/ GetItem(k) /\ Call("get", k)
           \/ \E i \in -1..uiCapacity : RepeatGetItem(k, i) /\ Call("get", k)
           \/ GetNextItem(k) /\ Call("next", k)
           \/ GetNearestItem(k) /\ Call("nearest", k)
           \/ DeleteItem(k) /\ Call("delete", k)

-----------------------------------------------------------------------------
Stored == {Key(i) : i \in 0..uiCount - 1}

Map == [k \in Stored |-> (CHOOSE n \in ToSet(pxItems) : n.uiKey = k).pvItem]

MapPromise == INSTANCE KeyedMap WITH
    Keys <- Keys, Items <- ListItems, Null <- Null, Capacity <- uiCapacity,
    map <- Map, call <- listCall, answer <- listAnswer

(* Through every sequence of calls the sorted array and its bisections are   *)
(* a map: a read by key, first, next or nearest finds what the map has, with *)
(* the right index, and an index remembered from before an insertion or a    *)
(* removal never leads to another key's item.  (Next and nearest refuse a    *)
(* key before the first one, in the map as in the code, although the         *)
(* comment of SgListLib.c:181 promises the nearest item.)                    *)
ListImplemented == MapPromise!Spec
=============================================================================

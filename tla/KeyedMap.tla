------------------------------ MODULE KeyedMap ------------------------------
(***************************************************************************)
(* What a list of SgListLib.h promises: a map from keys to items that is   *)
(* read by key, or in the order of the keys.  The index a call returns is  *)
(* the number of smaller keys, and -1 says that it found or did nothing.   *)
(***************************************************************************)
EXTENDS Integers, FiniteSets

CONSTANTS Keys, Items, Null, Capacity

VARIABLES
    map,
    call,      \* the last call: which, with which key
    answer     \* what it returned

vars == <<map, call, answer>>

Stored == DOMAIN map
Index(k) == Cardinality({j \in Stored : j < k})
Refused == [index |-> -1, key |-> 0, item |-> Null]
Answer(k) == [index |-> Index(k), key |-> k, item |-> map[k]]
Least(S) == CHOOSE k \in S : \A j \in S : k <= j
Greatest(S) == CHOOSE k \in S : \A j \in S : j <= k
Full == Cardinality(Stored) >= Capacity

Init == map = [k \in {} |-> Null] /\ call = <<"none", 0>> /\ answer = Refused

Refuse == answer' = Refused /\ UNCHANGED map

Store(k, v) ==
    /\ map' = [j \in Stored \cup {k} |-> IF j = k THEN v ELSE map[j]]
    /\ answer' = [index |-> Index(k), key |-> k, item |-> v]

(* A new key follows the greatest one; the last key of all has no successor. *)
Add(v) ==
    LET k == IF Stored = {} THEN 0 ELSE Greatest(Stored) + 1
    IN  IF Full \/ k \notin Keys THEN Refuse ELSE Store(k, v)

(* A full list takes nothing, not even another item for a key it has. *)
Put(k, v) == IF Full THEN Refuse ELSE Store(k, v)

Read(k) == answer' = Answer(k) /\ UNCHANGED map

(* A key that maps to no item is as good as absent. *)
Get(k) == IF k \in Stored /\ map[k] # Null THEN Read(k) ELSE Refuse

First == IF Stored = {} THEN Refuse ELSE Read(Least(Stored))

(* The least key from k on.  A key that comes before all others is refused,  *)
(* although the list has one to offer: this is what the code gives, and less *)
(* than the comment of its search promises ("Get item by key or nearest to   *)
(* it", SgListLib.c:181).  A caller may count on no more than this.          *)
BeforeFirst(k) == \A j \in Stored : k < j
AfterLast(k)   == \A j \in Stored : j < k

From(k) ==
    IF BeforeFirst(k) \/ AfterLast(k) THEN Refuse
    ELSE Read(Least({j \in Stored : j >= k}))

Following(k) == From(IF k + 1 \in Keys THEN k + 1 ELSE 0)

Nearest(k) == IF k = 0 THEN First ELSE From(k)

Delete(k) ==
    IF k \in Stored
    THEN /\ map' = [j \in Stored \ {k} |-> map[j]]
         /\ answer' = Answer(k)
    ELSE Refuse

Called(name, k) == call' = <<name, k>>

Next ==
    \/ First /\ Called("first", 0)
    \/ \E v \in Items \cup {Null} :
           \/ Add(v) /\ Called("add", 0)
           \/ \E k \in Keys : Put(k, v) /\ Called("put", k)
    \/ \E k \in Keys :
           \/ Get(k) /\ Called("get", k)
           \/ Following(k) /\ Called("next", k)
           \/ Nearest(k) /\ Called("nearest", k)
           \/ Delete(k) /\ Called("delete", k)

Spec == Init /\ [][Next]_vars
=============================================================================

-------------------------------- MODULE Fifo --------------------------------
(***************************************************************************)
(* What a queue of SgQueue.h promises: items leave in the order in which   *)
(* they came, no more than Capacity are held, and an excluding queue holds *)
(* no item twice.                                                          *)
(***************************************************************************)
EXTENDS Naturals, Sequences

CONSTANTS Items, Capacity

VARIABLES contents, excluding, result, offered, received

vars == <<contents, excluding, result, offered, received>>

Holds(x) == \E k \in 1..Len(contents) : contents[k] = x

Init == contents = <<>> /\ ~excluding /\ result = "none" /\ offered \in Items /\ received \in Items

Create ==
    /\ result = "none" /\ result' = "created"
    /\ excluding' \in BOOLEAN
    /\ UNCHANGED <<contents, offered, received>>

Put(x) ==
    /\ result # "none" /\ offered' = x
    /\ \/ Len(contents) = Capacity /\ result' = "full" /\ UNCHANGED contents
       \/ Len(contents) < Capacity /\ excluding /\ Holds(x)
          /\ result' = "exists" /\ UNCHANGED contents
       \/ Len(contents) < Capacity /\ ~(excluding /\ Holds(x))
          /\ result' = "success" /\ contents' = Append(contents, x)
    /\ UNCHANGED <<excluding, received>>

Receive ==
    /\ result # "none"
    /\ \/ contents = <<>> /\ result' = "empty" /\ UNCHANGED <<contents, received>>
       \/ contents # <<>> /\ result' = "success"
          /\ received' = Head(contents) /\ contents' = Tail(contents)
    /\ UNCHANGED <<excluding, offered>>

Next == Create \/ Receive \/ \E x \in Items : Put(x)

Spec == Init /\ [][Next]_vars
=============================================================================

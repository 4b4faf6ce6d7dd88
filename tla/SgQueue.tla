------------------------------ MODULE SgQueue -------------------------------
(***************************************************************************)
(* The ring buffer of SgQueue.c: a front position where items are put, an  *)
(* end position where they are received, and a count.  A queue may exclude *)
(* items that it already holds.  The heap is the caller's and holds        *)
(* anything at first.                                                      *)
(***************************************************************************)
EXTENDS Naturals, Sequences

CONSTANTS
    QueueItems,        \* what the caller puts in
    uiItemsMaxCount    \* uiDataHeapSize / uiItemSize

ASSUME QueueAssumption == uiItemsMaxCount \in Nat \ {0} /\ QueueItems # {}

VARIABLES
    pcDataHeap,        \* what lies at each position
    uiFrontPosition, uiEndPosition, uiItemsCount, bIsExcluding,
    queueResult,       \* en_SgQueueResult of the last call
    pvSrcItem,         \* what it put
    pvDstItem          \* where the caller receives

queueVars == <<pcDataHeap, uiFrontPosition, uiEndPosition, uiItemsCount, bIsExcluding,
               queueResult, pvSrcItem, pvDstItem>>

QueueInit ==
    /\ pcDataHeap = [p \in 0..uiItemsMaxCount - 1 |-> CHOOSE x \in QueueItems : TRUE]
    /\ uiFrontPosition = 0 /\ uiEndPosition = 0 /\ uiItemsCount = 0
    /\ bIsExcluding = FALSE
    /\ queueResult = "none"
    /\ pvSrcItem = (CHOOSE x \in QueueItems : TRUE) /\ pvDstItem = pvSrcItem

(* iSgQueueInitQueue and iSgQueueInitExludingQueue: the heap is left as it is. *)
InitQueue ==
    /\ queueResult = "none" /\ queueResult' = "created"
    /\ pcDataHeap' \in [0..uiItemsMaxCount - 1 -> QueueItems]
    /\ uiFrontPosition' = 0 /\ uiEndPosition' = 0 /\ uiItemsCount' = 0
    /\ bIsExcluding' \in BOOLEAN
    /\ UNCHANGED <<pvSrcItem, pvDstItem>>

(* Mutant: the position wraps one place early. *)
EarlyWrap(p) == IF p + 2 >= uiItemsMaxCount THEN 0 ELSE p + 1

Wrap(p) == IF p + 1 >= uiItemsMaxCount THEN 0 ELSE p + 1

(* The search of an excluding queue runs from the end to the front position. *)
QueueHolds(x) ==
    LET from[p \in 0..uiItemsMaxCount - 1] ==
            p # uiFrontPosition /\ (pcDataHeap[p] = x \/ from[Wrap(p)])
    IN  from[uiEndPosition]

Refused(x) == bIsExcluding /\ QueueHolds(x)

PutToFront(x) ==
    /\ queueResult # "none" /\ pvSrcItem' = x
    /\ \/ /\ uiItemsCount >= uiItemsMaxCount
          /\ queueResult' = "full"
          /\ UNCHANGED <<pcDataHeap, uiFrontPosition, uiItemsCount>>
       \/ /\ uiItemsCount < uiItemsMaxCount /\ Refused(x)
          /\ queueResult' = "exists"
          /\ UNCHANGED <<pcDataHeap, uiFrontPosition, uiItemsCount>>
       \/ /\ uiItemsCount < uiItemsMaxCount /\ ~Refused(x)
          /\ queueResult' = "success"
          /\ pcDataHeap' = [pcDataHeap EXCEPT ![uiFrontPosition] = x]
          /\ uiFrontPosition' = Wrap(uiFrontPosition)
          /\ uiItemsCount' = uiItemsCount + 1
    /\ UNCHANGED <<uiEndPosition, bIsExcluding, pvDstItem>>

ReceiveFromEnd ==
    /\ queueResult # "none"
    /\ \/ /\ uiItemsCount = 0
          /\ queueResult' = "empty"
          /\ UNCHANGED <<uiEndPosition, uiItemsCount, pvDstItem>>
       \/ /\ uiItemsCount > 0
          /\ queueResult' = "success"
          /\ pvDstItem' = pcDataHeap[uiEndPosition]
          /\ uiEndPosition' = Wrap(uiEndPosition)
          /\ uiItemsCount' = uiItemsCount - 1
    /\ UNCHANGED <<pcDataHeap, uiFrontPosition, bIsExcluding, pvSrcItem>>

QueueNext == InitQueue \/ ReceiveFromEnd \/ \E x \in QueueItems : PutToFront(x)

-----------------------------------------------------------------------------
(* The items held, from the end position on. *)
Contents ==
    [k \in 1..uiItemsCount |-> pcDataHeap[(uiEndPosition + k - 1) % uiItemsMaxCount]]

FifoPromise == INSTANCE Fifo WITH
    Items <- QueueItems, Capacity <- uiItemsMaxCount, contents <- Contents,
    excluding <- bIsExcluding, result <- queueResult, offered <- pvSrcItem, received <- pvDstItem

(* The ring buffer is a first-in first-out queue of uiItemsMaxCount items    *)
(* through every wrap of the two positions, also when it is full and front   *)
(* and end are the same place, and an excluding queue never holds an item    *)
(* twice.                                                                    *)
QueueImplemented == FifoPromise!Spec
=============================================================================

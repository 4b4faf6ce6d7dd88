------------------------- MODULE TerminalInfoProof -------------------------
(***************************************************************************)
(* The safety of a connection's terminal cache, for every set of terminals *)
(* and sessions and any number of requests.  The inductive invariant says  *)
(* what the two flags of ThRequestInfo, the thread handle and the state of *)
(* the thread mean to each other at every place of the handler, and what   *)
(* the poller's copies of the list's length and of an item's place are     *)
(* worth while it holds InfoMutex.                                         *)
(***************************************************************************)
EXTENDS TerminalInfo, TLAPS

(* The handle is joinable exactly when FTHID is set, but for the time       *)
(* between thStop and the join; without a joinable handle nothing runs.     *)
ThreadInv ==
    /\ pc = "connect" => tpc = "none" /\ ~ joinable /\ ~ FTHID
    /\ ~ joinable => tpc \in {"none", "ended"}
    /\ pc \notin {"join", "gone"} => (joinable = FTHID)
    /\ pc \in {"join", "clear", "gone"} => ~ FTHID

(* A pass over the list: what the poller has read stays within the list.    *)
PassInv ==
    InfoMutex =>
        /\ i <= count /\ count <= Count
        /\ tpc # "item" => Terminal \in {i, Moved}

IInv == TypeOK /\ ThreadInv /\ PassInv /\ ListedOnce

-----------------------------------------------------------------------------
(* The list.                                                                *)

(* A step of the list that keeps every entry's terminal where it is. *)
Grows == \A n \in 1 .. Count : n \in DOMAIN terminalInfoList' /\ terminalInfoList'[n].ID = terminalInfoList[n].ID

(* Storing an answer changes no terminal and not the length. *)
LEMMA StoreKeeps ==
    ASSUME NEW list \in Seq(Items), NEW n \in DOMAIN list, NEW info \in Terminals \cup {None}
    PROVE  LET new == [list EXCEPT ![n].rs_info = info]
           IN  /\ new \in Seq(Items)
               /\ Len(new) = Len(list)
               /\ \A m \in 1 .. Len(list) : new[m].ID = list[m].ID
  <1> DEFINE item == [list[n] EXCEPT !.rs_info = info]
  <1>1. [list EXCEPT ![n].rs_info = info] = [list EXCEPT ![n] = item]
    BY Zenon
  <1>2. list[n] \in Items
    OBVIOUS
  <1>3. item \in Items /\ item.ID = list[n].ID
    BY <1>2, Zenon DEF Items
  <1> HIDE DEF item
  <1> QED BY <1>1, <1>3

(* Add keeps every entry where it is and lists a terminal once, and the     *)
(* reference of the poller stays or is known to have moved.                 *)
LEMMA AddKeeps ==
    ASSUME IInv, NEW t \in Terminals, Add(t)
    PROVE  /\ terminalInfoList' \in Seq(Items)
           /\ capacity' \in Nat
           /\ Count <= Count'
           /\ Grows
           /\ ListedOnce'
           /\ Terminal' \in {Terminal, Moved}
  <1> USE DEF IInv, TypeOK, ListedOnce, Count, Grows
  <1>1. CASE \E n \in 1 .. Count : terminalInfoList[n].ID = t
    BY <1>1 DEF Add
  <1>2. CASE ~ \E n \in 1 .. Count : terminalInfoList[n].ID = t
    <2> DEFINE new == [ID |-> t, rs_info |-> None]
    <2>1. terminalInfoList' = Append(terminalInfoList, new)
      BY <1>2 DEF Add
    <2>2. new \in Items
      BY DEF Items
    <2>3. /\ terminalInfoList' \in Seq(Items)
          /\ Len(terminalInfoList') = Len(terminalInfoList) + 1
          /\ \A n \in 1 .. Len(terminalInfoList) : terminalInfoList'[n] = terminalInfoList[n]
          /\ terminalInfoList'[Len(terminalInfoList) + 1] = new
      BY <2>1, <2>2
    <2>4. ListedOnce'
      <3> SUFFICES ASSUME NEW m \in 1 .. Count', NEW n \in 1 .. Count',
                          terminalInfoList'[m].ID = terminalInfoList'[n].ID
                   PROVE  m = n
        OBVIOUS
      <3> HIDE DEF new
      <3>1. new.ID = t
        BY DEF new
      <3> QED BY <1>2, <2>3, <3>1
    <2>5. capacity' \in Nat /\ Terminal' \in {Terminal, Moved}
      BY <1>2 DEF Add
    <2> QED BY <2>3, <2>4, <2>5
  <1> QED BY <1>1, <1>2

-----------------------------------------------------------------------------
(* One lemma for each actor: its steps preserve the inductive invariant and *)
(* lose no entry of the list but in Clear.                                  *)

LEMMA ServeInv == IInv /\ Serve => IInv' /\ (pc = "clear" \/ Grows)
  <1> SUFFICES ASSUME IInv, Serve PROVE IInv' /\ (pc = "clear" \/ Grows)
    OBVIOUS
  <1> USE DEF IInv, TypeOK, ThreadInv, PassInv, ListedOnce, Grows, InfoMutex, Count,
              listVars, workVars, flagVars, pollVars
  <1>1. CASE Connect
    <2>1. TypeOK'
      BY <1>1 DEF Connect, thStart
    <2>2. ThreadInv'
      BY <1>1 DEF Connect, thStart
    <2>3. PassInv'
      BY <1>1 DEF Connect, thStart
    <2>4. ListedOnce' /\ Grows
      BY <1>1 DEF Connect, thStart
    <2> QED BY <2>1, <2>2, <2>3, <2>4
  <1>2. CASE Start
    <2>1. TypeOK'
      BY <1>2 DEF Start, thStart
    <2>2. ThreadInv'
      BY <1>2 DEF Start, thStart
    <2>3. PassInv'
      BY <1>2 DEF Start, thStart
    <2>4. ListedOnce' /\ Grows
      BY <1>2 DEF Start, thStart
    <2> QED BY <2>1, <2>2, <2>3, <2>4
  <1>3. CASE Stop
    <2>1. TypeOK'
      BY <1>3 DEF Stop, thStop
    <2>2. ThreadInv'
      BY <1>3 DEF Stop, thStop
    <2>3. PassInv'
      BY <1>3 DEF Stop, thStop
    <2>4. ListedOnce' /\ Grows
      BY <1>3 DEF Stop, thStop
    <2> QED BY <2>1, <2>2, <2>3, <2>4
  <1>4. CASE thWaitForCompletion
    <2>1. TypeOK'
      BY <1>4 DEF thWaitForCompletion
    <2>2. ThreadInv'
      BY <1>4 DEF thWaitForCompletion
    <2>3. PassInv'
      BY <1>4 DEF thWaitForCompletion
    <2>4. ListedOnce' /\ Grows
      BY <1>4 DEF thWaitForCompletion
    <2> QED BY <2>1, <2>2, <2>3, <2>4
  <1>5. CASE Clear
    BY <1>5 DEF Clear
  <1>6. CASE LoadRS
    BY <1>6 DEF LoadRS
  <1>7. CASE setCurrentSessionRS
    BY <1>7 DEF setCurrentSessionRS
  <1>8. CASE SendItems
    BY <1>8 DEF SendItems, GetTerminalInfoList
  <1>9. CASE Close
    <2>1. TypeOK'
      BY <1>9 DEF Close, thStop
    <2>2. ThreadInv'
      BY <1>9 DEF Close, thStop
    <2>3. PassInv'
      BY <1>9 DEF Close, thStop
    <2>4. ListedOnce' /\ Grows
      BY <1>9 DEF Close, thStop
    <2> QED BY <2>1, <2>2, <2>3, <2>4
  <1> QED BY <1>1, <1>2, <1>3, <1>4, <1>5, <1>6, <1>7, <1>8, <1>9 DEF Serve

LEMMA RequestInv == IInv /\ (Request \/ Disconnect) => IInv' /\ Grows
  <1> SUFFICES ASSUME IInv, Request \/ Disconnect PROVE IInv' /\ Grows
    OBVIOUS
  <1> USE MaxRequestsAssumption
  <1> USE DEF IInv, TypeOK, ThreadInv, PassInv, ListedOnce, Grows, InfoMutex, Count,
              listVars, workVars, flagVars, pollVars, Receive
  <1>1. CASE StartSession
    BY <1>1 DEF StartSession
  <1>2. CASE StopSession
    BY <1>2 DEF StopSession, GetTerminalInfoList
  <1>3. CASE ListDS
    BY <1>3 DEF ListDS, GetTerminalInfoList
  <1>4. CASE ListRS
    BY <1>4 DEF ListRS
  <1>5. CASE DeleteRS
    BY <1>5 DEF DeleteRS
  <1>6. CASE ListDHS
    BY <1>6 DEF ListDHS
  <1>7. CASE \E s \in Sessions : AddRS(s)
    BY <1>7 DEF AddRS, addRecord
  <1>8. CASE Disconnect
    BY <1>8 DEF Disconnect
  <1> QED BY <1>1, <1>2, <1>3, <1>4, <1>5, <1>6, <1>7, <1>8 DEF Request

LEMMA WorkerInv == IInv /\ (OtherClient \/ Worker) => IInv' /\ Grows
  <1> SUFFICES ASSUME IInv, OtherClient \/ Worker PROVE IInv' /\ Grows
    OBVIOUS
  <1>1. CASE OtherClient
    BY <1>1 DEF OtherClient, addRecord, IInv, TypeOK, ThreadInv, PassInv, ListedOnce, Grows,
                InfoMutex, Count, listVars, workVars, flagVars, pollVars
  <1>2. CASE vResponseReceived
    BY <1>2 DEF vResponseReceived, IInv, TypeOK, ThreadInv, PassInv, ListedOnce, Grows,
                InfoMutex, Count, clientVars, listVars, flagVars, pollVars
  <1>3. ASSUME NEW t \in Terminals, AddReceived(t)
        PROVE  IInv' /\ Grows
    <2>1. /\ terminalInfoList' \in Seq(Items)
          /\ capacity' \in Nat
          /\ Count <= Count'
          /\ Grows
          /\ ListedOnce'
          /\ Terminal' \in {Terminal, Moved}
      BY <1>3, AddKeeps DEF AddReceived
    <2>2. TypeOK'
      BY <1>3, <2>1 DEF AddReceived, IInv, TypeOK, clientVars, flagVars
    <2>3. ThreadInv'
      BY <1>3 DEF AddReceived, IInv, ThreadInv, clientVars, flagVars
    <2>4. PassInv'
      BY <1>3, <2>1 DEF AddReceived, IInv, TypeOK, PassInv, InfoMutex, Count
    <2> QED BY <2>1, <2>2, <2>3, <2>4 DEF IInv
  <1> QED BY <1>1, <1>2, <1>3 DEF Worker

LEMMA PollInv == IInv /\ StartExecute => IInv' /\ Grows
  <1> SUFFICES ASSUME IInv, StartExecute PROVE IInv' /\ Grows
    OBVIOUS
  <1> USE DEF IInv, TypeOK, ThreadInv, PassInv, ListedOnce, Grows, InfoMutex, Count,
              clientVars, listVars, workVars, flagVars
  <1>1. CASE CheckTerminated
    BY <1>1 DEF CheckTerminated
  <1>2. CASE Wake
    BY <1>2 DEF Wake
  <1>3. CASE GetItem
    <2>1. i \in DOMAIN terminalInfoList
      BY <1>3 DEF GetItem
    <2>2. terminalInfoList[i] \in Items
      BY <2>1
    <2>3. terminalInfoList[i].ID \in Terminals
      BY <2>2, Zenon DEF Items
    <2> QED BY <1>3, <2>1, <2>3 DEF GetItem
  <1>4. CASE Execute
    BY <1>4 DEF Execute
  <1>5. CASE Copy
    <2>1. CASE Terminal = Moved
      BY <1>5, <2>1 DEF Copy, NoMoreItems
    <2>2. CASE Terminal # Moved
      <3>1. Terminal \in DOMAIN terminalInfoList
        BY <1>5, <2>2 DEF Copy
      <3>2. terminalInfoList' = [terminalInfoList EXCEPT ![Terminal].rs_info = answer]
        BY <1>5, <2>2 DEF Copy
      <3>3. /\ terminalInfoList' \in Seq(Items)
            /\ Len(terminalInfoList') = Len(terminalInfoList)
            /\ \A m \in 1 .. Len(terminalInfoList) :
                   terminalInfoList'[m].ID = terminalInfoList[m].ID
        BY <3>1, <3>2, StoreKeeps
      <3>4. TypeOK'
        BY <1>5, <3>3 DEF Copy, NoMoreItems
      <3>5. ThreadInv'
        BY <1>5 DEF Copy
      <3>6. PassInv'
        BY <1>5, <3>3 DEF Copy, NoMoreItems
      <3>7. ListedOnce' /\ Grows
        BY <3>3
      <3> QED BY <3>4, <3>5, <3>6, <3>7
    <2> QED BY <2>1, <2>2
  <1> QED BY <1>1, <1>2, <1>3, <1>4, <1>5 DEF StartExecute

LEMMA InitInv == Init => IInv
  <1> SUFFICES ASSUME Init PROVE IInv
    OBVIOUS
  <1>1. TypeOK
    <2>1. terminalInfoList \in Seq(Items)
      BY DEF Init
    <2>2. requests \in 0 .. MaxRequests
      BY MaxRequestsAssumption DEF Init
    <2>3. /\ firstRecord \in Sessions \cup {None} /\ xSessionRS \in Sessions \cup {None}
          /\ infoSession \in Sessions \cup {None}
          /\ TerminalID \in Terminals \cup {None} /\ answer \in Terminals \cup {None}
          /\ received \in SUBSET Terminals
      BY DEF Init
    <2>4. /\ created \in BOOLEAN /\ Terminated \in BOOLEAN /\ FTHID \in BOOLEAN
          /\ joinable \in BOOLEAN /\ mtx \in BOOLEAN
      BY DEF Init
    <2>5. /\ capacity \in Nat /\ listTasks \in Nat
          /\ i \in Nat \ {0} /\ count \in Nat
          /\ Terminal \in Nat \cup {Moved}
      BY DEF Init
    <2>6. /\ pc \in {"connect", "idle", "start", "stop", "join", "clear", "added",
                     "setRS", "read", "close", "gone"}
          /\ tpc \in {"none", "head", "sleep", "item", "exchange", "copy", "ended"}
      BY DEF Init
    <2> QED BY <2>1, <2>2, <2>3, <2>4, <2>5, <2>6 DEF TypeOK
  <1>2. ThreadInv
    BY DEF Init, ThreadInv
  <1>3. PassInv
    BY DEF Init, PassInv, InfoMutex
  <1>4. ListedOnce
    BY DEF Init, ListedOnce, Count
  <1> QED BY <1>1, <1>2, <1>3, <1>4 DEF IInv

LEMMA StepInv == IInv /\ [Next]_vars => IInv'
  <1>1. CASE Next
    BY <1>1, ServeInv, RequestInv, WorkerInv, PollInv DEF Next
  <1>2. CASE UNCHANGED vars
    BY <1>2 DEF vars, clientVars, listVars, workVars, flagVars, pollVars, IInv, TypeOK,
                ThreadInv, PassInv, ListedOnce, InfoMutex, Count
  <1> QED BY <1>1, <1>2

THEOREM Invariance == Spec => []IInv
  BY InitInv, StepInv, PTL DEF Spec

-----------------------------------------------------------------------------
(* Every variable keeps its type, the vector's references included. *)
THEOREM TypeCorrect == Spec => []TypeOK
  BY Invariance, PTL DEF IInv

(* The poller asks getItem for no index past the end, although workers add  *)
(* terminals and the client's thread clears the list while a pass is        *)
(* waiting for the relay server.                                            *)
THEOREM RangeCorrect == Spec => []ItemInRange
  <1>1. IInv => ItemInRange
    BY DEF IInv, TypeOK, PassInv, ItemInRange, InfoMutex, Count
  <1> QED BY <1>1, Invariance, PTL

(* thStart never gives a handle that is still joinable a new thread. *)
THEOREM StartCorrect == Spec => []StartSafe
  <1>1. IInv => StartSafe
    BY DEF IInv, TypeOK, ThreadInv, StartSafe
  <1> QED BY <1>1, Invariance, PTL

(* However many workers bring it, a terminal is listed once. *)
THEOREM ListedCorrect == Spec => []ListedOnce
  BY Invariance, PTL DEF IInv

(* Until a session is stopped, no entry of the cache is lost or moves. *)
THEOREM IndicesCorrect == Spec => IndicesKept
  <1>1. IInv /\ [Next]_vars
            => [pc = "clear" \/ \A n \in 1 .. Count :
                   n \in DOMAIN terminalInfoList'
                   /\ terminalInfoList'[n].ID = terminalInfoList[n].ID]_vars
    BY ServeInv, RequestInv, WorkerInv, PollInv DEF Next, Grows
  <1> QED BY <1>1, Invariance, PTL DEF Spec, IndicesKept
=============================================================================

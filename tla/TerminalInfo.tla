---------------------------- MODULE TerminalInfo ----------------------------
(***************************************************************************)
(* The terminal cache of one client connection: the list of terminals      *)
(* (Terminal_Info_List.cpp), filled by the workers that fetch it from the  *)
(* diagnostic server (cmdTaskTerminalListDS.cpp), the thread that asks the *)
(* relay server about every listed terminal (ThRequestInfo.cpp), and the   *)
(* client's requests that start and stop that thread, give it a session    *)
(* and read the cache (thServer2.cpp).  One handler thread serves the      *)
(* client, so its requests come one after the other; the poller and the    *)
(* workers run beside it.                                                  *)
(***************************************************************************)
EXTENDS Naturals, Sequences, FiniteSets

CONSTANTS
    Terminals,    \* terminal identifiers
    Sessions,     \* records the relay-server file can begin with
    Usable,       \* those with host, port, user and password all set
    None,         \* nullptr, no record, an empty rs_info
    Moved,        \* a reference into storage the vector has given up
    MaxRequests   \* bound: requests the client sends

ASSUME UsableAssumption == Usable \subseteq Sessions
ASSUME NoneAssumption == None \notin Terminals \cup Sessions
ASSUME MaxRequestsAssumption == MaxRequests \in Nat

VARIABLES
    \* the relay-server file (its first record) and the client's xSessionRS
    firstRecord, xSessionRS,
    \* the handler thread: where it is, requests still allowed
    pc, requests,
    \* Terminal_Info_List: has it been created, its vector
    created, terminalInfoList, capacity,
    \* workers asked for the list, terminals one has received and not added
    listTasks, received,
    \* ThRequestInfo: flags, thread handle, session, and the thread itself
    Terminated, FTHID, joinable, infoSession, tpc, i, count,
    \* the terminal reference and ID of the current request, the last answer
    Terminal, TerminalID, answer,
    \* ClientRS->mtx has been left locked
    mtx

clientVars == <<firstRecord, xSessionRS, pc, requests>>
listVars   == <<created, terminalInfoList, capacity>>
workVars   == <<listTasks, received>>
flagVars   == <<Terminated, FTHID, joinable, infoSession>>
pollVars   == <<tpc, i, count, Terminal, TerminalID, answer, mtx>>
vars == <<clientVars, listVars, workVars, flagVars, pollVars>>

Items == [ID : Terminals, rs_info : Terminals \cup {None}]

TypeOK ==
    /\ firstRecord \in Sessions \cup {None}
    /\ xSessionRS \in Sessions \cup {None}
    /\ pc \in {"connect", "idle", "start", "stop", "join", "clear", "added",
               "setRS", "read", "close", "gone"}
    /\ requests \in 0 .. MaxRequests
    /\ created \in BOOLEAN
    /\ terminalInfoList \in Seq(Items)
    /\ capacity \in Nat
    /\ listTasks \in Nat
    /\ received \in SUBSET Terminals
    /\ Terminated \in BOOLEAN /\ FTHID \in BOOLEAN /\ joinable \in BOOLEAN
    /\ infoSession \in Sessions \cup {None}
    /\ tpc \in {"none", "head", "sleep", "item", "exchange", "copy", "ended"}
    /\ i \in Nat \ {0} /\ count \in Nat
    /\ Terminal \in Nat \cup {Moved}
    /\ TerminalID \in Terminals \cup {None}
    /\ answer \in Terminals \cup {None}
    /\ mtx \in BOOLEAN

Init ==
    /\ firstRecord \in Sessions \cup {None}
    /\ xSessionRS = None
    /\ pc = "connect"
    /\ requests = 0
    /\ created = FALSE
    /\ terminalInfoList = <<>>
    /\ capacity = 0
    /\ listTasks = 0
    /\ received = {}
    /\ Terminated = FALSE /\ FTHID = FALSE /\ joinable = FALSE
    /\ infoSession = None
    /\ tpc = "none"
    /\ i = 1 /\ count = 0
    /\ Terminal = Moved
    /\ TerminalID = None
    /\ answer = None
    /\ mtx = FALSE

Count == Len(terminalInfoList)

(* The poller holds InfoMutex for a whole pass over the list, requests to   *)
(* the relay server included; everybody else only for a few statements.     *)
InfoMutex == tpc \in {"item", "exchange", "copy"}

-----------------------------------------------------------------------------
(* The client's handler thread.                                             *)

thStart ==
    /\ ~ InfoMutex
    /\ Terminated' = FALSE
    /\ IF FTHID
       THEN UNCHANGED <<FTHID, joinable, tpc>>
       ELSE FTHID' = TRUE /\ joinable' = TRUE /\ tpc' = "head"
    /\ UNCHANGED <<infoSession, i, count, Terminal, TerminalID, answer, mtx>>

(* Mutant: the thread is not told. *)
StopQuietly ==
    /\ ~ InfoMutex
    /\ FTHID' = FALSE
    /\ UNCHANGED <<Terminated, joinable, infoSession>>

thStop ==
    /\ ~ InfoMutex
    /\ Terminated' = TRUE
    /\ FTHID' = FALSE
    /\ UNCHANGED <<joinable, infoSession>>

(* handleClient: the connection's stack is made and its thread started. *)
Connect ==
    /\ pc = "connect"
    /\ thStart
    /\ pc' = "idle"
    /\ UNCHANGED <<firstRecord, xSessionRS, requests, listVars, workVars>>

Receive(l) ==
    /\ pc = "idle"
    /\ requests < MaxRequests
    /\ requests' = requests + 1
    /\ pc' = l

(* CMD_SES 0x00, when it fills in a task. *)
StartSession ==
    /\ Receive("start")
    /\ UNCHANGED <<firstRecord, xSessionRS, listVars, workVars, flagVars, pollVars>>

Start ==
    /\ pc = "start"
    /\ thStart
    /\ pc' = "idle"
    /\ UNCHANGED <<firstRecord, xSessionRS, requests, listVars, workVars>>

(* The first GetTerminalInfoList of a connection makes the list and gives   *)
(* it to the thread, under InfoMutex.                                       *)
GetTerminalInfoList ==
    /\ created \/ ~ InfoMutex
    /\ created' = TRUE
    /\ UNCHANGED <<terminalInfoList, capacity>>

(* CMD_SES 0x02: the thread is told to stop, joined, and the list cleared. *)
StopSession ==
    /\ Receive("stop")
    /\ GetTerminalInfoList
    /\ UNCHANGED <<firstRecord, xSessionRS, workVars, flagVars, pollVars>>

Stop ==
    /\ pc = "stop"
    /\ thStop
    /\ pc' = "join"
    /\ UNCHANGED <<firstRecord, xSessionRS, requests, listVars, workVars, pollVars>>

(* Mutant: the thread is not waited for. *)
JoinNothing ==
    /\ pc = "join"
    /\ pc' = "clear"
    /\ UNCHANGED <<firstRecord, xSessionRS, requests, listVars, workVars, flagVars, pollVars>>

thWaitForCompletion ==
    /\ pc = "join"
    /\ joinable => tpc = "ended"
    /\ joinable' = FALSE
    /\ pc' = "clear"
    /\ UNCHANGED <<firstRecord, xSessionRS, requests, listVars, workVars,
                   Terminated, FTHID, infoSession, pollVars>>

Clear ==
    /\ pc = "clear"
    /\ terminalInfoList' = <<>>
    /\ pc' = "idle"
    /\ UNCHANGED <<firstRecord, xSessionRS, requests, created, capacity,
                   workVars, flagVars, pollVars>>

(* CMD_TERM_LIST_DS: a task that will fetch the list is put on the pool. *)
ListDS ==
    /\ Receive("idle")
    /\ GetTerminalInfoList
    /\ listTasks' = listTasks + 1
    /\ UNCHANGED <<firstRecord, xSessionRS, received, flagVars, pollVars>>

(* CMD_TERM_LIST_RS 0x01 and 0x30 load the client's session, for the task. *)
ListRS ==
    /\ Receive("idle")
    /\ xSessionRS' = IF xSessionRS = None THEN firstRecord ELSE xSessionRS
    /\ UNCHANGED <<firstRecord, listVars, workVars, flagVars, pollVars>>

(* RSHandler::addRecord appends: only an empty file gets a new first record. *)
addRecord(s) == firstRecord' = IF firstRecord = None THEN s ELSE firstRecord

(* CMD_RS 0x01, without any lock: the record, and then the session. *)
AddRS(s) ==
    /\ Receive("added")
    /\ addRecord(s)
    /\ UNCHANGED <<xSessionRS, listVars, workVars, flagVars, pollVars>>

LoadRS ==
    /\ pc = "added"
    /\ xSessionRS' = firstRecord
    /\ pc' = "idle"
    /\ UNCHANGED <<firstRecord, requests, listVars, workVars, flagVars, pollVars>>

(* CMD_RS 0x03 *)
DeleteRS ==
    /\ Receive("idle")
    /\ firstRecord' = None
    /\ UNCHANGED <<xSessionRS, listVars, workVars, flagVars, pollVars>>

(* CMD_TERM_LIST_DHS: only a session loaded here is given to the thread. *)
ListDHS ==
    /\ Receive(IF xSessionRS = None THEN "setRS" ELSE "read")
    /\ xSessionRS' = IF xSessionRS = None THEN firstRecord ELSE xSessionRS
    /\ UNCHANGED <<firstRecord, listVars, workVars, flagVars, pollVars>>

setCurrentSessionRS ==
    /\ pc = "setRS"
    /\ ~ InfoMutex
    /\ infoSession' = IF xSessionRS = None THEN infoSession ELSE xSessionRS
    /\ pc' = "read"
    /\ UNCHANGED <<firstRecord, xSessionRS, requests, listVars, workVars,
                   Terminated, FTHID, joinable, pollVars>>

(* ... and the listed items are copied into the answer. *)
SendItems ==
    /\ pc = "read"
    /\ GetTerminalInfoList
    /\ pc' = "idle"
    /\ UNCHANGED <<firstRecord, xSessionRS, requests, workVars, flagVars, pollVars>>

(* The socket is closed: handleClient stops the thread and waits for nobody. *)
Disconnect ==
    /\ pc = "idle"
    /\ pc' = "close"
    /\ UNCHANGED <<firstRecord, xSessionRS, requests, listVars, workVars, flagVars, pollVars>>

Close ==
    /\ pc = "close"
    /\ thStop
    /\ pc' = "gone"
    /\ UNCHANGED <<firstRecord, xSessionRS, requests, listVars, workVars, pollVars>>

(* What the handler does once it has been called. *)
Serve == \/ Connect \/ Start \/ Stop \/ thWaitForCompletion \/ Clear \/ LoadRS
         \/ setCurrentSessionRS \/ SendItems \/ Close

Request == \/ StartSession \/ StopSession \/ ListDS \/ ListRS \/ DeleteRS \/ ListDHS
           \/ \E s \in Sessions : AddRS(s)

-----------------------------------------------------------------------------
(* Other clients share the file. *)

OtherClient ==
    /\ \/ \E s \in Sessions : addRecord(s)
       \/ firstRecord' = None
    /\ UNCHANGED <<xSessionRS, pc, requests, listVars, workVars, flagVars, pollVars>>

-----------------------------------------------------------------------------
(* A worker with the list command: cmdTaskTerminalListDS::vResponseReceived, *)
(* under the command's own mutex, so one answer is processed at a time.      *)

vResponseReceived ==
    /\ listTasks > 0
    /\ received = {}
    /\ listTasks' = listTasks - 1
    /\ received' \in SUBSET Terminals
    /\ UNCHANGED <<clientVars, listVars, flagVars, pollVars>>

(* Mutant: a terminal that is listed already is appended again. *)
AppendAlways(t) ==
    /\ terminalInfoList' = Append(terminalInfoList, [ID |-> t, rs_info |-> None])
    /\ UNCHANGED <<capacity, Terminal>>

(* Mutant: a new terminal is put before the others. *)
AddFirst(t) ==
    IF \E n \in 1 .. Count : terminalInfoList[n].ID = t
    THEN UNCHANGED <<terminalInfoList, capacity, Terminal>>
    ELSE /\ terminalInfoList' = <<[ID |-> t, rs_info |-> None]>> \o terminalInfoList
         /\ capacity' = Count + 1
         /\ Terminal' = Moved

(* Terminal_Info_List::Add.  An item that is found is updated, its rs_info  *)
(* kept.  push_back into a full vector moves every item.                    *)
Add(t) ==
    IF \E n \in 1 .. Count : terminalInfoList[n].ID = t
    THEN UNCHANGED <<terminalInfoList, capacity, Terminal>>
    ELSE /\ terminalInfoList' = Append(terminalInfoList, [ID |-> t, rs_info |-> None])
         /\ IF Count < capacity
            THEN UNCHANGED <<capacity, Terminal>>
            ELSE /\ capacity' = IF capacity = 0 THEN 1 ELSE 2 * capacity
                 /\ Terminal' = Moved

AddReceived(t) ==
    /\ t \in received
    /\ received' = received \ {t}
    /\ Add(t)
    /\ UNCHANGED <<clientVars, created, listTasks, flagVars, tpc, i, count, TerminalID, answer, mtx>>

Worker == vResponseReceived \/ \E t \in Terminals : AddReceived(t)

-----------------------------------------------------------------------------
(* The polling thread: ThRequestInfo::StartExecute.                         *)

(* while (!Terminated) *)
CheckTerminated ==
    /\ tpc = "head"
    /\ tpc' = IF Terminated THEN "ended" ELSE "sleep"
    /\ UNCHANGED <<clientVars, listVars, workVars, flagVars,
                   i, count, Terminal, TerminalID, answer, mtx>>

(* Mutant: the pass starts one before the first item. *)
WakeEarly ==
    /\ tpc = "sleep"
    /\ IF created /\ infoSession # None /\ Count > 0
       THEN count' = Count /\ i' = 0 /\ tpc' = "item"
       ELSE tpc' = "head" /\ UNCHANGED <<i, count>>
    /\ UNCHANGED <<clientVars, listVars, workVars, flagVars, Terminal, TerminalID, answer, mtx>>

(* InfoMutex is taken; without list, session or terminals there is nothing  *)
(* to do and it is given back.                                              *)
Wake ==
    /\ tpc = "sleep"
    /\ IF created /\ infoSession # None /\ Count > 0
       THEN count' = Count /\ i' = 1 /\ tpc' = "item"
       ELSE tpc' = "head" /\ UNCHANGED <<i, count>>
    /\ UNCHANGED <<clientVars, listVars, workVars, flagVars, Terminal, TerminalID, answer, mtx>>

(* getItem, init, setSession, setID.  A session that lacks something makes  *)
(* setSession return early, with ClientRS->mtx still locked.                *)
GetItem ==
    /\ tpc = "item"
    /\ Terminal' = i
    /\ TerminalID' = terminalInfoList[i].ID
    /\ mtx' = (infoSession \notin Usable)
    /\ tpc' = "exchange"
    /\ UNCHANGED <<clientVars, listVars, workVars, flagVars, i, count, answer>>

(* ClientRS->Execute, which locks mtx: the relay server's answer is stored  *)
(* by cmd_info_RS, or the exchange fails and the last answer stays.         *)
Execute ==
    /\ tpc = "exchange"
    /\ ~ mtx
    /\ answer' \in {TerminalID, answer}
    /\ tpc' = "copy"
    /\ UNCHANGED <<clientVars, listVars, workVars, flagVars, i, count, Terminal, TerminalID, mtx>>

(* Mutant: the loop leaves out the last terminal. *)
LastItem == i + 1 >= count

NoMoreItems == i >= count

(* memcpy into the item the reference names, and on to the next item. *)
Copy ==
    /\ tpc = "copy"
    /\ terminalInfoList' =
           IF Terminal = Moved THEN terminalInfoList
           ELSE [terminalInfoList EXCEPT ![Terminal].rs_info = answer]
    /\ tpc' = IF NoMoreItems THEN "head" ELSE "item"
    /\ i' = IF NoMoreItems THEN i ELSE i + 1
    /\ UNCHANGED <<clientVars, created, capacity, workVars, flagVars,
                   count, Terminal, TerminalID, answer, mtx>>

StartExecute == CheckTerminated \/ Wake \/ GetItem \/ Execute \/ Copy

-----------------------------------------------------------------------------
Next == Serve \/ Request \/ Disconnect \/ OtherClient \/ Worker \/ StartExecute

Spec == Init /\ [][Next]_vars

(* Threads are scheduled and the relay server answers or fails.  The poller *)
(* sleeps 20 ms with InfoMutex free in every round, so a handler that waits *)
(* for that mutex gets it although the poller keeps taking it.              *)
Fairness == WF_vars(StartExecute) /\ WF_vars(Worker) /\ SF_vars(Serve)

FairSpec == Spec /\ Fairness

-----------------------------------------------------------------------------
(* Safety.                                                                  *)

(* getItem is never asked for an index past the end, where it returns       *)
(* nothing: the count a pass began with stays valid through its network     *)
(* exchanges, because the list is only cleared when the thread has ended.   *)
ItemInRange == tpc = "item" => i <= Count

(* thStart never assigns a new thread to a handle that is still joinable,   *)
(* which would end the program: FTHID is reset long before the thread ends. *)
StartSafe == pc \in {"connect", "start"} /\ ~ FTHID => ~ joinable

(* A terminal is listed once, however many workers bring it: otherwise the  *)
(* poller would fill one entry and the client read the other.               *)
ListedOnce ==
    \A m, n \in 1 .. Count : terminalInfoList[m].ID = terminalInfoList[n].ID => m = n

(* An action property: except for the clearing at the end of a session, the *)
(* cache loses no terminal and no entry moves to another index, so the      *)
(* indices a client pages through mean the same terminals.                  *)
IndicesKept ==
    [][pc = "clear" \/ \A n \in 1 .. Count :
           n \in DOMAIN terminalInfoList' /\ terminalInfoList'[n].ID = terminalInfoList[n].ID]_vars

-----------------------------------------------------------------------------
(* Liveness, as long as the poller is not stuck: with a session that lacks   *)
(* something, setSession keeps mtx and Execute waits for it (StopCompletes   *)
(* below says what that does).                                               *)
Stuck == mtx

(* A request is always answered, and in particular the stop of a session     *)
(* gets InfoMutex and its join returns.                                      *)
RequestReturns == pc \notin {"idle", "gone"} ~> (pc \in {"idle", "gone"} \/ Stuck)

(* The thread of a closed connection ends: nothing else will stop it. *)
ThreadEnds == pc = "gone" ~> (tpc = "ended" \/ Stuck)

(* While a session runs, every listed terminal is asked about in the end,    *)
(* the ones added during a pass too.                                         *)
Polled ==
    \A t \in Terminals :
        (/\ \E n \in 1 .. Count : terminalInfoList[n].ID = t
         /\ tpc # "none" /\ ~ Terminated /\ infoSession # None)
            ~> (Terminated \/ Stuck \/ (tpc = "exchange" /\ TerminalID = t))

-----------------------------------------------------------------------------
(* What comments of the code say and the code does not do.                  *)

(* cmd_info_RS.h: the answer is information about the terminal asked for.   *)
(* An entry never holds what was received about another terminal.           *)
OwnInfo ==
    \A n \in 1 .. Count : terminalInfoList[n].rs_info \in {None, terminalInfoList[n].ID}

(* ThRequestInfo.cpp: thWaitForCompletion waits until the thread has        *)
(* stopped, and a stopped thread does stop.                                 *)
StopCompletes == pc \in {"stop", "join"} ~> pc = "clear"
=============================================================================

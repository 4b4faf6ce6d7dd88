------------------------------ MODULE Sessions ------------------------------
(***************************************************************************)
(* Where the hub's tasks connect.  A client starts a session with the      *)
(* address and account of a diagnostic server (CMD_SES), which all         *)
(* connections keep in one shared object; relay-server settings come from  *)
(* a file of records that clients append to and delete.  A later request   *)
(* gives a task the settings of one or the other, field by field, and the  *)
(* task's worker connects with what it finds (thServer2.cpp, Task_Base.h). *)
(* How tasks are found, listed, expired and released is module TaskPool:   *)
(* here a request gets the client's own task for that command, a released  *)
(* one or a new one.                                                       *)
(***************************************************************************)
EXTENDS Handlers, FiniteSets

CONSTANTS
    Diagnostic,   \* complete sessions with a diagnostic server
    Partial,      \* a session request or record that lacks a field
    Records,      \* complete relay-server records
    Unset,        \* the fields of an object nobody has filled
    Tasks         \* task objects

(* There is always another object to create. *)
ASSUME TasksAssumption == MaxRequests \in 0..Cardinality(Tasks)

VARIABLES
    FSessionDS,          \* the session all connections share: socket and user
    firstRecord,         \* what the relay-server file begins with
    xSessionRS,          \* per client, its relay session
    local,               \* per client, the settings its handler has read
    task,                \* per client, the task its handler fills
    owner, command,      \* per task, the client and the command it is for
    settings,            \* per task, socket and user
    state, listed,       \* per task, its state, and whether it is on the list
    tasksMutex,          \* per task: free, held by its worker, or left locked
    recycled             \* per task, whether it has been released before

sessionVars == <<FSessionDS, firstRecord, xSessionRS, local, task>>
taskVars    == <<owner, command, settings, state, listed, tasksMutex, recycled>>

Complete == Diagnostic \cup Records
Settings == [socket : Complete \cup {Partial, Unset}, user : Complete \cup {Partial, Unset}]
Of(s) == [socket |-> s, user |-> s]

(* host, port, user and password: what setSession and CMD_SES insist on. *)
Filled(s) == s.socket \in Complete /\ s.user \in Complete

SessionsInit ==
    /\ FSessionDS = Of(Unset)
    /\ firstRecord = None
    /\ xSessionRS = [c \in Clients |-> None]
    /\ local = [c \in Clients |-> Of(Unset)]
    /\ task = [c \in Clients |-> None]
    /\ owner = [t \in Tasks |-> None]
    /\ command = [t \in Tasks |-> None]
    /\ settings = [t \in Tasks |-> Of(Unset)]
    /\ state = [t \in Tasks |-> "new"]
    /\ listed = [t \in Tasks |-> FALSE]
    /\ tasksMutex = [t \in Tasks |-> "free"]
    /\ recycled = [t \in Tasks |-> FALSE]

(* The handler returns and its locals go. *)
Leave(c, from) ==
    /\ Return(c, from)
    /\ local' = [local EXCEPT ![c] = Of(Unset)]
    /\ task' = [task EXCEPT ![c] = None]
    /\ UNCHANGED <<FSessionDS, firstRecord, xSessionRS>>

-----------------------------------------------------------------------------
(* The requests a client sends. *)

Ask(c) ==
    /\ \/ \E s \in Diagnostic \cup {Partial} : Receive(c, "session", s, "lock")
       \/ \E k \in {"listDS", "directory", "listRS", "syncRS"} : Receive(c, k, None, "lock")
       \/ \E r \in Records \cup {Partial} : Receive(c, "addRS", r, "append")
       \/ Receive(c, "deleteRS", None, "delete")
    /\ UNCHANGED <<sessionVars, taskVars>>

(* Mutant: the refusal returns without unlocking. *)
RefuseLocked(c) ==
    /\ kind[c] = "session" /\ arg[c] = Partial
    /\ Enter(c, "idle")
    /\ UNCHANGED <<sessionVars, taskVars>>

(* CMD_SES 0x00 without user, password, host or port is refused. *)
Refuse(c) ==
    /\ kind[c] = "session" /\ arg[c] = Partial
    /\ Within(c)
    /\ UNCHANGED <<sessionVars, taskVars>>

(* Mutant: an incomplete session is stored as well. *)
StartAnySession(c) ==
    /\ kind[c] = "session"
    /\ Enter(c, "setSocketDS")
    /\ UNCHANGED <<sessionVars, taskVars>>

StartSession(c) ==
    /\ kind[c] = "session" /\ arg[c] # Partial
    /\ Enter(c, "setSocketDS")
    /\ UNCHANGED <<sessionVars, taskVars>>

(* _sessionDS->setSocket and setUser, each under the session's own mutex. *)
SetSocketDS(c) ==
    /\ Step(c, "setSocketDS", "setUserDS")
    /\ FSessionDS' = [FSessionDS EXCEPT !.socket = arg[c]]
    /\ UNCHANGED <<firstRecord, xSessionRS, local, task, taskVars>>

SetUserDS(c) ==
    /\ Step(c, "setUserDS", "getSocketDS")
    /\ FSessionDS' = [FSessionDS EXCEPT !.user = arg[c]]
    /\ UNCHANGED <<firstRecord, xSessionRS, local, task, taskVars>>

(* getHost, getPort, getAddress; getUser, getPass. *)
GetSocketDS(c) ==
    /\ Step(c, "getSocketDS", "getUserDS")
    /\ local' = [local EXCEPT ![c].socket = FSessionDS.socket]
    /\ UNCHANGED <<FSessionDS, firstRecord, xSessionRS, task, taskVars>>

GetUserDS(c) ==
    /\ Step(c, "getUserDS", IF kind[c] = "session" THEN "take" ELSE "setSocket")
    /\ local' = [local EXCEPT ![c].user = FSessionDS.user]
    /\ UNCHANGED <<FSessionDS, firstRecord, xSessionRS, task, taskVars>>

(* The other commands that need a task look for it first. *)
Start(c) ==
    /\ kind[c] \in {"listDS", "directory", "listRS", "syncRS"}
    /\ Enter(c, "take")
    /\ UNCHANGED <<sessionVars, taskVars>>

-----------------------------------------------------------------------------
(* A task for the request. *)

Own(c) == {t \in Tasks : owner[t] = c /\ command[t] = kind[c] /\ state[t] \in {"wait", "run"}}

(* The client's own task is still in the works: the request is answered and  *)
(* nothing is set.                                                           *)
FindOwn(c) ==
    /\ Leave(c, "take")
    /\ Own(c) # {}
    /\ UNCHANGED taskVars

(* What CMD_TERM_LIST_RS 0x01 and 0x30 do to the settings: only a session   *)
(* loaded here is given to the task, and 0x30 fills the task in any case.   *)
FillFrom(c) ==
    CASE kind[c] = "session"   -> "setSocket"
      [] kind[c] = "directory" -> "getSocketDS"
      [] kind[c] = "listDS"    -> "setSession"
      [] xSessionRS[c] = None  -> "loadRS"
      [] kind[c] = "listRS"    -> "setCMD"
      [] OTHER                 -> "fill"

(* getTaskInstance: a released instance, or a new one. *)
Instances ==
    LET free == {t \in Tasks : state[t] = "free"}
    IN  IF free # {} THEN free
        ELSE {CHOOSE t \in Tasks : state[t] = "new"}

(* setID, setRequestMessage.  A released instance is on the list already, a  *)
(* new one is not.                                                           *)
Take(c) ==
    /\ Step(c, "take", FillFrom(c))
    /\ Own(c) = {}
    /\ \E t \in Instances :
         /\ task' = [task EXCEPT ![c] = t]
         /\ owner' = [owner EXCEPT ![t] = c]
         /\ command' = [command EXCEPT ![t] = kind[c]]
         /\ state' = [state EXCEPT ![t] = "wait"]
    /\ UNCHANGED <<FSessionDS, firstRecord, xSessionRS, local,
                   settings, listed, tasksMutex, recycled>>

(* SessionRSLoad: the first record of the file, or nullptr. *)
LoadRS(c) ==
    /\ Step(c, "loadRS", "setSession")
    /\ xSessionRS' = [xSessionRS EXCEPT ![c] = firstRecord]
    /\ UNCHANGED <<FSessionDS, firstRecord, local, task, taskVars>>

Session(c) ==
    CASE kind[c] = "listDS"    -> FSessionDS
      [] xSessionRS[c] = None  -> Of(None)
      [] OTHER                 -> Of(xSessionRS[c])

(* TaskBaseConnect::setSession reads the session under tasksMutex, and the   *)
(* early returns for a null or incomplete one leave that mutex locked.  What *)
(* a session that was never filled holds, nobody knows: it may pass as one.  *)
(* For 0x30 the settings are written by the Fill_Task that follows.          *)
SetSession(c) ==
    /\ pc[c] = "setSession"
    /\ tasksMutex[task[c]] = "free"
    /\ \/ /\ Filled(Session(c)) \/ Session(c) = Of(Unset)
          /\ Step(c, "setSession", IF kind[c] = "syncRS" THEN "fill" ELSE "setSocket")
          /\ local' = [local EXCEPT ![c] = Session(c)]
          /\ UNCHANGED tasksMutex
       \/ /\ ~Filled(Session(c))
          /\ Step(c, "setSession", IF kind[c] = "syncRS" THEN "fill" ELSE "setCMD")
          /\ tasksMutex' = [tasksMutex EXCEPT ![task[c]] = "left"]
          /\ UNCHANGED local
    /\ UNCHANGED <<FSessionDS, firstRecord, xSessionRS, task,
                   owner, command, settings, state, listed, recycled>>

(* Fill_Task: without a session the answer is 0xE1 and the task stays as it is. *)
Fill(c) ==
    IF xSessionRS[c] = None
    THEN /\ Leave(c, "fill")
         /\ UNCHANGED taskVars
    ELSE /\ Step(c, "fill", "setSocket")
         /\ local' = [local EXCEPT ![c] = Of(xSessionRS[c])]
         /\ UNCHANGED <<FSessionDS, firstRecord, xSessionRS, task, taskVars>>

(* Mutant: the task is put on the list before it is filled. *)
ListThenFill(c) ==
    /\ Step(c, "setSocket", "setUser")
    /\ tasksMutex[task[c]] = "free"
    /\ settings' = [settings EXCEPT ![task[c]].socket = local[c].socket]
    /\ listed' = [listed EXCEPT ![task[c]] = TRUE]
    /\ UNCHANGED <<sessionVars, owner, command, state, tasksMutex, recycled>>

(* The task's setSocket, setUser and setCMD wait for tasksMutex, which a     *)
(* worker holds while it is connected.                                       *)
SetSocket(c) ==
    /\ Step(c, "setSocket", "setUser")
    /\ tasksMutex[task[c]] = "free"
    /\ settings' = [settings EXCEPT ![task[c]].socket = local[c].socket]
    /\ UNCHANGED <<sessionVars, owner, command, state, listed, tasksMutex, recycled>>

SetUser(c) ==
    /\ Step(c, "setUser", "setCMD")
    /\ tasksMutex[task[c]] = "free"
    /\ settings' = [settings EXCEPT ![task[c]].user = local[c].user]
    /\ UNCHANGED <<sessionVars, owner, command, state, listed, tasksMutex, recycled>>

SetCMD(c) ==
    /\ Step(c, "setCMD", "add")
    /\ tasksMutex[task[c]] = "free"
    /\ UNCHANGED <<sessionVars, taskVars>>

AddToStack(c) ==
    /\ Leave(c, "add")
    /\ listed' = [listed EXCEPT ![task[c]] = TRUE]
    /\ UNCHANGED <<owner, command, settings, state, tasksMutex, recycled>>

-----------------------------------------------------------------------------
(* CMD_RS, without any lock: a record is appended and the client's session   *)
(* loaded from the file; the file is deleted.                                *)

AppendRS(c) ==
    /\ Step(c, "append", "reload")
    /\ firstRecord' = IF firstRecord = None THEN arg[c] ELSE firstRecord
    /\ UNCHANGED <<FSessionDS, xSessionRS, local, task, taskVars>>

ReloadRS(c) ==
    /\ Return(c, "reload")
    /\ xSessionRS' = [xSessionRS EXCEPT ![c] = firstRecord]
    /\ UNCHANGED <<FSessionDS, firstRecord, local, task, taskVars>>

DeleteRS(c) ==
    /\ Return(c, "delete")
    /\ firstRecord' = None
    /\ UNCHANGED <<FSessionDS, xSessionRS, local, task, taskVars>>

Serve(c) ==
    \/ Refuse(c) \/ StartSession(c) \/ SetSocketDS(c) \/ SetUserDS(c) \/ GetSocketDS(c)
    \/ GetUserDS(c) \/ Start(c) \/ FindOwn(c) \/ Take(c) \/ LoadRS(c) \/ SetSession(c)
    \/ Fill(c) \/ SetSocket(c) \/ SetUser(c) \/ SetCMD(c) \/ AddToStack(c)
    \/ AppendRS(c) \/ ReloadRS(c) \/ DeleteRS(c)

-----------------------------------------------------------------------------
(* The workers: a listed task with an owner is started, keeps tasksMutex     *)
(* while it is connected, and is released once its result has been fetched   *)
(* or has expired.                                                           *)

Connect(t) ==
    /\ listed[t] /\ state[t] = "wait" /\ tasksMutex[t] = "free"
    /\ state' = [state EXCEPT ![t] = "run"]
    /\ tasksMutex' = [tasksMutex EXCEPT ![t] = "worker"]
    /\ UNCHANGED <<sessionVars, owner, command, settings, listed, recycled>>

(* Mutant: the worker keeps tasksMutex. *)
ReleaseHeld(t) ==
    /\ state[t] = "run"
    /\ state' = [state EXCEPT ![t] = "free"]
    /\ recycled' = [recycled EXCEPT ![t] = TRUE]
    /\ UNCHANGED <<sessionVars, owner, command, settings, listed, tasksMutex>>

Release(t) ==
    /\ state[t] = "run"
    /\ state' = [state EXCEPT ![t] = "free"]
    /\ tasksMutex' = [tasksMutex EXCEPT ![t] = "free"]
    /\ recycled' = [recycled EXCEPT ![t] = TRUE]
    /\ UNCHANGED <<sessionVars, owner, command, settings, listed>>
=============================================================================

------------------------------ MODULE TaskPool ------------------------------
(***************************************************************************)
(* The pool of proxied requests of the diagnostic hub: the shared vector   *)
(* of TaskConnect objects (TaskList.cpp), the objects' own state           *)
(* (Task_Base.h), the request handlers that take an instance, fill it in   *)
(* and answer from it (thServer2.cpp, holding xMessageMutex throughout),   *)
(* the listener thread that starts and retires tasks (TaskExecutor.cpp)    *)
(* and the detached worker threads (TaskConnect::Execute, Task_Connect.h). *)
(* Every step below is a stretch of code between two points at which       *)
(* another thread can observe or change the shared state.                  *)
(***************************************************************************)
EXTENDS Naturals, Sequences, FiniteSets

CONSTANTS
    Clients,      \* socket numbers of the connected clients (task IDs)
    Keys,         \* the (usCmd, ucPar) pairs of the proxied requests
    Tasks,        \* the TaskConnect objects that can be allocated
    None,         \* 0, nullptr, a cleared field, an unlocked mutex
    Busy,         \* the KEY_DELETE_CMD answer: still processing
    MaxRequests   \* bound: requests each client sends

ASSUME FiniteAssumption == IsFiniteSet(Clients) /\ IsFiniteSet(Keys)
ASSUME MaxRequestsAssumption == MaxRequests \in Nat

VARIABLES
    \* TasksList and the fields of the task objects
    TaskList, State, ID, FRequestMessage, settings, ucResponse, taskCompleted,
    \* worker threads: started and not yet holding the task's tasksMutex; what
    \* the holder of that mutex is doing; what it works with
    starting, phase, run,
    \* request handlers
    xMessageMutex, pc, key, task, reply, requests,
    \* the listener thread
    lpc, index, count, seen

taskVars    == <<TaskList, State, ID, FRequestMessage, settings, ucResponse, taskCompleted>>
workerVars  == <<starting, phase, run>>
handlerVars == <<xMessageMutex, pc, key, task, reply, requests>>
listenVars  == <<lpc, index, count, seen>>
vars == <<taskVars, workerVars, handlerVars, listenVars>>

(* enum TaskState, and the test State >= ts_Success *)
TaskState == {"Wait", "Process", "Ready", "Success", "Error", "Used", "free"}
Finished  == {"Success", "Error", "Used", "free"}

(* A request is a client and the command it sent.  The connection settings  *)
(* and the command proxy of a task are named by the request they belong to. *)
Jobs   == Clients \X Keys
Fields == {"socket", "user", "command"}

(* What a worker runs with: the owner at the start, the request copied by   *)
(* getMessage and the settings read while it holds the task's mutex.        *)
Runs == [owner : Clients \cup {None}, request : Keys \cup {None},
         with : [Fields -> Jobs \cup {None}]]

ASSUME NoneAssumption == None \notin Clients \cup Keys \cup Tasks \cup Jobs \cup Runs
ASSUME BusyAssumption == Busy \notin Runs

Listed == {TaskList[i] : i \in DOMAIN TaskList}

TypeOK ==
    /\ TaskList \in Seq(Tasks)
    /\ State \in [Tasks -> TaskState]
    /\ ID \in [Tasks -> Clients \cup {None}]
    /\ FRequestMessage \in [Tasks -> Keys \cup {None}]
    /\ settings \in [Tasks -> [Fields -> Jobs \cup {None}]]
    /\ ucResponse \in [Tasks -> Runs \cup {None}]
    /\ taskCompleted \in [Tasks -> BOOLEAN]
    /\ starting \in [Tasks -> Nat]
    /\ phase \in [Tasks -> {"idle", "running", "linger", "exit"}]
    /\ run \in [Tasks -> Runs \cup {None}]
    /\ xMessageMutex \in Clients \cup {None}
    /\ pc \in [Clients -> {"idle", "lock", "reset", "id", "request", "socket",
                           "user", "command", "add", "push", "respond", "success"}]
    /\ key \in [Clients -> Keys \cup {None}]
    /\ task \in [Clients -> Tasks \cup {None}]
    /\ reply \in [Clients -> Runs \cup {None, Busy}]
    /\ requests \in [Clients -> 0 .. MaxRequests]
    /\ lpc \in {"sleep", "fetch", "id", "act", "started", "release"}
    /\ index \in Nat \ {0}
    /\ count \in Nat
    /\ seen \in TaskState

Init ==
    /\ TaskList = <<>>
    /\ State = [t \in Tasks |-> "Wait"]
    /\ ID = [t \in Tasks |-> None]
    /\ FRequestMessage = [t \in Tasks |-> None]
    /\ settings = [t \in Tasks |-> [f \in Fields |-> None]]
    /\ ucResponse = [t \in Tasks |-> None]
    /\ taskCompleted = [t \in Tasks |-> FALSE]
    /\ starting = [t \in Tasks |-> 0]
    /\ phase = [t \in Tasks |-> "idle"]
    /\ run = [t \in Tasks |-> None]
    /\ xMessageMutex = None
    /\ pc = [c \in Clients |-> "idle"]
    /\ key = [c \in Clients |-> None]
    /\ task = [c \in Clients |-> None]
    /\ reply = [c \in Clients |-> None]
    /\ requests = [c \in Clients |-> 0]
    /\ lpc = "sleep"
    /\ index = 1
    /\ count = 0
    /\ seen = "Wait"

-----------------------------------------------------------------------------
(* Request handlers: vServerClientRequestMessage, one thread per client.    *)

Goto(c, l) == pc' = [pc EXCEPT ![c] = l]

(* handleClient has read a proxied request and calls the handler. *)
Receive(c, k) ==
    /\ pc[c] = "idle"
    /\ requests[c] < MaxRequests
    /\ requests' = [requests EXCEPT ![c] = @ + 1]
    /\ key' = [key EXCEPT ![c] = k]
    /\ reply' = [reply EXCEPT ![c] = None]
    /\ Goto(c, "lock")
    /\ UNCHANGED <<taskVars, workerVars, listenVars, xMessageMutex, task>>

(* The first task of the list that is in S. *)
FirstOf(S, t) ==
    \E i \in DOMAIN TaskList :
        /\ TaskList[i] = t
        /\ t \in S
        /\ \A j \in 1 .. i - 1 : TaskList[j] \notin S

(* Mutants: the socket, or the command, is not compared. *)
OwnsRequest(c, t) == FRequestMessage[t] = key[c]
OwnsSocket(c, t) == ID[t] = c

Owns(c, t) == ID[t] = c /\ FRequestMessage[t] = key[c]

(* Mutant: the condition on the state that the code has commented out. *)
OwnUnfinished(c) == {t \in Listed : Owns(c, t) /\ State[t] \notin Finished}

(* The tasks that the two loops of getTaskInstance look for. *)
Own(c) == {t \in Listed : Owns(c, t)}
Free == {t \in Listed : State[t] = "free"}

Lock(c, t) ==
    /\ pc[c] = "lock"
    /\ xMessageMutex = None
    /\ xMessageMutex' = c
    /\ task' = [task EXCEPT ![c] = t]
    /\ UNCHANGED <<taskVars, workerVars, listenVars, key, reply, requests>>

(* getTaskInstance, first loop: the client's own task.  A finished one is   *)
(* reset for the new request, any other is only asked for its answer.       *)
FindOwn(c, t) ==
    /\ FirstOf(Own(c), t)
    /\ Lock(c, t)
    /\ Goto(c, IF State[t] \in Finished THEN "reset" ELSE "add")

(* getTaskInstance, second loop: somebody's task that has become free. *)
FindFree(c, t) ==
    /\ Own(c) = {}
    /\ FirstOf(Free, t)
    /\ Lock(c, t)
    /\ Goto(c, "reset")

(* getTaskInstance returns nullptr and the handler allocates a TaskConnect. *)
CreateTask(c, t) ==
    /\ Own(c) = {} /\ Free = {}
    /\ t \notin Listed
    /\ Lock(c, t)
    /\ Goto(c, "id")

GetInstance(c, t) == FindOwn(c, t) \/ FindFree(c, t) \/ CreateTask(c, t)

(* task_reset, still inside getTaskInstance.  It holds mtxState only, so    *)
(* the worker and the listener may have written since the state was read.   *)
Reset(c) ==
    LET t == task[c] IN
    /\ pc[c] = "reset"
    /\ ID' = [ID EXCEPT ![t] = None]
    /\ State' = [State EXCEPT ![t] = "Wait"]
    /\ FRequestMessage' = [FRequestMessage EXCEPT ![t] = None]
    /\ ucResponse' = [ucResponse EXCEPT ![t] = None]
    /\ taskCompleted' = [taskCompleted EXCEPT ![t] = FALSE]
    /\ Goto(c, "id")
    /\ UNCHANGED <<workerVars, listenVars, TaskList, settings,
                   xMessageMutex, key, task, reply, requests>>

SetID(c) ==
    /\ pc[c] = "id"
    /\ ID' = [ID EXCEPT ![task[c]] = c]
    /\ Goto(c, "request")
    /\ UNCHANGED <<workerVars, listenVars, TaskList, State, FRequestMessage, settings,
                   ucResponse, taskCompleted, xMessageMutex, key, task, reply, requests>>

SetRequestMessage(c) ==
    /\ pc[c] = "request"
    /\ FRequestMessage' = [FRequestMessage EXCEPT ![task[c]] = key[c]]
    /\ Goto(c, "socket")
    /\ UNCHANGED <<workerVars, listenVars, TaskList, State, ID, settings,
                   ucResponse, taskCompleted, xMessageMutex, key, task, reply, requests>>

(* Mutant: setCMD is left out. *)
NoCommand == [socket |-> "user", user |-> "add", command |-> "add"]

(* setSocket, setUser and setCMD each take the task's tasksMutex, which a   *)
(* worker holds from its first statement to its last.                       *)
NextStep == [socket |-> "user", user |-> "command", command |-> "add"]

SetConnection(c, f) ==
    LET t == task[c] IN
    /\ pc[c] = f
    /\ phase[t] = "idle"
    /\ settings' = [settings EXCEPT ![t][f] = <<c, key[c]>>]
    /\ Goto(c, NextStep[f])
    /\ UNCHANGED <<workerVars, listenVars, TaskList, State, ID, FRequestMessage,
                   ucResponse, taskCompleted, xMessageMutex, key, task, reply, requests>>

(* Mutant: the result of isExist is not used. *)
AddAlways(c) ==
    /\ pc[c] = "add"
    /\ Goto(c, "push")
    /\ UNCHANGED <<taskVars, workerVars, listenVars, xMessageMutex, key, task, reply, requests>>

(* TasksList::Add up to isExist, called by AddToStack. *)
Add(c) ==
    /\ pc[c] = "add"
    /\ Goto(c, IF \E u \in Listed : Owns(c, u) THEN "respond" ELSE "push")
    /\ UNCHANGED <<taskVars, workerVars, listenVars, xMessageMutex, key, task, reply, requests>>

(* The handler returns: what it put into the response is sent. *)
Answer(c, r) ==
    /\ reply' = [reply EXCEPT ![c] = r]
    /\ UNCHANGED <<key, requests>>

Unlock(c) ==
    /\ xMessageMutex' = None
    /\ task' = [task EXCEPT ![c] = None]
    /\ Goto(c, "idle")

(* TaskList.push_back in Add: tasksAddMutex is held, tasksMutex is not.     *)
PushBack(c) ==
    /\ pc[c] = "push"
    /\ TaskList' = Append(TaskList, task[c])
    /\ Answer(c, None)
    /\ Unlock(c)
    /\ UNCHANGED <<workerVars, listenVars, State, ID, FRequestMessage, settings,
                   ucResponse, taskCompleted>>

(* getIndex and prepareResponse.  A finished result, or an error, is handed *)
(* over before the state is set; any later state gives an empty answer.     *)
Respond(c) ==
    LET t == task[c] IN
    /\ pc[c] = "respond"
    /\ IF State[t] \in {"Ready", "Error"}
       THEN /\ Answer(c, IF State[t] = "Ready" THEN ucResponse[t] ELSE Busy)
            /\ Goto(c, "success")
            /\ UNCHANGED <<xMessageMutex, task>>
       ELSE /\ Answer(c, IF State[t] \in {"Wait", "Process"} THEN Busy ELSE None)
            /\ Unlock(c)
    /\ UNCHANGED <<taskVars, workerVars, listenVars>>

(* prepareResponse's own setState(ts_Success). *)
MarkSuccess(c) ==
    /\ pc[c] = "success"
    /\ State' = [State EXCEPT ![task[c]] = "Success"]
    /\ Unlock(c)
    /\ UNCHANGED <<workerVars, listenVars, TaskList, ID, FRequestMessage, settings,
                   ucResponse, taskCompleted, key, reply, requests>>

Handler(c) ==
    \/ \E t \in Tasks : GetInstance(c, t)
    \/ Reset(c)
    \/ SetID(c)
    \/ SetRequestMessage(c)
    \/ \E f \in Fields : SetConnection(c, f)
    \/ Add(c)
    \/ PushBack(c)
    \/ Respond(c)
    \/ MarkSuccess(c)

-----------------------------------------------------------------------------
(* The listener thread: TaskListener::StartListening.                       *)

Current == TaskList[index]

(* On to the next task of this pass, or to sleep after the last one. *)
Advance ==
    /\ index' = IF index < count THEN index + 1 ELSE 1
    /\ lpc' = IF index < count THEN "fetch" ELSE "sleep"
    /\ UNCHANGED <<count, seen>>

(* vPortSleepMs(100) and getCount. *)
StartPass ==
    /\ lpc = "sleep"
    /\ TaskList # <<>>
    /\ count' = Len(TaskList)
    /\ lpc' = "fetch"
    /\ UNCHANGED <<taskVars, workerVars, handlerVars, index, seen>>

(* getTaskID and getState ... *)
ReadState ==
    /\ lpc = "fetch"
    /\ seen' = State[Current]
    /\ lpc' = "id"
    /\ UNCHANGED <<taskVars, workerVars, handlerVars, index, count>>

(* ... and only then getID: a task without an owner is skipped. *)
ReadID ==
    /\ lpc = "id"
    /\ IF ID[Current] = None
       THEN Advance
       ELSE lpc' = "act" /\ UNCHANGED <<index, count, seen>>
    /\ UNCHANGED <<taskVars, workerVars, handlerVars>>

SetState(s) ==
    /\ State' = [State EXCEPT ![Current] = s]
    /\ UNCHANGED <<TaskList, ID, FRequestMessage, settings, ucResponse, taskCompleted>>

StartThread ==
    /\ lpc = "act"
    /\ seen = "Wait"
    /\ starting' = [starting EXCEPT ![Current] = @ + 1]
    /\ lpc' = "started"
    /\ UNCHANGED <<taskVars, phase, run, handlerVars, index, count, seen>>

(* Mutant: the task stays in Wait when its thread has been started. *)
LeaveWaiting ==
    /\ lpc = "started"
    /\ Advance
    /\ UNCHANGED <<taskVars, workerVars, handlerVars>>

SetProcess ==
    /\ lpc = "started"
    /\ SetState("Process")
    /\ Advance
    /\ UNCHANGED <<workerVars, handlerVars>>

(* Mutant: the time limit applies to tasks in Process as well. *)
ExpireRunning ==
    /\ lpc = "act"
    /\ seen \in {"Process", "Ready"}
    /\ SetState("Success")
    /\ Advance
    /\ UNCHANGED <<workerVars, handlerVars>>

(* Nobody fetched the result for TIME_DELETE_TASK seconds. *)
Expire ==
    /\ lpc = "act"
    /\ seen = "Ready"
    /\ SetState("Success")
    /\ Advance
    /\ UNCHANGED <<workerVars, handlerVars>>

(* Mutant: the state ts_Delete, which the enum has commented out. *)
MarkDelete ==
    /\ lpc = "act"
    /\ seen = "Success"
    /\ SetState("Delete")
    /\ Advance
    /\ UNCHANGED <<workerVars, handlerVars>>

MarkUsed ==
    /\ lpc = "act"
    /\ seen = "Success"
    /\ SetState("Used")
    /\ Advance
    /\ UNCHANGED <<workerVars, handlerVars>>

(* Mutant: the flag is tested the wrong way round. *)
CheckRunning ==
    /\ lpc = "act"
    /\ seen = "Used"
    /\ ~ taskCompleted[Current]
    /\ lpc' = "release"
    /\ UNCHANGED <<taskVars, workerVars, handlerVars, index, count, seen>>

CheckCompleted ==
    /\ lpc = "act"
    /\ seen = "Used"
    /\ taskCompleted[Current]
    /\ lpc' = "release"
    /\ UNCHANGED <<taskVars, workerVars, handlerVars, index, count, seen>>

MarkFree ==
    /\ lpc = "release"
    /\ SetState("free")
    /\ Advance
    /\ UNCHANGED <<workerVars, handlerVars>>

(* The branches that change nothing; Ready before its time is up. *)
PassBy ==
    /\ lpc = "act"
    /\ \/ seen \in {"Process", "Ready", "Error", "free"}
       \/ seen = "Used" /\ ~ taskCompleted[Current]
    /\ Advance
    /\ UNCHANGED <<taskVars, workerVars, handlerVars>>

Listener ==
    \/ StartPass \/ ReadState \/ ReadID \/ StartThread \/ SetProcess
    \/ Expire \/ MarkUsed \/ CheckCompleted \/ MarkFree \/ PassBy

-----------------------------------------------------------------------------
(* The detached worker threads: TaskConnect::Execute.                       *)

(* The worker gets tasksMutex, copies the request and the settings. *)
Begin(t) ==
    /\ starting[t] > 0
    /\ phase[t] = "idle"
    /\ starting' = [starting EXCEPT ![t] = @ - 1]
    /\ phase' = [phase EXCEPT ![t] = "running"]
    /\ run' = [run EXCEPT ![t] = [owner |-> ID[t], request |-> FRequestMessage[t],
                                  with |-> settings[t]]]
    /\ UNCHANGED <<taskVars, handlerVars, listenVars>>

(* The exchange with the remote server has ended, well or with an error     *)
(* message of thClientConnect: setState(ID, ts_Ready).                      *)
Finish(t) ==
    /\ phase[t] = "running"
    /\ ucResponse' = [ucResponse EXCEPT ![t] = run[t]]
    /\ State' = [State EXCEPT ![t] = "Ready"]
    /\ phase' = [phase EXCEPT ![t] = "linger"]
    /\ run' = [run EXCEPT ![t] = None]
    /\ UNCHANGED <<TaskList, ID, FRequestMessage, settings, taskCompleted,
                   starting, handlerVars, listenVars>>

(* An exception reaches catch (...): ts_Error, and taskCompleted stays. *)
Fail(t) ==
    /\ phase[t] = "running"
    /\ State' = [State EXCEPT ![t] = "Error"]
    /\ phase' = [phase EXCEPT ![t] = "idle"]
    /\ run' = [run EXCEPT ![t] = None]
    /\ UNCHANGED <<TaskList, ID, FRequestMessage, settings, ucResponse, taskCompleted,
                   starting, handlerVars, listenVars>>

(* The wait loop ends: the state is finished, or 300 rounds have passed. *)
StopWaiting(t) ==
    /\ phase[t] = "linger"
    /\ phase' = [phase EXCEPT ![t] = "exit"]
    /\ UNCHANGED <<taskVars, starting, run, handlerVars, listenVars>>

(* Mutant: the mutex is not released. *)
ExitLocked(t) ==
    /\ phase[t] = "exit"
    /\ taskCompleted' = [taskCompleted EXCEPT ![t] = TRUE]
    /\ UNCHANGED <<TaskList, State, ID, FRequestMessage, settings, ucResponse,
                   workerVars, handlerVars, listenVars>>

(* taskCompleted = true, and the mutex is released. *)
Exit(t) ==
    /\ phase[t] = "exit"
    /\ taskCompleted' = [taskCompleted EXCEPT ![t] = TRUE]
    /\ phase' = [phase EXCEPT ![t] = "idle"]
    /\ UNCHANGED <<TaskList, State, ID, FRequestMessage, settings, ucResponse,
                   starting, run, handlerVars, listenVars>>

Worker(t) == Begin(t) \/ Finish(t) \/ Fail(t) \/ StopWaiting(t) \/ Exit(t)

-----------------------------------------------------------------------------
Next ==
    \/ \E c \in Clients, k \in Keys : Receive(c, k)
    \/ \E c \in Clients : Handler(c)
    \/ Listener
    \/ \E t \in Tasks : Worker(t)

Spec == Init /\ [][Next]_vars

(* Every thread that can run is scheduled, and an exchange with a remote    *)
(* server ends.  Clients need not send anything.                            *)
Fairness ==
    /\ \A c \in Clients : WF_vars(Handler(c))
    /\ WF_vars(Listener)
    /\ \A t \in Tasks : WF_vars(Worker(t))

FairSpec == Spec /\ Fairness
-----------------------------------------------------------------------------
(* Safety.                                                                  *)

(* A worker that has been started for t and has not yet set its outcome. *)
PreReady(t) == starting[t] > 0 \/ phase[t] = "running"

(* A task never has two runs under way, and while one is under way the task *)
(* is in Wait or Process: no late write of the listener, of an earlier      *)
(* worker or of a handler makes it look finished, so it is not recycled.    *)
OneRun ==
    \A t \in Tasks :
        /\ starting[t] = 0 \/ (starting[t] = 1 /\ phase[t] # "running")
        /\ PreReady(t) => State[t] \in {"Wait", "Process"}

(* A task changes hands only when no run of it is under way: whatever       *)
(* getTaskInstance resets, no started worker still has to report on it.     *)
OwnerStable ==
    [][\A t \in Tasks : PreReady(t) => ID'[t] = ID[t]]_vars

(* A result handed to a client was computed by a worker that was started    *)
(* while the task was that client's, for that client's command or for the   *)
(* blank one: recycling an instance never shows a client what a worker of   *)
(* the previous owner, or for a previous command, brought back.  It speaks  *)
(* of the run, not of the bytes: a client's tasks share its command object, *)
(* which this module does not model.                                        *)
AnswerMatches ==
    \A c \in Clients : reply[c] \in Runs =>
        reply[c].owner = c /\ reply[c].request \in {None, key[c]}

(* The list never holds two tasks for one request of one client, although   *)
(* instances are recycled under other keys: isExist, getIndex and           *)
(* getTaskInstance always mean the same task.                               *)
UniqueKey ==
    \A t, u \in Listed :
        ID[t] # None /\ ID[t] = ID[u] /\ FRequestMessage[t] = FRequestMessage[u] => t = u

(* No run of a pooled task reaches the "No command!" return of Execute,     *)
(* which would leave the task in Process for good.                          *)
CommandSet ==
    \A t \in Tasks : phase[t] = "running" => run[t].with["command"] # None

(* The pool grows to one task per client and command at most: the list is   *)
(* never shortened (nothing calls ClearStack), so recycling has to bound it.*)
PoolBound == Len(TaskList) <= Cardinality(Jobs)

-----------------------------------------------------------------------------
(* Liveness.                                                                *)

(* A handler that was called always returns, so xMessageMutex, which all    *)
(* clients need, is always given back, even if the handler waits for the    *)
(* tasksMutex of a task whose worker is busy.                               *)
HandlerReturns ==
    \A c \in Clients : pc[c] # "idle" ~> pc[c] = "idle"

(* A delivered or expired task whose worker has completed is released for   *)
(* reuse, unless its own client asks again first and resets it.  The one    *)
(* case left out is a task that the listener has started and is about to    *)
(* put back into Process although it is over: see ProcessEnds.              *)
Retired ==
    \A t \in Tasks :
        (/\ State[t] \in {"Success", "Used"}
         /\ taskCompleted[t]
         /\ ~ (lpc = "started" /\ Current = t))
            ~> (State[t] = "free" \/ ~ taskCompleted[t])

-----------------------------------------------------------------------------
(* What comments of the code say and the code does not do.                  *)

(* Task_Connect.h: the worker sends the task's request.  Neither the copied *)
(* request nor the settings are then those of somebody else, or blank.      *)
SendsTaskRequest ==
    \A t \in Tasks : phase[t] = "running" =>
        \A f \in Fields : run[t].with[f] = <<run[t].owner, run[t].request>>

(* TaskExecutor.cpp: in Process, the listener waits for the task to change  *)
(* its state, so that a task does not stay in Process.                      *)
ProcessEnds ==
    \A t \in Tasks : State[t] = "Process" ~> State[t] # "Process"
=============================================================================

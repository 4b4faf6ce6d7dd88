--------------------------- MODULE TaskPoolProof ---------------------------
(***************************************************************************)
(* The safety of the pool of proxied requests for every number of clients, *)
(* commands and task objects.  The inductive invariant IInv relates what   *)
(* the three kinds of threads remember - the handler that holds            *)
(* xMessageMutex, the listener's copy of a task's state, a worker's copy   *)
(* of a request - to the task itself.                                      *)
(***************************************************************************)
EXTENDS TaskPool, FiniteSetTheorems, TLAPS

(* The request handlers exclude each other. *)
Holds(c) == pc[c] \notin {"idle", "lock"}

HandlerInv ==
    \A c \in Clients :
        /\ Holds(c) <=> xMessageMutex = c
        /\ IF Holds(c) THEN task[c] \in Tasks ELSE task[c] = None
        /\ pc[c] # "idle" => key[c] \in Keys

(* A handler that resets, initialises or has answered from a task works on  *)
(* one that no worker has still to report on.                               *)
TakenInv ==
    \A c \in Clients :
        /\ pc[c] \in {"reset", "id", "success"} => ~ PreReady(task[c])
        /\ pc[c] \in {"reset", "success"} => State[task[c]] # "Wait"
        /\ pc[c] = "id" => State[task[c]] # "Ready"

(* What the handler has filled in so far. *)
FilledInv ==
    \A c \in Clients :
        /\ pc[c] = "id" => ID[task[c]] = None
        /\ pc[c] \in {"id", "request"} => FRequestMessage[task[c]] = None
        /\ Holds(c) /\ pc[c] \notin {"reset", "id"} => ID[task[c]] = c
        /\ Holds(c) /\ pc[c] \notin {"reset", "id", "request"}
              => FRequestMessage[task[c]] = key[c]

(* Runs: at most one for a task, in Wait only until the listener's write    *)
(* of ts_Process, and for the task's owner and request.                     *)
RunInv ==
    \A t \in Tasks :
        /\ starting[t] = 0 \/ (starting[t] = 1 /\ phase[t] # "running")
        /\ PreReady(t) => State[t] \in {"Wait", "Process"}
        /\ PreReady(t) /\ State[t] = "Wait" => lpc = "started" /\ Current = t
        /\ phase[t] = "running" =>
              /\ run[t] \in Runs
              /\ run[t].owner = ID[t]
              /\ run[t].request \in {None, FRequestMessage[t]}
        /\ State[t] = "Ready" =>
              /\ ucResponse[t] \in Runs
              /\ ucResponse[t].owner = ID[t]
              /\ ucResponse[t].request \in {None, FRequestMessage[t]}

(* The listener's place in the list, and what its copy of a state is worth: *)
(* Wait is still true, and any state that it would overwrite means that no  *)
(* run of the task is under way.                                            *)
ListenerInv ==
    /\ lpc = "sleep" => index = 1
    /\ lpc # "sleep" => index <= count /\ count <= Len(TaskList)
    /\ lpc \in {"id", "act"} /\ seen = "Wait" => State[Current] = "Wait"
    /\ lpc = "act" /\ seen = "Wait" => ID[Current] # None
    /\ lpc \in {"id", "act"} /\ seen # "Process" => ~ PreReady(Current)
    /\ lpc = "release" => ~ PreReady(Current)

(* Tasks that are not in the list: as allocated, but for what the handler   *)
(* that created one has written.                                            *)
UnlistedInv ==
    \A t \in Tasks : t \notin Listed =>
        /\ State[t] = "Wait"
        /\ ~ PreReady(t)
        /\ xMessageMutex = None \/ task[xMessageMutex] # t
              => ID[t] = None /\ FRequestMessage[t] = None

(* A handler before AddToStack knows that no other task has its key, and    *)
(* only the task being filled in lacks an owner                             *)
KeyInv ==
    /\ \A c \in Clients :
          /\ Holds(c) => \A u \in Listed : u # task[c] => ~ Owns(c, u)
          /\ pc[c] = "push" => task[c] \notin Listed
          /\ pc[c] \in {"reset", "respond", "success"} => task[c] \in Listed
    /\ \A t \in Listed : ID[t] = None \/ FRequestMessage[t] = None =>
          /\ xMessageMutex \in Clients
          /\ task[xMessageMutex] = t
          /\ pc[xMessageMutex] \in {"id", "request"}

(* No task is in the list twice. *)
DistinctInv ==
    \A i, j \in DOMAIN TaskList : TaskList[i] = TaskList[j] => i = j

(* A task in the list has a command proxy. *)
CommandInv ==
    /\ \A t \in Listed : settings[t]["command"] # None
    /\ \A c \in Clients : pc[c] \in {"add", "push"} => settings[task[c]]["command"] # None

IInv ==
    /\ TypeOK
    /\ HandlerInv
    /\ TakenInv
    /\ FilledInv
    /\ RunInv
    /\ ListenerInv
    /\ UnlistedInv
    /\ KeyInv
    /\ DistinctInv
    /\ CommandInv
    /\ UniqueKey
    /\ AnswerMatches
    /\ CommandSet

-----------------------------------------------------------------------------
(* Type correctness.                                                        *)

LEMMA TypeInit == Init => TypeOK
BY NoneAssumption, MaxRequestsAssumption DEF Init, TypeOK, TaskState

LEMMA CurrentIsTask ==
    ASSUME TypeOK, ListenerInv, lpc # "sleep"
    PROVE  Current \in Tasks /\ Current \in Listed
BY DEF TypeOK, ListenerInv, Current, Listed

LEMMA ListedAreTasks ==
    ASSUME TypeOK
    PROVE  Listed \subseteq Tasks
BY DEF TypeOK, Listed

LEMMA FirstOfIsListed ==
    ASSUME NEW S, NEW t, FirstOf(S, t)
    PROVE  t \in Listed /\ t \in S
BY DEF FirstOf, Listed

LEMMA TypeHandler ==
    ASSUME TypeOK, HandlerInv, NEW c \in Clients, Handler(c)
    PROVE  TypeOK'
<1> USE NoneAssumption, MaxRequestsAssumption
<1> USE DEF TypeOK, Goto, taskVars, workerVars, listenVars
<1>1. ASSUME NEW t \in Tasks, GetInstance(c, t) PROVE TypeOK'
  <2>1. CASE FindOwn(c, t)
    BY <2>1 DEF FindOwn, Lock
  <2>2. CASE FindFree(c, t)
    BY <2>2 DEF FindFree, Lock
  <2>3. CASE CreateTask(c, t)
    BY <2>3 DEF CreateTask, Lock
  <2> QED
    BY <1>1, <2>1, <2>2, <2>3 DEF GetInstance
<1>2. CASE Reset(c)
  BY <1>2 DEF Reset, TaskState
<1>3. CASE SetID(c)
  BY <1>3 DEF SetID
<1>4. CASE SetRequestMessage(c)
  BY <1>4 DEF SetRequestMessage, HandlerInv, Holds
<1>5. ASSUME NEW f \in Fields, SetConnection(c, f) PROVE TypeOK'
  <2>1. f \in {"socket", "user", "command"} /\ pc[c] = f
    BY <1>5 DEF SetConnection, Fields
  <2>2. task[c] \in Tasks /\ <<c, key[c]>> \in Jobs
    BY <2>1 DEF HandlerInv, Holds, Jobs
  <2>3. settings' \in [Tasks -> [Fields -> Jobs \cup {None}]]
    BY <1>5, <2>2 DEF SetConnection
  <2>4. NextStep[f] \in {"user", "command", "add"}
    BY <2>1 DEF NextStep
  <2>5. pc' \in [Clients -> {"idle", "lock", "reset", "id", "request", "socket",
                             "user", "command", "add", "push", "respond", "success"}]
    BY <1>5, <2>4 DEF SetConnection
  <2> QED
    BY <1>5, <2>3, <2>5 DEF SetConnection
<1>6. CASE Add(c)
  BY <1>6 DEF Add
<1>7. CASE PushBack(c)
  <2>1. task[c] \in Tasks
    BY <1>7 DEF PushBack, HandlerInv, Holds
  <2> QED
    BY <1>7, <2>1 DEF PushBack, Answer, Unlock
<1>8. CASE Respond(c)
  <2>1. task[c] \in Tasks
    BY <1>8 DEF Respond, HandlerInv, Holds
  <2>2. ucResponse[task[c]] \in Runs \cup {None, Busy}
    BY <2>1
  <2>3. reply' \in [Clients -> Runs \cup {None, Busy}]
    <3>1. CASE State[task[c]] \in {"Ready", "Error"}
      BY <1>8, <2>2, <3>1 DEF Respond, Answer
    <3>2. CASE State[task[c]] \notin {"Ready", "Error"}
      BY <1>8, <3>2 DEF Respond, Answer
    <3> QED
      BY <3>1, <3>2
  <2> QED
    BY <1>8, <2>3 DEF Respond, Answer, Unlock
<1>9. CASE MarkSuccess(c)
  BY <1>9 DEF MarkSuccess, Unlock, TaskState
<1> QED
  BY <1>1, <1>2, <1>3, <1>4, <1>5, <1>6, <1>7, <1>8, <1>9 DEF Handler

LEMMA TypeListener ==
    ASSUME TypeOK, ListenerInv, Listener
    PROVE  TypeOK'
<1> USE NoneAssumption, MaxRequestsAssumption
<1> USE DEF TypeOK, TaskState, taskVars, workerVars, handlerVars, Advance, SetState
<1>1. CASE StartPass
  BY <1>1 DEF StartPass
<1>2. CASE ReadState
  BY <1>2, CurrentIsTask DEF ReadState
<1>3. CASE ReadID
  BY <1>3 DEF ReadID
<1>4. CASE StartThread
  BY <1>4, CurrentIsTask DEF StartThread
<1>5. CASE SetProcess
  BY <1>5, CurrentIsTask DEF SetProcess
<1>6. CASE Expire
  BY <1>6, CurrentIsTask DEF Expire
<1>7. CASE MarkUsed
  BY <1>7, CurrentIsTask DEF MarkUsed
<1>8. CASE CheckCompleted
  BY <1>8 DEF CheckCompleted
<1>9. CASE MarkFree
  BY <1>9, CurrentIsTask DEF MarkFree
<1>10. CASE PassBy
  BY <1>10 DEF PassBy
<1> QED
  BY <1>1, <1>2, <1>3, <1>4, <1>5, <1>6, <1>7, <1>8, <1>9, <1>10 DEF Listener

LEMMA TypeWorker ==
    ASSUME TypeOK, NEW t \in Tasks, Worker(t)
    PROVE  TypeOK'
<1> USE NoneAssumption, MaxRequestsAssumption
<1> USE DEF TypeOK, TaskState, taskVars, handlerVars, listenVars
<1>1. CASE Begin(t)
  <2>1. [owner |-> ID[t], request |-> FRequestMessage[t], with |-> settings[t]] \in Runs
    BY DEF Runs
  <2> QED
    BY <1>1, <2>1 DEF Begin
<1>2. CASE Finish(t)
  BY <1>2 DEF Finish
<1>3. CASE Fail(t)
  BY <1>3 DEF Fail
<1>4. CASE StopWaiting(t)
  BY <1>4 DEF StopWaiting
<1>5. CASE Exit(t)
  BY <1>5 DEF Exit
<1> QED
  BY <1>1, <1>2, <1>3, <1>4, <1>5 DEF Worker

LEMMA TypeNext ==
    ASSUME TypeOK, HandlerInv, ListenerInv, [Next]_vars
    PROVE  TypeOK'
<1>1. ASSUME NEW c \in Clients, NEW k \in Keys, Receive(c, k) PROVE TypeOK'
  BY <1>1, NoneAssumption, MaxRequestsAssumption
  DEF Receive, TypeOK, Goto, taskVars, workerVars, listenVars
<1>2. CASE UNCHANGED vars
  BY <1>2 DEF vars, TypeOK, taskVars, workerVars, handlerVars, listenVars
<1> QED
  BY <1>1, <1>2, TypeHandler, TypeListener, TypeWorker DEF Next
-----------------------------------------------------------------------------
(* The request handlers.                                                    *)

LEMMA ReceiveInv ==
    ASSUME IInv, NEW c \in Clients, NEW k \in Keys, Receive(c, k)
    PROVE  IInv'
<1>1. TypeOK'
  BY TypeNext DEF IInv, Next
<1>2. Listed' = Listed
  BY DEF Receive, Listed, taskVars
<1>3. HandlerInv'
  BY DEF IInv, TypeOK, Receive, Goto, HandlerInv, Holds
<1>4. TakenInv'
  BY DEF IInv, Receive, Goto, TakenInv, PreReady, taskVars, workerVars
<1>5. FilledInv'
  BY DEF IInv, Receive, Goto, FilledInv, Holds, taskVars
<1>6. KeyInv'
  BY <1>2 DEF IInv, Receive, Goto, KeyInv, Holds, Owns, taskVars
<1>7. CommandInv'
  BY <1>2 DEF IInv, Receive, Goto, CommandInv, taskVars
<1>8. AnswerMatches'
  BY NoneAssumption DEF IInv, TypeOK, Receive, Goto, AnswerMatches
<1>9. (RunInv /\ ListenerInv /\ UnlistedInv /\ DistinctInv /\ UniqueKey /\ CommandSet)'
  BY <1>2
  DEF IInv, Receive, RunInv, ListenerInv, UnlistedInv, DistinctInv, UniqueKey,
      CommandSet, PreReady, Current, taskVars, workerVars, listenVars
<1> QED
  BY <1>1, <1>3, <1>4, <1>5, <1>6, <1>7, <1>8, <1>9 DEF IInv

LEMMA FindOwnInv ==
    ASSUME IInv, NEW c \in Clients, NEW t \in Tasks, FindOwn(c, t)
    PROVE  IInv'
<1>1. TypeOK'
  BY TypeNext DEF IInv, Next, Handler, GetInstance
<1>2. Listed' = Listed
  BY DEF FindOwn, Lock, Listed, taskVars
<1>3. HandlerInv'
  BY NoneAssumption DEF IInv, TypeOK, FindOwn, Lock, Goto, HandlerInv, Holds
<1>4. TakenInv'
  BY DEF IInv, TypeOK, FindOwn, Lock, Goto, Finished, TakenInv, RunInv,
         PreReady, taskVars, workerVars
<1>5. FilledInv'
  BY FirstOfIsListed
  DEF IInv, TypeOK, FindOwn, Own, Lock, Goto, FilledInv, Holds, Owns, taskVars
<1>6. UnlistedInv'
  BY <1>2 DEF IInv, FindOwn, Lock, UnlistedInv, PreReady, taskVars, workerVars
<1>7. KeyInv'
  <2>1. ASSUME NEW d \in Clients, Holds(d)', NEW u \in Listed', u # task'[d]
        PROVE  ~ Owns(d, u)'
    <3>1. d = c /\ task'[c] = t /\ u \in Listed
      <4>1. \A e \in Clients \ {c} : pc'[e] = pc[e] /\ ~ Holds(e)
        BY NoneAssumption DEF IInv, HandlerInv, FindOwn, Lock, Goto
      <4>2. task'[c] = t
        BY DEF IInv, TypeOK, FindOwn, Lock
      <4> QED
        BY <1>2, <2>1, <4>1, <4>2 DEF Holds
    <3>2. t \in Listed /\ Owns(c, t)
      BY FirstOfIsListed DEF FindOwn, Own
    <3>3. ~ Owns(c, u)
      BY <2>1, <3>1, <3>2, NoneAssumption DEF IInv, UniqueKey, Owns
    <3> QED
      BY <3>1, <3>3 DEF FindOwn, Lock, Owns, taskVars
  <2>2. ASSUME NEW d \in Clients
        PROVE  /\ pc'[d] = "push" => task'[d] \notin Listed'
               /\ pc'[d] \in {"reset", "respond", "success"} => task'[d] \in Listed'
    BY FirstOfIsListed, <1>2 DEF IInv, TypeOK, FindOwn, Lock, Goto, KeyInv
  <2>3. ASSUME NEW u \in Listed', ID'[u] = None \/ FRequestMessage'[u] = None
        PROVE  /\ xMessageMutex' \in Clients
               /\ task'[xMessageMutex'] = u
               /\ pc'[xMessageMutex'] \in {"id", "request"}
    BY NoneAssumption, <1>2, <2>3 DEF IInv, FindOwn, Lock, KeyInv, taskVars
  <2> QED
    BY <2>1, <2>2, <2>3 DEF KeyInv
<1>8. CommandInv'
  BY FirstOfIsListed, <1>2
  DEF IInv, TypeOK, FindOwn, Lock, Goto, CommandInv, taskVars
<1>9. (RunInv /\ ListenerInv /\ DistinctInv /\ UniqueKey /\ AnswerMatches /\ CommandSet)'
  BY <1>2
  DEF IInv, FindOwn, Lock, RunInv, ListenerInv, DistinctInv, UniqueKey,
      AnswerMatches, CommandSet, PreReady, Current, taskVars, workerVars,
      listenVars
<1> QED
  BY <1>1, <1>3, <1>4, <1>5, <1>6, <1>7, <1>8, <1>9 DEF IInv

LEMMA FindFreeInv ==
    ASSUME IInv, NEW c \in Clients, NEW t \in Tasks, FindFree(c, t)
    PROVE  IInv'
<1>1. TypeOK'
  BY TypeNext DEF IInv, Next, Handler, GetInstance
<1>2. Listed' = Listed
  BY DEF FindFree, Lock, Listed, taskVars
<1>3. HandlerInv'
  BY NoneAssumption
  DEF IInv, TypeOK, FindFree, Free, Lock, Goto, HandlerInv, Holds
<1>4. TakenInv'
  BY FirstOfIsListed
  DEF IInv, TypeOK, FindFree, Free, Lock, Goto, TakenInv, RunInv, PreReady,
      taskVars, workerVars
<1>5. FilledInv'
  BY DEF IInv, FindFree, Free, Lock, Goto, FilledInv, Holds, taskVars
<1>6. UnlistedInv'
  BY <1>2
  DEF IInv, FindFree, Free, Lock, UnlistedInv, PreReady, taskVars, workerVars
<1>7. KeyInv'
  BY NoneAssumption, FirstOfIsListed, <1>2
  DEF IInv, TypeOK, FindFree, Own, Free, Lock, Goto, KeyInv, Holds, Owns,
      taskVars
<1>8. CommandInv'
  BY <1>2 DEF IInv, FindFree, Free, Lock, Goto, CommandInv, taskVars
<1>9. (RunInv /\ ListenerInv /\ DistinctInv /\ UniqueKey /\ AnswerMatches /\ CommandSet)'
  BY <1>2
  DEF IInv, FindFree, Free, Lock, RunInv, ListenerInv, DistinctInv, UniqueKey,
      AnswerMatches, CommandSet, PreReady, Current, taskVars, workerVars,
      listenVars
<1> QED
  BY <1>1, <1>3, <1>4, <1>5, <1>6, <1>7, <1>8, <1>9 DEF IInv

LEMMA CreateTaskInv ==
    ASSUME IInv, NEW c \in Clients, NEW t \in Tasks, CreateTask(c, t)
    PROVE  IInv'
<1>1. TypeOK'
  BY TypeNext DEF IInv, Next, Handler, GetInstance
<1>2. Listed' = Listed
  BY DEF CreateTask, Lock, Listed, taskVars
<1>3. HandlerInv'
  BY NoneAssumption DEF IInv, TypeOK, CreateTask, Lock, Goto, HandlerInv, Holds
<1>4. TakenInv'
  BY DEF IInv, TypeOK, CreateTask, Lock, Goto, TakenInv, UnlistedInv, PreReady,
         taskVars, workerVars
<1>5. FilledInv'
  BY DEF IInv, TypeOK, CreateTask, Lock, Goto, FilledInv, UnlistedInv, Holds,
         taskVars
<1>6. UnlistedInv'
  BY <1>2
  DEF IInv, CreateTask, Lock, UnlistedInv, PreReady, taskVars, workerVars
<1>7. KeyInv'
  BY NoneAssumption, <1>2
  DEF IInv, CreateTask, Own, Lock, Goto, KeyInv, Holds, Owns, taskVars
<1>8. CommandInv'
  BY <1>2 DEF IInv, CreateTask, Lock, Goto, CommandInv, taskVars
<1>9. (RunInv /\ ListenerInv /\ DistinctInv /\ UniqueKey /\ AnswerMatches /\ CommandSet)'
  BY <1>2
  DEF IInv, CreateTask, Lock, RunInv, ListenerInv, DistinctInv, UniqueKey,
      AnswerMatches, CommandSet, PreReady, Current, taskVars, workerVars,
      listenVars
<1> QED
  BY <1>1, <1>3, <1>4, <1>5, <1>6, <1>7, <1>8, <1>9 DEF IInv

LEMMA ResetInv ==
    ASSUME IInv, NEW c \in Clients, Reset(c)
    PROVE  IInv'
<1>1. TypeOK'
  BY TypeNext DEF IInv, Next, Handler
<1>2. Listed' = Listed
  BY DEF Reset, Listed
<1>3. HandlerInv'
  BY <1>2 DEF IInv, Reset, Goto, HandlerInv, Holds
<1>4. TakenInv'
  BY <1>1
  DEF IInv, TypeOK, Reset, Goto, TakenInv, HandlerInv, PreReady, Holds,
      workerVars
<1>5. FilledInv'
  BY DEF IInv, TypeOK, Reset, Goto, FilledInv, HandlerInv, Holds
<1>6. RunInv'
  BY DEF IInv, TypeOK, Reset, RunInv, TakenInv, PreReady, Current, workerVars,
         listenVars
<1>7. ListenerInv'
  BY DEF IInv, Reset, ListenerInv, TakenInv, PreReady, Current, workerVars,
         listenVars
<1>8. UnlistedInv'
  BY <1>2 DEF IInv, Reset, UnlistedInv, PreReady, workerVars
<1>9. KeyInv'
  BY NoneAssumption, <1>2
  DEF IInv, TypeOK, Reset, Goto, KeyInv, HandlerInv, Holds, Owns
<1>10. CommandInv'
  BY <1>2 DEF IInv, TypeOK, Reset, Goto, CommandInv
<1>11. UniqueKey'
  <2>1. /\ task[c] \in Tasks
        /\ ID' = [ID EXCEPT ![task[c]] = None]
        /\ FRequestMessage' = [FRequestMessage EXCEPT ![task[c]] = None]
    BY DEF IInv, HandlerInv, Holds, Reset
  <2>2. \A t \in Tasks \ {task[c]} : ID'[t] = ID[t] /\ FRequestMessage'[t] = FRequestMessage[t]
    BY <2>1 DEF IInv, TypeOK
  <2>3. ID'[task[c]] = None
    BY <2>1 DEF IInv, TypeOK
  <2> QED
    BY <1>2, <2>2, <2>3, ListedAreTasks DEF IInv, UniqueKey
<1>12. (DistinctInv /\ AnswerMatches /\ CommandSet)'
  BY DEF IInv, Reset, DistinctInv, AnswerMatches, CommandSet, workerVars
<1> QED
  BY <1>1, <1>3, <1>4, <1>5, <1>6, <1>7, <1>8, <1>9, <1>10, <1>11, <1>12
  DEF IInv

LEMMA SetIDInv ==
    ASSUME IInv, NEW c \in Clients, SetID(c)
    PROVE  IInv'
<1>1. TypeOK'
  BY TypeNext DEF IInv, Next, Handler
<1>2. Listed' = Listed
  BY DEF SetID, Listed
<1>3. HandlerInv'
  BY <1>2 DEF IInv, SetID, Goto, HandlerInv, Holds
<1>4. TakenInv'
  BY DEF IInv, SetID, Goto, TakenInv, PreReady, workerVars
<1>5. FilledInv'
  BY DEF IInv, TypeOK, SetID, Goto, FilledInv, HandlerInv, Holds
<1>6. RunInv'
  BY DEF IInv, SetID, RunInv, TakenInv, PreReady, Current, workerVars,
         listenVars
<1>7. ListenerInv'
  BY DEF IInv, SetID, ListenerInv, FilledInv, PreReady, Current, workerVars,
         listenVars
<1>8. UnlistedInv'
  BY NoneAssumption, <1>2
  DEF IInv, SetID, UnlistedInv, HandlerInv, PreReady, workerVars
<1>9. KeyInv'
  BY <1>2 DEF IInv, SetID, Goto, KeyInv, HandlerInv, Holds, Owns
<1>10. CommandInv'
  BY <1>2 DEF IInv, TypeOK, SetID, Goto, CommandInv
<1>11. UniqueKey'
  BY <1>2 DEF IInv, SetID, UniqueKey, FilledInv, KeyInv
<1>12. (DistinctInv /\ AnswerMatches /\ CommandSet)'
  BY DEF IInv, SetID, DistinctInv, AnswerMatches, CommandSet, workerVars
<1> QED
  BY <1>1, <1>3, <1>4, <1>5, <1>6, <1>7, <1>8, <1>9, <1>10, <1>11, <1>12
  DEF IInv

LEMMA SetRequestMessageInv ==
    ASSUME IInv, NEW c \in Clients, SetRequestMessage(c)
    PROVE  IInv'
<1>1. TypeOK'
  BY TypeNext DEF IInv, Next, Handler
<1>2. Listed' = Listed
  BY DEF SetRequestMessage, Listed
<1>3. HandlerInv'
  BY <1>2 DEF IInv, SetRequestMessage, Goto, HandlerInv, Holds
<1>4. TakenInv'
  BY DEF IInv, SetRequestMessage, Goto, TakenInv, PreReady, workerVars
<1>5. FilledInv'
  BY DEF IInv, TypeOK, SetRequestMessage, Goto, FilledInv, HandlerInv, Holds
<1>6. RunInv'
  BY DEF IInv, SetRequestMessage, RunInv, FilledInv, PreReady, Current,
         workerVars, listenVars
<1>7. UnlistedInv'
  <2>1. task[c] \in Tasks /\ xMessageMutex = c
    BY DEF IInv, HandlerInv, Holds, SetRequestMessage
  <2>2. \A t \in Tasks \ {task[c]} : FRequestMessage'[t] = FRequestMessage[t]
    BY DEF IInv, TypeOK, SetRequestMessage
  <2> QED
    BY <1>2, <2>1, <2>2, NoneAssumption
    DEF IInv, UnlistedInv, PreReady, SetRequestMessage, workerVars
<1>8. KeyInv'
  <2>1. /\ task[c] \in Tasks /\ key[c] \in Keys /\ ID[task[c]] = c /\ xMessageMutex = c
        /\ FRequestMessage'[task[c]] = key[c]
        /\ \A t \in Tasks \ {task[c]} : FRequestMessage'[t] = FRequestMessage[t]
        /\ UNCHANGED <<ID, task, key, xMessageMutex>>
    BY DEF IInv, TypeOK, HandlerInv, FilledInv, Holds, SetRequestMessage
  <2>2. \A d \in Clients : IF d = c THEN Holds(d) /\ pc'[d] = "socket"
                                   ELSE pc'[d] = pc[d] /\ ~ Holds(d)
    BY <2>1 DEF IInv, TypeOK, HandlerInv, SetRequestMessage, Goto
  <2> QED
    BY <1>2, <2>1, <2>2, ListedAreTasks, NoneAssumption
    DEF IInv, KeyInv, Holds, Owns
<1>9. CommandInv'
  BY <1>2 DEF IInv, TypeOK, SetRequestMessage, Goto, CommandInv
<1>10. UniqueKey'
  BY <1>2 DEF IInv, SetRequestMessage, UniqueKey, FilledInv, KeyInv, Holds, Owns
<1>11. (ListenerInv /\ DistinctInv /\ AnswerMatches /\ CommandSet)'
  BY DEF IInv, SetRequestMessage, ListenerInv, DistinctInv, AnswerMatches,
         CommandSet, PreReady, Current, workerVars, listenVars
<1> QED
  BY <1>1, <1>3, <1>4, <1>5, <1>6, <1>7, <1>8, <1>9, <1>10, <1>11 DEF IInv

LEMMA SetConnectionInv ==
    ASSUME IInv, NEW c \in Clients, NEW f \in Fields, SetConnection(c, f)
    PROVE  IInv'
<1>1. TypeOK'
  BY TypeNext DEF IInv, Next, Handler
<1>2. Listed' = Listed
  BY DEF SetConnection, Listed
<1>3. HandlerInv'
  BY DEF IInv, SetConnection, Goto, NextStep, Fields, HandlerInv, Holds
<1>4. TakenInv'
  BY DEF IInv, SetConnection, Goto, NextStep, Fields, TakenInv, PreReady,
         workerVars
<1>5. FilledInv'
  BY DEF IInv, SetConnection, Goto, NextStep, Fields, FilledInv, Holds
<1>6. KeyInv'
  BY <1>2 DEF IInv, SetConnection, Goto, NextStep, Fields, KeyInv, Holds, Owns
<1>7. CommandInv'
  <2>1. task[c] \in Tasks /\ <<c, key[c]>> \in Jobs /\ Listed \subseteq Tasks
    BY DEF IInv, TypeOK, HandlerInv, Holds, Jobs, SetConnection, Fields, Listed
  <2>2. "command" \in Fields
    BY DEF Fields
  <2>3. \A u \in Tasks : \/ settings'[u]["command"] = settings[u]["command"]
                       \/ settings'[u]["command"] = <<c, key[c]>>
    BY <2>2 DEF IInv, TypeOK, SetConnection
  <2>4. pc'[c] \in {"add", "push"} => settings'[task[c]]["command"] = <<c, key[c]>>
    BY <2>1, <2>2 DEF IInv, TypeOK, SetConnection, Goto, NextStep, Fields
  <2>5. <<c, key[c]>> # None
    BY <2>1, NoneAssumption
  <2>6. \A d \in Clients \ {c} : pc'[d] \notin {"add", "push"}
    BY DEF IInv, HandlerInv, Holds, SetConnection, Goto, Fields
  <2> QED
    BY <1>2, <2>1, <2>3, <2>4, <2>5, <2>6 DEF IInv, CommandInv, SetConnection
<1>8. (RunInv /\ ListenerInv /\ UnlistedInv /\ DistinctInv /\ UniqueKey /\ AnswerMatches /\ CommandSet)'
  BY <1>2
  DEF IInv, SetConnection, NextStep, Fields, RunInv, ListenerInv, UnlistedInv,
      DistinctInv, UniqueKey, AnswerMatches, CommandSet, PreReady, Current,
      workerVars, listenVars
<1> QED
  BY <1>1, <1>3, <1>4, <1>5, <1>6, <1>7, <1>8 DEF IInv

LEMMA AddInv ==
    ASSUME IInv, NEW c \in Clients, Add(c)
    PROVE  IInv'
<1>1. TypeOK'
  BY TypeNext DEF IInv, Next, Handler
<1>2. Listed' = Listed
  BY DEF Add, Listed, taskVars
<1>3. HandlerInv'
  BY <1>2 DEF IInv, Add, Goto, HandlerInv, Holds
<1>4. TakenInv'
  BY DEF IInv, Add, Goto, TakenInv, PreReady, taskVars, workerVars
<1>5. FilledInv'
  BY DEF IInv, Add, Goto, FilledInv, Holds, taskVars
<1>6. KeyInv'
  BY <1>2 DEF IInv, Add, Goto, KeyInv, FilledInv, Holds, Owns, taskVars
<1>7. CommandInv'
  BY <1>2 DEF IInv, Add, Goto, CommandInv, taskVars
<1>8. (RunInv /\ ListenerInv /\ UnlistedInv /\ DistinctInv /\ UniqueKey /\ AnswerMatches /\ CommandSet)'
  BY <1>2
  DEF IInv, Add, RunInv, ListenerInv, UnlistedInv, DistinctInv, UniqueKey,
      AnswerMatches, CommandSet, PreReady, Current, taskVars, workerVars,
      listenVars
<1> QED
  BY <1>1, <1>3, <1>4, <1>5, <1>6, <1>7, <1>8 DEF IInv

LEMMA PushBackInv ==
    ASSUME IInv, NEW c \in Clients, PushBack(c)
    PROVE  IInv'
<1>1. TypeOK'
  BY TypeNext DEF IInv, Next, Handler
<1>2. /\ TaskList \in Seq(Tasks)
      /\ task[c] \in Tasks
      /\ TaskList' = Append(TaskList, task[c])
      /\ Listed' = Listed \cup {task[c]}
  <2>1. TaskList \in Seq(Tasks) /\ task[c] \in Tasks /\ TaskList' = Append(TaskList, task[c])
    BY DEF IInv, TypeOK, HandlerInv, Holds, PushBack
  <2> QED
    BY <2>1 DEF Listed
<1>3. HandlerInv'
  BY NoneAssumption
  DEF IInv, TypeOK, PushBack, Goto, Answer, Unlock, HandlerInv, Holds
<1>4. TakenInv'
  BY DEF IInv, PushBack, Goto, Answer, Unlock, TakenInv, PreReady, workerVars
<1>5. FilledInv'
  BY DEF IInv, TypeOK, PushBack, Goto, Answer, Unlock, FilledInv, Holds
<1>6. RunInv'
  BY DEF IInv, TypeOK, PushBack, Answer, Unlock, RunInv, ListenerInv, PreReady,
         Current, workerVars, listenVars
<1>7. ListenerInv'
  BY DEF IInv, TypeOK, PushBack, Answer, Unlock, ListenerInv, PreReady, Current,
         workerVars, listenVars
<1>8. UnlistedInv'
  BY FirstOfIsListed, <1>2
  DEF IInv, PushBack, Answer, Unlock, UnlistedInv, HandlerInv, PreReady, Holds,
      workerVars
<1>9. KeyInv'
  <2>1. ASSUME NEW d \in Clients, Holds(d)', NEW u \in Listed', u # task'[d]
        PROVE  ~ Owns(d, u)'
    BY <2>1 DEF IInv, TypeOK, PushBack, Goto, Answer, Unlock, HandlerInv, Holds
  <2>2. ASSUME NEW d \in Clients
        PROVE  /\ pc'[d] = "push" => task'[d] \notin Listed'
               /\ pc'[d] \in {"reset", "respond", "success"} => task'[d] \in Listed'
    <3>1. pc'[d] \in {"idle", "lock"}
      BY DEF IInv, TypeOK, HandlerInv, Holds, PushBack, Unlock, Goto
    <3> QED
      BY <3>1
  <2>3. ASSUME NEW u \in Listed', ID'[u] = None \/ FRequestMessage'[u] = None
        PROVE  /\ xMessageMutex' \in Clients
               /\ task'[xMessageMutex'] = u
               /\ pc'[xMessageMutex'] \in {"id", "request"}
    <3>1. ID[task[c]] \in Clients /\ FRequestMessage[task[c]] \in Keys
      BY DEF IInv, HandlerInv, FilledInv, Holds, PushBack
    <3>2. u \in Listed /\ (ID[u] = None \/ FRequestMessage[u] = None)
      BY <1>2, <2>3, <3>1, NoneAssumption DEF PushBack
    <3>3. xMessageMutex = c /\ pc[c] = "push"
      BY DEF IInv, HandlerInv, Holds, PushBack
    <3> QED
      BY <3>2, <3>3 DEF IInv, KeyInv
  <2> QED
    BY <2>1, <2>2, <2>3 DEF KeyInv
<1>10. DistinctInv'
  <2>1. task[c] \notin Listed
    BY DEF IInv, KeyInv, PushBack
  <2>2. /\ DOMAIN TaskList = 1 .. Len(TaskList)
        /\ DOMAIN TaskList' = 1 .. Len(TaskList) + 1
        /\ \A i \in DOMAIN TaskList : TaskList'[i] = TaskList[i]
        /\ TaskList'[Len(TaskList) + 1] = task[c]
        /\ Len(TaskList) \in Nat
    BY <1>2
  <2>3. \A i \in DOMAIN TaskList : TaskList[i] # task[c]
    BY <2>1 DEF Listed
  <2> QED
    BY <2>2, <2>3 DEF IInv, DistinctInv
<1>11. CommandInv'
  BY <1>2 DEF IInv, TypeOK, PushBack, Goto, Answer, Unlock, CommandInv
<1>12. UniqueKey'
  <2>1. \A u \in Listed : u # task[c] => ~ Owns(c, u)
    BY DEF IInv, KeyInv, Holds, PushBack
  <2>2. Owns(c, task[c])
    BY DEF IInv, FilledInv, Holds, PushBack, Owns
  <2> QED
    BY <1>2, <2>1, <2>2 DEF IInv, UniqueKey, Owns, PushBack
<1>13. AnswerMatches'
  BY NoneAssumption DEF IInv, PushBack, Answer, Unlock, AnswerMatches
<1>14. CommandSet'
  BY DEF IInv, PushBack, Answer, Unlock, CommandSet, workerVars
<1> QED
  BY <1>1, <1>3, <1>4, <1>5, <1>6, <1>7, <1>8, <1>9, <1>10, <1>11, <1>12, <1>13, <1>14 DEF IInv

LEMMA RespondInv ==
    ASSUME IInv, NEW c \in Clients, Respond(c)
    PROVE  IInv'
<1>1. TypeOK'
  BY TypeNext DEF IInv, Next, Handler
<1>2. Listed' = Listed
  BY DEF Respond, Listed, taskVars
<1>others. /\ \A d \in Clients \ {c} : pc'[d] = pc[d] /\ task'[d] = task[d] /\ ~ Holds(d)
      /\ \/ pc'[c] = "idle" /\ task'[c] = None /\ xMessageMutex' = None
         \/ pc'[c] = "success" /\ task'[c] = task[c] /\ xMessageMutex' = c
  BY DEF IInv, TypeOK, HandlerInv, Holds, Respond, Unlock, Goto
<1>3. HandlerInv'
  BY NoneAssumption
  DEF IInv, TypeOK, Respond, Goto, Answer, Unlock, HandlerInv, Holds
<1>4. TakenInv'
  <2>1. State[task[c]] \in {"Ready", "Error"} \/ pc'[c] = "idle"
    BY <1>others DEF IInv, TypeOK, Respond, Unlock, Goto
  <2>2. task[c] \in Tasks /\ UNCHANGED <<State, starting, phase>>
    BY DEF IInv, HandlerInv, Holds, Respond, taskVars, workerVars
  <2> QED
    BY <1>others, <2>1, <2>2 DEF IInv, TakenInv, RunInv, PreReady
<1>5. FilledInv'
  BY <1>others DEF IInv, FilledInv, Holds, Respond, Answer, taskVars
<1>6. UnlistedInv'
  BY <1>2
  DEF IInv, Respond, Answer, Unlock, UnlistedInv, HandlerInv, KeyInv, PreReady,
      Holds, taskVars, workerVars
<1>7. KeyInv'
  <2>1. ASSUME NEW d \in Clients, Holds(d)', NEW u \in Listed', u # task'[d]
        PROVE  ~ Owns(d, u)'
    BY <1>others, <1>2, <2>1
    DEF IInv, KeyInv, Holds, Owns, Respond, Answer, taskVars
  <2>2. ASSUME NEW d \in Clients
        PROVE  /\ pc'[d] = "push" => task'[d] \notin Listed'
               /\ pc'[d] \in {"reset", "respond", "success"} => task'[d] \in Listed'
    BY <1>2 DEF IInv, TypeOK, Respond, Goto, Answer, Unlock, KeyInv
  <2>3. ASSUME NEW u \in Listed', ID'[u] = None \/ FRequestMessage'[u] = None
        PROVE  /\ xMessageMutex' \in Clients
               /\ task'[xMessageMutex'] = u
               /\ pc'[xMessageMutex'] \in {"id", "request"}
    BY <1>2, <2>3
    DEF IInv, Respond, Answer, Unlock, HandlerInv, KeyInv, Holds, taskVars
  <2> QED
    BY <2>1, <2>2, <2>3 DEF KeyInv
<1>8. CommandInv'
  BY <1>2 DEF IInv, TypeOK, Respond, Goto, Answer, Unlock, CommandInv, taskVars
<1>9. AnswerMatches'
  <2>1. task[c] \in Tasks /\ ID[task[c]] = c /\ FRequestMessage[task[c]] = key[c]
    BY DEF IInv, HandlerInv, FilledInv, Holds, Respond
  <2>2. \/ reply'[c] \in {None, Busy}
        \/ State[task[c]] = "Ready" /\ reply'[c] = ucResponse[task[c]]
    <3>1. PICK r \in {ucResponse[task[c]], Busy, None} :
            /\ reply' = [reply EXCEPT ![c] = r]
            /\ r \in {None, Busy} \/ State[task[c]] = "Ready"
      BY DEF Respond, Answer
    <3>2. reply'[c] = r
      BY <3>1 DEF IInv, TypeOK
    <3> QED
      BY <3>1, <3>2
  <2>3. \A d \in Clients \ {c} : reply'[d] = reply[d]
    BY DEF IInv, TypeOK, Respond, Answer
  <2>4. key' = key
    BY DEF Respond, Answer
  <2> QED
    BY <2>1, <2>2, <2>3, <2>4, NoneAssumption, BusyAssumption
    DEF IInv, AnswerMatches, RunInv
<1>10. (RunInv /\ ListenerInv /\ DistinctInv /\ UniqueKey /\ CommandSet)'
  BY <1>2
  DEF IInv, Respond, Answer, Unlock, RunInv, ListenerInv, DistinctInv,
      UniqueKey, CommandSet, PreReady, Current, taskVars, workerVars, listenVars
<1> QED
  BY <1>1, <1>3, <1>4, <1>5, <1>6, <1>7, <1>8, <1>9, <1>10 DEF IInv

LEMMA MarkSuccessInv ==
    ASSUME IInv, NEW c \in Clients, MarkSuccess(c)
    PROVE  IInv'
<1>1. TypeOK'
  BY TypeNext DEF IInv, Next, Handler
<1>2. Listed' = Listed
  BY DEF MarkSuccess, Listed
<1>3. HandlerInv'
  BY NoneAssumption
  DEF IInv, TypeOK, MarkSuccess, Goto, Unlock, HandlerInv, Holds
<1>4. TakenInv'
  BY DEF IInv, TypeOK, MarkSuccess, Goto, Unlock, TakenInv, HandlerInv, Holds
<1>5. FilledInv'
  BY DEF IInv, TypeOK, MarkSuccess, Goto, Unlock, FilledInv, Holds
<1>6. RunInv'
  BY DEF IInv, MarkSuccess, Unlock, RunInv, TakenInv, PreReady, Current,
         workerVars, listenVars
<1>7. ListenerInv'
  BY DEF IInv, MarkSuccess, Unlock, ListenerInv, TakenInv, PreReady, Current,
         workerVars, listenVars
<1>8. UnlistedInv'
  <2>1. task[c] \in Listed /\ xMessageMutex = c
    BY DEF IInv, KeyInv, HandlerInv, Holds, MarkSuccess
  <2>2. \A t \in Tasks \ {task[c]} : State'[t] = State[t]
    BY DEF IInv, TypeOK, MarkSuccess
  <2> QED
    BY <1>2, <2>1, <2>2 DEF IInv, UnlistedInv, PreReady, MarkSuccess, workerVars
<1>9. KeyInv'
  <2>1. ASSUME NEW d \in Clients, Holds(d)', NEW u \in Listed', u # task'[d]
        PROVE  ~ Owns(d, u)'
    BY <2>1 DEF IInv, TypeOK, MarkSuccess, Goto, Unlock, HandlerInv, Holds
  <2>2. ASSUME NEW d \in Clients
        PROVE  /\ pc'[d] = "push" => task'[d] \notin Listed'
               /\ pc'[d] \in {"reset", "respond", "success"} => task'[d] \in Listed'
    BY <1>2 DEF IInv, TypeOK, MarkSuccess, Goto, Unlock, KeyInv
  <2>3. ASSUME NEW u \in Listed', ID'[u] = None \/ FRequestMessage'[u] = None
        PROVE  /\ xMessageMutex' \in Clients
               /\ task'[xMessageMutex'] = u
               /\ pc'[xMessageMutex'] \in {"id", "request"}
    BY <1>2, <2>3 DEF IInv, MarkSuccess, Unlock, HandlerInv, KeyInv, Holds
  <2> QED
    BY <2>1, <2>2, <2>3 DEF KeyInv
<1>10. CommandInv'
  BY <1>2 DEF IInv, MarkSuccess, Goto, Unlock, CommandInv
<1>11. (DistinctInv /\ UniqueKey /\ AnswerMatches /\ CommandSet)'
  BY <1>2
  DEF IInv, MarkSuccess, Unlock, DistinctInv, UniqueKey, AnswerMatches,
      CommandSet, workerVars
<1> QED
  BY <1>1, <1>3, <1>4, <1>5, <1>6, <1>7, <1>8, <1>9, <1>10, <1>11 DEF IInv

-----------------------------------------------------------------------------
(* The listener.                                                            *)

(* The listener writes nothing but the state of a task and worker threads   *)
(* that have yet to begin.                                                  *)
LEMMA ListenerKeeps ==
    ASSUME IInv, Listener
    PROVE  (HandlerInv /\ FilledInv /\ KeyInv /\ DistinctInv /\ CommandInv
              /\ UniqueKey /\ AnswerMatches /\ CommandSet)'
<1>1. UNCHANGED <<handlerVars, TaskList, ID, FRequestMessage, settings, phase, run>>
  BY DEF Listener, StartPass, ReadState, ReadID, StartThread, SetProcess,
         Expire, MarkUsed, CheckCompleted, MarkFree, PassBy, SetState, taskVars,
         workerVars
<1>2. Listed' = Listed
  BY <1>1 DEF Listed
<1> QED
  BY <1>1, <1>2
  DEF IInv, HandlerInv, FilledInv, KeyInv, DistinctInv, CommandInv, UniqueKey,
      AnswerMatches, CommandSet, Holds, Owns, handlerVars

LEMMA ListenerStep ==
    ASSUME IInv, Listener
    PROVE  IInv'
<1>1. TypeOK'
  BY TypeListener DEF IInv
<1>2. CASE StartPass
  <2>1. Listed' = Listed
    BY <1>2 DEF StartPass, Listed, taskVars
  <2>2. RunInv'
    BY <1>2, <2>1, CurrentIsTask
    DEF IInv, StartPass, RunInv, PreReady, taskVars, workerVars, handlerVars
  <2>3. ListenerInv'
    BY <1>2, <2>1, CurrentIsTask
    DEF IInv, StartPass, ListenerInv, taskVars, handlerVars
  <2>4. (TakenInv /\ UnlistedInv)'
    BY <1>2, <2>1
    DEF IInv, StartPass, TakenInv, UnlistedInv, PreReady, taskVars, workerVars,
        handlerVars
  <2> QED
    BY <1>1, <2>2, <2>3, <2>4, ListenerKeeps DEF IInv
<1>3. CASE ReadState
  <2>1. Listed' = Listed
    BY <1>3 DEF ReadState, Listed, taskVars
  <2>2. RunInv'
    BY <1>3, <2>1, CurrentIsTask
    DEF IInv, ReadState, RunInv, PreReady, taskVars, workerVars, handlerVars
  <2>3. ListenerInv'
    BY <1>3, <2>1, CurrentIsTask
    DEF IInv, ReadState, Current, ListenerInv, RunInv, PreReady, taskVars,
        workerVars, handlerVars
  <2>4. (TakenInv /\ UnlistedInv)'
    BY <1>3, <2>1
    DEF IInv, ReadState, TakenInv, UnlistedInv, PreReady, taskVars, workerVars,
        handlerVars
  <2> QED
    BY <1>1, <2>2, <2>3, <2>4, ListenerKeeps DEF IInv
<1>4. CASE ReadID
  <2>1. Listed' = Listed
    BY <1>4 DEF ReadID, Listed, taskVars
  <2>2. RunInv'
    BY <1>4, <2>1, CurrentIsTask
    DEF IInv, ReadID, Advance, RunInv, PreReady, taskVars, workerVars,
        handlerVars
  <2>3. ListenerInv'
    BY <1>4, <2>1, CurrentIsTask
    DEF IInv, TypeOK, ReadID, Advance, Current, ListenerInv, PreReady, taskVars,
        workerVars, handlerVars
  <2>4. (TakenInv /\ UnlistedInv)'
    BY <1>4, <2>1
    DEF IInv, ReadID, TakenInv, UnlistedInv, PreReady, taskVars, workerVars,
        handlerVars
  <2> QED
    BY <1>1, <2>2, <2>3, <2>4, ListenerKeeps DEF IInv
<1>5. CASE StartThread
  <2>1. Listed' = Listed
    BY <1>5 DEF StartThread, Listed, taskVars
  <2>2. TakenInv'
    BY <1>5, <2>1, CurrentIsTask
    DEF IInv, StartThread, TakenInv, FilledInv, ListenerInv, PreReady, taskVars,
        handlerVars
  <2>3. RunInv'
    BY <1>5, <2>1, CurrentIsTask
    DEF IInv, StartThread, Current, RunInv, ListenerInv, PreReady, taskVars,
        handlerVars
  <2>4. ListenerInv'
    BY <1>5, <2>1, CurrentIsTask
    DEF IInv, StartThread, ListenerInv, taskVars, handlerVars
  <2>5. UnlistedInv'
    BY <1>5, <2>1, CurrentIsTask
    DEF IInv, StartThread, UnlistedInv, PreReady, taskVars, handlerVars
  <2> QED
    BY <1>1, <2>2, <2>3, <2>4, <2>5, ListenerKeeps DEF IInv
<1>6. CASE SetProcess
  <2>1. Listed' = Listed
    BY <1>6 DEF SetProcess, SetState, Listed, taskVars
  <2>2. TakenInv'
    BY <1>6, <2>1, CurrentIsTask
    DEF IInv, SetProcess, SetState, Advance, TakenInv, PreReady, workerVars,
        handlerVars
  <2>3. RunInv'
    BY <1>6, <2>1, CurrentIsTask
    DEF IInv, TypeOK, SetProcess, SetState, Advance, RunInv, PreReady,
        workerVars, handlerVars
  <2>4. ListenerInv'
    BY <1>6, <2>1, CurrentIsTask
    DEF IInv, TypeOK, SetProcess, SetState, Advance, ListenerInv, handlerVars
  <2>5. UnlistedInv'
    BY <1>6, <2>1, CurrentIsTask
    DEF IInv, SetProcess, SetState, Advance, UnlistedInv, PreReady, workerVars,
        handlerVars
  <2> QED
    BY <1>1, <2>2, <2>3, <2>4, <2>5, ListenerKeeps DEF IInv
<1>7. CASE Expire
  <2>1. Listed' = Listed
    BY <1>7 DEF Expire, SetState, Listed, taskVars
  <2>2. TakenInv'
    BY <1>7, <2>1, CurrentIsTask
    DEF IInv, Expire, SetState, Advance, TakenInv, PreReady, workerVars,
        handlerVars
  <2>3. RunInv'
    BY <1>7, <2>1, CurrentIsTask
    DEF IInv, Expire, SetState, Advance, RunInv, ListenerInv, PreReady,
        workerVars, handlerVars
  <2>4. ListenerInv'
    BY <1>7, <2>1, CurrentIsTask
    DEF IInv, TypeOK, Expire, SetState, Advance, ListenerInv, handlerVars
  <2>5. UnlistedInv'
    BY <1>7, <2>1, CurrentIsTask
    DEF IInv, Expire, SetState, Advance, UnlistedInv, PreReady, workerVars,
        handlerVars
  <2> QED
    BY <1>1, <2>2, <2>3, <2>4, <2>5, ListenerKeeps DEF IInv
<1>8. CASE MarkUsed
  <2>1. Listed' = Listed
    BY <1>8 DEF MarkUsed, SetState, Listed, taskVars
  <2>2. TakenInv'
    BY <1>8, <2>1, CurrentIsTask
    DEF IInv, MarkUsed, SetState, Advance, TakenInv, PreReady, workerVars,
        handlerVars
  <2>3. RunInv'
    BY <1>8, <2>1, CurrentIsTask
    DEF IInv, MarkUsed, SetState, Advance, RunInv, ListenerInv, PreReady,
        workerVars, handlerVars
  <2>4. ListenerInv'
    BY <1>8, <2>1, CurrentIsTask
    DEF IInv, TypeOK, MarkUsed, SetState, Advance, ListenerInv, handlerVars
  <2>5. UnlistedInv'
    BY <1>8, <2>1, CurrentIsTask
    DEF IInv, MarkUsed, SetState, Advance, UnlistedInv, PreReady, workerVars,
        handlerVars
  <2> QED
    BY <1>1, <2>2, <2>3, <2>4, <2>5, ListenerKeeps DEF IInv
<1>9. CASE CheckCompleted
  <2>1. Listed' = Listed
    BY <1>9 DEF CheckCompleted, Listed, taskVars
  <2>2. RunInv'
    BY <1>9, <2>1, CurrentIsTask
    DEF IInv, CheckCompleted, RunInv, PreReady, taskVars, workerVars,
        handlerVars
  <2>3. ListenerInv'
    BY <1>9, <2>1, CurrentIsTask
    DEF IInv, CheckCompleted, Current, ListenerInv, PreReady, taskVars,
        workerVars, handlerVars
  <2>4. (TakenInv /\ UnlistedInv)'
    BY <1>9, <2>1
    DEF IInv, CheckCompleted, TakenInv, UnlistedInv, PreReady, taskVars,
        workerVars, handlerVars
  <2> QED
    BY <1>1, <2>2, <2>3, <2>4, ListenerKeeps DEF IInv
<1>10. CASE MarkFree
  <2>1. Listed' = Listed
    BY <1>10 DEF MarkFree, SetState, Listed, taskVars
  <2>2. TakenInv'
    BY <1>10, <2>1, CurrentIsTask
    DEF IInv, MarkFree, SetState, Advance, TakenInv, PreReady, workerVars,
        handlerVars
  <2>3. RunInv'
    BY <1>10, <2>1, CurrentIsTask
    DEF IInv, MarkFree, SetState, Advance, RunInv, ListenerInv, PreReady,
        workerVars, handlerVars
  <2>4. ListenerInv'
    BY <1>10, <2>1, CurrentIsTask
    DEF IInv, TypeOK, MarkFree, SetState, Advance, ListenerInv, handlerVars
  <2>5. UnlistedInv'
    BY <1>10, <2>1, CurrentIsTask
    DEF IInv, MarkFree, SetState, Advance, UnlistedInv, PreReady, workerVars,
        handlerVars
  <2> QED
    BY <1>1, <2>2, <2>3, <2>4, <2>5, ListenerKeeps DEF IInv
<1>11. CASE PassBy
  <2>1. Listed' = Listed
    BY <1>11 DEF PassBy, Listed, taskVars
  <2>2. RunInv'
    BY <1>11, <2>1, CurrentIsTask
    DEF IInv, PassBy, Advance, RunInv, PreReady, taskVars, workerVars,
        handlerVars
  <2>3. ListenerInv'
    BY <1>11, <2>1, CurrentIsTask
    DEF IInv, TypeOK, PassBy, Advance, ListenerInv, taskVars, handlerVars
  <2>4. (TakenInv /\ UnlistedInv)'
    BY <1>11, <2>1
    DEF IInv, PassBy, TakenInv, UnlistedInv, PreReady, taskVars, workerVars,
        handlerVars
  <2> QED
    BY <1>1, <2>2, <2>3, <2>4, ListenerKeeps DEF IInv
<1> QED
  BY <1>2, <1>3, <1>4, <1>5, <1>6, <1>7, <1>8, <1>9, <1>10, <1>11 DEF Listener

-----------------------------------------------------------------------------
(* The workers.                                                             *)

LEMMA WorkerKeeps ==
    ASSUME IInv, NEW t \in Tasks, Worker(t)
    PROVE  (HandlerInv /\ FilledInv /\ KeyInv /\ DistinctInv /\ CommandInv
              /\ UniqueKey /\ AnswerMatches)'
<1>1. UNCHANGED <<handlerVars, TaskList, ID, FRequestMessage, settings>>
  BY DEF Worker, Begin, Finish, Fail, StopWaiting, Exit, taskVars
<1>2. Listed' = Listed
  BY <1>1 DEF Listed
<1> QED
  BY <1>1, <1>2
  DEF IInv, HandlerInv, FilledInv, KeyInv, DistinctInv, CommandInv, UniqueKey,
      AnswerMatches, Holds, Owns, handlerVars

LEMMA WorkerStep ==
    ASSUME IInv, NEW t \in Tasks, Worker(t)
    PROVE  IInv'
<1>1. TypeOK'
  BY TypeWorker DEF IInv
<1>2. CASE Begin(t)
  <2>1. Listed' = Listed
    BY <1>2 DEF Begin, Listed, taskVars
  <2>2. TakenInv'
    BY <1>2, <2>1, CurrentIsTask
    DEF IInv, Begin, TakenInv, PreReady, taskVars, handlerVars
  <2>3. RunInv'
    <3>1. /\ phase' = [phase EXCEPT ![t] = "running"]
          /\ starting' = [starting EXCEPT ![t] = @ - 1]
          /\ run'[t] = [owner |-> ID[t], request |-> FRequestMessage[t],
                        with |-> settings[t]]
          /\ \A u \in Tasks \ {t} : run'[u] = run[u]
      BY <1>2 DEF IInv, TypeOK, Begin
    <3>2. run'[t] \in Runs
      BY <3>1 DEF IInv, TypeOK, Runs
    <3>3. run'[t].owner = ID[t] /\ run'[t].request = FRequestMessage[t]
      BY <3>1
    <3>4. starting[t] = 1 /\ PreReady(t)
      BY <1>2 DEF IInv, TypeOK, RunInv, Begin, PreReady
    <3> QED
      BY <1>2, <3>1, <3>2, <3>3, <3>4
      DEF IInv, TypeOK, RunInv, Begin, PreReady, Current, taskVars, listenVars
  <2>4. ListenerInv'
    BY <1>2, <2>1, CurrentIsTask
    DEF IInv, Begin, ListenerInv, PreReady, Current, taskVars, handlerVars,
        listenVars
  <2>5. UnlistedInv'
    BY <1>2, <2>1, CurrentIsTask
    DEF IInv, Begin, UnlistedInv, PreReady, taskVars, handlerVars
  <2>6. CommandSet'
    BY <1>2, <2>1, CurrentIsTask
    DEF IInv, TypeOK, Begin, CommandSet, CommandInv, UnlistedInv, PreReady,
        handlerVars
  <2> QED
    BY <1>1, <2>2, <2>3, <2>4, <2>5, <2>6, WorkerKeeps DEF IInv
<1>3. CASE Finish(t)
  <2>1. Listed' = Listed
    BY <1>3 DEF Finish, Listed, taskVars
  <2>2. TakenInv'
    BY <1>3, <2>1, CurrentIsTask
    DEF IInv, Finish, TakenInv, PreReady, handlerVars
  <2>3. RunInv'
    BY <1>3, <2>1, CurrentIsTask
    DEF IInv, TypeOK, Finish, RunInv, PreReady, Current, handlerVars, listenVars
  <2>4. ListenerInv'
    BY <1>3, <2>1, CurrentIsTask
    DEF IInv, Finish, ListenerInv, PreReady, Current, handlerVars, listenVars
  <2>5. UnlistedInv'
    BY <1>3, <2>1, CurrentIsTask
    DEF IInv, Finish, UnlistedInv, PreReady, handlerVars
  <2>6. CommandSet'
    BY <1>3, <2>1, CurrentIsTask
    DEF IInv, TypeOK, Finish, CommandSet, CommandInv, handlerVars
  <2> QED
    BY <1>1, <2>2, <2>3, <2>4, <2>5, <2>6, WorkerKeeps DEF IInv
<1>4. CASE Fail(t)
  <2>1. Listed' = Listed
    BY <1>4 DEF Fail, Listed, taskVars
  <2>2. TakenInv'
    BY <1>4, <2>1, CurrentIsTask DEF IInv, Fail, TakenInv, PreReady, handlerVars
  <2>3. RunInv'
    BY <1>4, <2>1, CurrentIsTask
    DEF IInv, TypeOK, Fail, RunInv, PreReady, Current, handlerVars, listenVars
  <2>4. ListenerInv'
    BY <1>4, <2>1, CurrentIsTask
    DEF IInv, Fail, ListenerInv, PreReady, Current, handlerVars, listenVars
  <2>5. UnlistedInv'
    BY <1>4, <2>1, CurrentIsTask
    DEF IInv, Fail, UnlistedInv, PreReady, handlerVars
  <2>6. CommandSet'
    BY <1>4, <2>1, CurrentIsTask
    DEF IInv, TypeOK, Fail, CommandSet, CommandInv, handlerVars
  <2> QED
    BY <1>1, <2>2, <2>3, <2>4, <2>5, <2>6, WorkerKeeps DEF IInv
<1>5. CASE StopWaiting(t)
  <2>1. Listed' = Listed
    BY <1>5 DEF StopWaiting, Listed, taskVars
  <2>2. TakenInv'
    BY <1>5, <2>1, CurrentIsTask
    DEF IInv, StopWaiting, TakenInv, PreReady, taskVars, handlerVars
  <2>3. RunInv'
    BY <1>5, <2>1, CurrentIsTask
    DEF IInv, StopWaiting, RunInv, PreReady, Current, taskVars, handlerVars,
        listenVars
  <2>4. ListenerInv'
    BY <1>5, <2>1, CurrentIsTask
    DEF IInv, StopWaiting, ListenerInv, PreReady, Current, taskVars,
        handlerVars, listenVars
  <2>5. UnlistedInv'
    BY <1>5, <2>1, CurrentIsTask
    DEF IInv, StopWaiting, UnlistedInv, PreReady, taskVars, handlerVars
  <2>6. CommandSet'
    BY <1>5, <2>1, CurrentIsTask
    DEF IInv, StopWaiting, CommandSet, CommandInv, handlerVars
  <2> QED
    BY <1>1, <2>2, <2>3, <2>4, <2>5, <2>6, WorkerKeeps DEF IInv
<1>6. CASE Exit(t)
  <2>1. Listed' = Listed
    BY <1>6 DEF Exit, Listed, taskVars
  <2>2. TakenInv'
    BY <1>6, <2>1, CurrentIsTask DEF IInv, Exit, TakenInv, PreReady, handlerVars
  <2>3. RunInv'
    BY <1>6, <2>1, CurrentIsTask
    DEF IInv, Exit, RunInv, PreReady, Current, handlerVars, listenVars
  <2>4. ListenerInv'
    BY <1>6, <2>1, CurrentIsTask
    DEF IInv, Exit, ListenerInv, PreReady, Current, handlerVars, listenVars
  <2>5. UnlistedInv'
    BY <1>6, <2>1, CurrentIsTask
    DEF IInv, Exit, UnlistedInv, PreReady, handlerVars
  <2>6. CommandSet'
    BY <1>6, <2>1, CurrentIsTask
    DEF IInv, Exit, CommandSet, CommandInv, handlerVars
  <2> QED
    BY <1>1, <2>2, <2>3, <2>4, <2>5, <2>6, WorkerKeeps DEF IInv
<1> QED
  BY <1>2, <1>3, <1>4, <1>5, <1>6 DEF Worker

-----------------------------------------------------------------------------
(* The invariant.                                                           *)

LEMMA InitIInv == Init => IInv
<1> SUFFICES ASSUME Init PROVE IInv
  OBVIOUS
<1>1. Listed = {}
  BY DEF Init, Listed
<1>2. \A t \in Tasks : ~ PreReady(t)
  BY DEF Init, PreReady
<1> QED
  BY <1>1, <1>2, TypeInit, NoneAssumption, BusyAssumption
  DEF Init, IInv, HandlerInv, TakenInv, FilledInv, RunInv, ListenerInv, UnlistedInv,
      KeyInv, DistinctInv, CommandInv, UniqueKey, AnswerMatches,
      CommandSet, Holds

LEMMA HandlerStep ==
    ASSUME IInv, NEW c \in Clients, Handler(c)
    PROVE  IInv'
BY FindOwnInv, FindFreeInv, CreateTaskInv, ResetInv, SetIDInv, SetRequestMessageInv,
   SetConnectionInv, AddInv, PushBackInv, RespondInv, MarkSuccessInv
DEF Handler, GetInstance

LEMMA StutterStep ==
    ASSUME IInv, UNCHANGED vars
    PROVE  IInv'
<1>1. TypeOK'
  BY TypeNext DEF IInv
<1>2. Listed' = Listed
  BY DEF vars, taskVars, Listed
<1> QED
  BY <1>1, <1>2
  DEF IInv, HandlerInv, TakenInv, FilledInv, RunInv, ListenerInv, UnlistedInv,
      KeyInv, DistinctInv, CommandInv, UniqueKey, AnswerMatches,
      CommandSet, Holds, Owns, PreReady,
      Current, vars, taskVars, workerVars, handlerVars, listenVars

LEMMA NextIInv == IInv /\ [Next]_vars => IInv'
<1> SUFFICES ASSUME IInv, [Next]_vars PROVE IInv'
  OBVIOUS
<1> QED
  BY ReceiveInv, HandlerStep, ListenerStep, WorkerStep, StutterStep DEF Next

(* IInv holds in every reachable state. *)
THEOREM Invariance == Spec => []IInv
<1> QED
  BY InitIInv, NextIInv, PTL DEF Spec

(* Every variable keeps its type. *)
THEOREM TypeCorrect == Spec => []TypeOK
<1>1. IInv => TypeOK
  BY DEF IInv
<1> QED
  BY <1>1, Invariance, PTL

(* At most one run of a task is under way, and a task that has one is in    *)
(* ts_Wait or ts_Process: it is not recycled under its worker.              *)
THEOREM RunsExclude == Spec => []OneRun
<1>1. IInv => OneRun
  BY DEF IInv, RunInv, OneRun
<1> QED
  BY <1>1, Invariance, PTL

(* No request of a client is ever answered with what was fetched for        *)
(* another client or for another command.                                   *)
THEOREM AnswersMatch == Spec => []AnswerMatches
<1>1. IInv => AnswerMatches
  BY DEF IInv
<1> QED
  BY <1>1, Invariance, PTL

(* The list has one task at most for a client and a command.                *)
THEOREM KeysUnique == Spec => []UniqueKey
<1>1. IInv => UniqueKey
  BY DEF IInv
<1> QED
  BY <1>1, Invariance, PTL

(* Every run of a task has a command proxy.                                 *)
THEOREM CommandsSet == Spec => []CommandSet
<1>1. IInv => CommandSet
  BY DEF IInv
<1> QED
  BY <1>1, Invariance, PTL

(* A task does not change its owner while a run of it is under way.         *)
THEOREM OwnersStable == Spec => OwnerStable
<1>1. ASSUME IInv, [Next]_vars, NEW t \in Tasks, PreReady(t)
      PROVE  ID'[t] = ID[t]
  <2>1. ASSUME NEW c \in Clients, NEW k \in Keys, Receive(c, k) PROVE ID'[t] = ID[t]
    BY <2>1 DEF Receive, taskVars
  <2>2. ASSUME NEW c \in Clients, Handler(c) PROVE ID'[t] = ID[t]
    <3>1. CASE Reset(c) \/ SetID(c)
      <4>1. task[c] # t
        BY <1>1, <3>1 DEF IInv, TakenInv, Reset, SetID
      <4> QED
        BY <1>1, <3>1, <4>1 DEF IInv, TypeOK, Reset, SetID
    <3>2. CASE ~ (Reset(c) \/ SetID(c))
      BY <2>2, <3>2
      DEF Handler, GetInstance, FindOwn, FindFree, CreateTask, Lock, SetRequestMessage,
          SetConnection, Add, PushBack, Respond, MarkSuccess, taskVars
    <3> QED
      BY <3>1, <3>2
  <2>3. CASE Listener
    BY <2>3
    DEF Listener, StartPass, ReadState, ReadID, StartThread, SetProcess, Expire,
        MarkUsed, CheckCompleted, MarkFree, PassBy, SetState, taskVars
  <2>4. ASSUME NEW u \in Tasks, Worker(u) PROVE ID'[t] = ID[t]
    BY <2>4 DEF Worker, Begin, Finish, Fail, StopWaiting, Exit, taskVars
  <2>5. CASE UNCHANGED vars
    BY <2>5 DEF vars, taskVars
  <2> QED
    BY <1>1, <2>1, <2>2, <2>3, <2>4, <2>5 DEF Next
<1>2. IInv /\ [Next]_vars => [\A t \in Tasks : PreReady(t) => ID'[t] = ID[t]]_vars
  BY <1>1
<1> QED
  BY <1>2, Invariance, PTL DEF Spec, OwnerStable

(* The list never has more tasks than there are commands of clients.  Every *)
(* place of the list is given the request that its task belongs to, or is   *)
(* being filled in for, and no two places get the same one.                 *)
THEOREM PoolBounded == Spec => []PoolBound
<1>1. ASSUME IInv PROVE PoolBound
  <2> DEFINE Held(t) == xMessageMutex \in Clients /\ task[xMessageMutex] = t
             JobOf(t) == IF Held(t) THEN <<xMessageMutex, key[xMessageMutex]>>
                                    ELSE <<ID[t], FRequestMessage[t]>>
             job == [i \in 1 .. Len(TaskList) |-> JobOf(TaskList[i])]
  <2>1. \A i \in 1 .. Len(TaskList) : TaskList[i] \in Tasks /\ TaskList[i] \in Listed
    BY <1>1 DEF IInv, TypeOK, Listed
  <2>2. \A t \in Tasks : t \in Listed /\ ~ Held(t) => ID[t] \in Clients /\ FRequestMessage[t] \in Keys
    BY <1>1 DEF IInv, TypeOK, KeyInv
  <2>3. \A t \in Tasks : Held(t) => Holds(xMessageMutex) /\ key[xMessageMutex] \in Keys
    BY <1>1 DEF IInv, HandlerInv, Holds
  <2>4. \A t \in Listed : JobOf(t) \in Jobs
    BY <1>1, <2>2, <2>3, ListedAreTasks DEF IInv, Jobs
  <2>5. job \in [1 .. Len(TaskList) -> Jobs]
    BY <2>1, <2>4
  <2>6. ASSUME NEW t \in Listed, NEW u \in Listed, JobOf(t) = JobOf(u) PROVE t = u
    <3>1. t \in Tasks /\ u \in Tasks
      BY <1>1, ListedAreTasks DEF IInv
    <3>2. CASE Held(t) /\ Held(u)
      BY <3>2
    <3>3. CASE ~ Held(t) /\ ~ Held(u)
      BY <1>1, <2>2, <2>6, <3>1, <3>3, NoneAssumption DEF IInv, UniqueKey
    <3>4. CASE Held(t) /\ ~ Held(u)
      BY <1>1, <2>3, <2>6, <3>1, <3>4 DEF IInv, KeyInv, Owns
    <3>5. CASE ~ Held(t) /\ Held(u)
      BY <1>1, <2>3, <2>6, <3>1, <3>5 DEF IInv, KeyInv, Owns
    <3> QED
      BY <3>2, <3>3, <3>4, <3>5
  <2>7. \A i, j \in 1 .. Len(TaskList) : job[i] = job[j] => i = j
    <3>1. DOMAIN TaskList = 1 .. Len(TaskList)
      BY <1>1 DEF IInv, TypeOK
    <3> QED
      BY <1>1, <2>1, <2>6, <3>1 DEF IInv, DistinctInv
  <2>8. IsFiniteSet(Jobs) /\ Cardinality(Jobs) \in Nat
    BY FiniteAssumption, FS_Product, FS_CardinalityType DEF Jobs
  <2>9. Len(TaskList) \in Nat
    BY <1>1 DEF IInv, TypeOK
  <2>10. /\ IsFiniteSet(1 .. Len(TaskList))
         /\ Cardinality(1 .. Len(TaskList)) = Len(TaskList)
    <3>1. ASSUME NEW n \in Nat
          PROVE  IsFiniteSet(1 .. n) /\ Cardinality(1 .. n) = n
      <4>1. 1 \in Int /\ n \in Int
        OBVIOUS
      <4>2. /\ IsFiniteSet(1 .. n)
            /\ Cardinality(1 .. n) = IF 1 > n THEN 0 ELSE n - 1 + 1
        BY <4>1, FS_Interval
      <4> QED
        BY <4>2
    <3> QED
      BY <2>9, <3>1
  <2> HIDE DEF job
  <2> QED
    BY <2>5, <2>7, <2>8, <2>9, <2>10, FS_PigeonHole DEF PoolBound
<1> QED
  BY <1>1, Invariance, PTL
=============================================================================

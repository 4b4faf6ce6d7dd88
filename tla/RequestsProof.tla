--------------------------- MODULE RequestsProof ---------------------------
(***************************************************************************)
(* Safety of the request handlers for any number of clients, HTTP workers, *)
(* tasks, sessions and records.  xMessageMutex makes the calls between     *)
(* which a handler takes the shared session, and the calls that fill a     *)
(* task, belong together; the inductive invariant says what the holder of  *)
(* the mutex may rely on at each place, and what everybody may rely on     *)
(* when nobody holds it.                                                   *)
(***************************************************************************)
EXTENDS Requests, LeastElement, FiniteSetTheorems, TLAPS

(* Where a thread can be: in a command that fills a task, in a dialog, or   *)
(* in a place where a client does not hold xMessageMutex.                   *)
FillPcs   == {"loadRS", "setSession", "fill", "setSocket", "setUser", "setCMD", "add"}
ReadPcs   == {"setSocketDS", "setUserDS", "getSocketDS", "getUserDS", "take"}
DialogPcs == {"create", "clear", "open", "check", "copy", "first", "item", "switch",
              "read", "again", "text", "question"}
FreePcs   == {"idle", "lock", "append", "reload", "delete"}
TaskKinds == {"session", "directory", "listDS", "listRS", "syncRS"}

Args == Diagnostic \cup Records \cup {Partial, None} \cup DialogIDs

TypeInv ==
    /\ TypeOK
    /\ pc \in [Threads -> FillPcs \cup ReadPcs \cup DialogPcs \cup FreePcs]
    /\ arg \in [Threads -> Args]
    /\ command \in [Tasks -> TaskKinds \cup {None}]
    /\ listed \in [Tasks -> BOOLEAN] /\ recycled \in [Tasks -> BOOLEAN]

(* Clients exclude each other; the pages are never anywhere but in a dialog. *)
(* What a request carries fits its kind.                                     *)
HandlerInv ==
    /\ \A p \in Pages : pc[p] \in {"idle"} \cup DialogPcs
    /\ \A c \in Clients :
          /\ pc[c] \notin FreePcs <=> xMessageMutex = c
          /\ pc[c] \in FillPcs \cup ReadPcs => kind[c] \in TaskKinds
          /\ pc[c] \in {"setSocketDS", "setUserDS"} => kind[c] = "session"
          /\ pc[c] # "idle" /\ kind[c] = "session" =>
                /\ arg[c] \in Diagnostic \cup {Partial}
                /\ pc[c] # "lock" => arg[c] \in Diagnostic
          /\ pc[c] = "append" => arg[c] \in Records \cup {Partial}

Whole(s) == s.socket = s.user

(* The shared session is whole whenever nobody is between its two setters,   *)
(* and what the holder has read from it is what is there.                    *)
SessionInv ==
    /\ xMessageMutex = None => Whole(FSessionDS)
    /\ \A c \in Clients :
          /\ pc[c] \notin FreePcs \cup {"setUserDS"} => Whole(FSessionDS)
          /\ pc[c] = "setUserDS" => FSessionDS.socket = arg[c]
          /\ pc[c] \in {"getSocketDS", "getUserDS"} /\ kind[c] = "session"
                => FSessionDS = Of(arg[c])
          /\ pc[c] = "getUserDS" => local[c].socket = FSessionDS.socket

(* A handler fills a task that is not yet listed or has been used before.    *)
Filling(c) == pc[c] \in FillPcs \/ (pc[c] \in {"getSocketDS", "getUserDS"} /\ kind[c] # "session")

TaskInv ==
    /\ \A c \in Clients :
          /\ Filling(c) =>
                /\ task[c] \in Tasks
                /\ listed[task[c]] => recycled[task[c]]
                /\ state[task[c]] # "new"
          /\ pc[c] = "setUser" => settings[task[c]].socket = local[c].socket
    /\ \A t \in Tasks :
          /\ state[t] = "new" => ~ listed[t]
          /\ state[t] = "free" => recycled[t]
          /\ state[t] = "run" => listed[t]
          /\ ~ recycled[t] /\ ~ Whole(settings[t]) =>
                \E c \in Clients : pc[c] = "setUser" /\ task[c] = t

(* Every task in use, and every task about to be taken, has cost a request:  *)
(* there is always another object to create.                                 *)
Used == {t \in Tasks : state[t] # "new"}

Asking == {c \in Clients :
              \/ pc[c] \in {"lock", "setSocketDS", "setUserDS", "take"}
              \/ pc[c] \in {"getSocketDS", "getUserDS"} /\ kind[c] = "session"}

CountInv ==
    /\ requests \in Nat /\ requests <= MaxRequests
    /\ IsFiniteSet(Used) /\ IsFiniteSet(Asking)
    /\ Cardinality(Used) + Cardinality(Asking) <= requests

IInv == TypeInv /\ HandlerInv /\ ReadWhole /\ SessionInv /\ TaskInv /\ CountInv

-----------------------------------------------------------------------------
(* Setting a field of a session: its value, and the other one kept. *)
LEMMA SetField ==
    ASSUME NEW s \in Settings, NEW x \in Complete \cup {Partial, Unset}
    PROVE  /\ [s EXCEPT !.socket = x] \in Settings
           /\ [s EXCEPT !.socket = x].socket = x
           /\ [s EXCEPT !.socket = x].user = s.user
           /\ [s EXCEPT !.user = x] \in Settings
           /\ [s EXCEPT !.user = x].user = x
           /\ [s EXCEPT !.user = x].socket = s.socket
  BY Zenon DEF Settings

(* There is an object to create when a handler has come to the point of      *)
(* taking one and none has been released.                                    *)
LEMMA ObjectLeft ==
    ASSUME CountInv, NEW c \in Clients, pc[c] = "take"
    PROVE  Used # Tasks
  <1> SUFFICES ASSUME Used = Tasks PROVE FALSE
    OBVIOUS
  <1>1. c \in Asking
    BY DEF Asking
  <1>2. Cardinality(Asking) \in Nat /\ Cardinality(Asking) # 0
    BY <1>1, FS_CardinalityType, FS_EmptySet DEF CountInv
  <1>3. Cardinality(Used) \in Nat
    BY FS_CardinalityType DEF CountInv
  <1>4. MaxRequests <= Cardinality(Used)
    BY <1>3, TasksAssumption, MaxRequestsAssumption
  <1> QED BY <1>2, <1>3, <1>4, MaxRequestsAssumption DEF CountInv

LEMMA TakenInstance ==
    ASSUME IInv, NEW c \in Clients, pc[c] = "take", NEW t \in Instances
    PROVE  t \in Tasks /\ state[t] \in {"new", "free"}
  <1>1. CASE {u \in Tasks : state[u] = "free"} # {}
    BY <1>1 DEF Instances
  <1>2. CASE {u \in Tasks : state[u] = "free"} = {}
    <2>1. \E u \in Tasks : state[u] = "new"
      BY ObjectLeft DEF IInv, Used
    <2>2. t = CHOOSE u \in Tasks : state[u] = "new"
      BY <1>2 DEF Instances
    <2> QED BY <2>1, <2>2
  <1> QED BY <1>1, <1>2

(* A step after which nobody new has to be given a task. *)
LEMMA CountKept ==
    ASSUME CountInv, Asking' \subseteq Asking, Used' = Used,
           requests' \in {requests, requests + 1}, requests' <= MaxRequests
    PROVE  CountInv'
  <1>1. /\ IsFiniteSet(Asking')
        /\ Cardinality(Asking') <= Cardinality(Asking)
    BY FS_Subset DEF CountInv
  <1>2. /\ Cardinality(Used) \in Nat /\ Cardinality(Asking) \in Nat
        /\ Cardinality(Asking') \in Nat
    BY <1>1, FS_CardinalityType DEF CountInv
  <1> QED BY <1>1, <1>2 DEF CountInv

-----------------------------------------------------------------------------
(* The steps of a client's handler. *)

LEMMA ServeType ==
    ASSUME NEW c \in Clients, IInv, Serve(c)
    PROVE  TypeInv'
  <1> USE DEF IInv, TypeInv, TypeOK, HandlerInv, Threads, Settings, Complete, TaskKinds, FillPcs, ReadPcs, DialogPcs, FreePcs,
              sessionVars, taskVars
  <1>1. CASE Refuse(c)
    BY <1>1 DEF Refuse, Within
  <1>2. CASE StartSession(c)
    BY <1>2 DEF StartSession, Enter
  <1>3. CASE SetSocketDS(c)
    BY <1>3 DEF SetSocketDS, Step
  <1>4. CASE SetUserDS(c)
    BY <1>4 DEF SetUserDS, Step
  <1>5. CASE GetSocketDS(c)
    <2> DEFINE new == [local[c] EXCEPT !.socket = FSessionDS.socket]
    <2>1. local' = [local EXCEPT ![c] = new]
      BY <1>5, Zenon DEF GetSocketDS
    <2>2. local[c] \in Settings /\ FSessionDS.socket \in Complete \cup {Partial, Unset}
      BY <1>5 DEF GetSocketDS, Step, IInv, TaskInv, Filling, Settings
    <2>3. new \in Settings
      BY <2>2, SetField
    <2> HIDE DEF new, Settings
    <2>4. local' \in [Clients -> Settings]
      BY <2>1, <2>3
    <2> QED BY <1>5, <2>4 DEF GetSocketDS, Step
  <1>6. CASE GetUserDS(c)
    <2> DEFINE new == [local[c] EXCEPT !.user = FSessionDS.user]
    <2>1. local' = [local EXCEPT ![c] = new]
      BY <1>6, Zenon DEF GetUserDS
    <2>2. local[c] \in Settings /\ FSessionDS.user \in Complete \cup {Partial, Unset}
      BY <1>6 DEF GetUserDS, Step, IInv, TaskInv, Filling, Settings
    <2>3. new \in Settings
      BY <2>2, SetField
    <2> HIDE DEF new, Settings
    <2>4. local' \in [Clients -> Settings]
      BY <2>1, <2>3
    <2> QED BY <1>6, <2>4 DEF GetUserDS, Step
  <1>7. CASE Start(c)
    BY <1>7 DEF Start, Enter
  <1>8. CASE FindOwn(c)
    BY <1>8 DEF FindOwn, Leave, Return, Of
  <1>9. CASE Take(c)
    <2>1. PICK t \in Instances :
            /\ task' = [task EXCEPT ![c] = t]
            /\ owner' = [owner EXCEPT ![t] = c]
            /\ command' = [command EXCEPT ![t] = kind[c]]
            /\ state' = [state EXCEPT ![t] = "wait"]
      BY <1>9 DEF Take
    <2>2. t \in Tasks /\ state[t] \in {"new", "free"}
      BY <1>9, <2>1, TakenInstance DEF Take, Step
    <2> QED BY <1>9, <2>1, <2>2 DEF Take, Step, FillFrom
  <1>10. CASE LoadRS(c)
    BY <1>10 DEF LoadRS, Step
  <1>11. CASE SetSession(c)
    <2>1. task[c] \in Tasks
      BY <1>11 DEF SetSession, Step, Leave, Return, IInv, TaskInv, Filling
    <2>2. Session(c) \in Settings \/ ~ (Filled(Session(c)) \/ Session(c) = Of(Unset))
      BY DEF Session, Of, Filled
    <2> HIDE DEF Settings
    <2>3. local' \in [Clients -> Settings]
      BY <1>11, <2>2 DEF SetSession
    <2>4. /\ tasksMutex' \in [Tasks -> {"free", "worker", "left"}]
          /\ \A t \in Tasks : tasksMutex'[t] = "worker" <=> state[t] = "run"
      BY <1>11, <2>1 DEF SetSession
    <2> QED BY <1>11, <2>3, <2>4 DEF SetSession, Step
  <1>12. CASE Fill(c)
    <2>1. xSessionRS[c] # None => Of(xSessionRS[c]) \in Settings
      BY DEF Of
    <2>2. Of(Unset) \in Settings
      BY DEF Of
    <2> HIDE DEF Settings
    <2>3. local' \in [Clients -> Settings]
      BY <1>12, <2>1, <2>2 DEF Fill, Leave
    <2>4. task' \in [Clients -> Tasks \cup {None}]
      BY <1>12 DEF Fill, Leave
    <2> QED BY <1>12, <2>3, <2>4 DEF Fill, Step, Leave, Return
  <1>13. CASE SetSocket(c)
    <2> DEFINE new == [settings[task[c]] EXCEPT !.socket = local[c].socket]
    <2>1. settings' = [settings EXCEPT ![task[c]] = new]
      BY <1>13, Zenon DEF SetSocket
    <2>2. settings[task[c]] \in Settings /\ local[c].socket \in Complete \cup {Partial, Unset}
      BY <1>13 DEF SetSocket, Step, IInv, TaskInv, Filling, Settings
    <2>3. new \in Settings
      BY <2>2, SetField
    <2> HIDE DEF new, Settings
    <2>4. settings' \in [Tasks -> Settings]
      BY <2>1, <2>3
    <2> QED BY <1>13, <2>4 DEF SetSocket, Step
  <1>14. CASE SetUser(c)
    <2> DEFINE new == [settings[task[c]] EXCEPT !.user = local[c].user]
    <2>1. settings' = [settings EXCEPT ![task[c]] = new]
      BY <1>14, Zenon DEF SetUser
    <2>2. settings[task[c]] \in Settings /\ local[c].user \in Complete \cup {Partial, Unset}
      BY <1>14 DEF SetUser, Step, IInv, TaskInv, Filling, Settings
    <2>3. new \in Settings
      BY <2>2, SetField
    <2> HIDE DEF new, Settings
    <2>4. settings' \in [Tasks -> Settings]
      BY <2>1, <2>3
    <2> QED BY <1>14, <2>4 DEF SetUser, Step
  <1>15. CASE SetCMD(c)
    BY <1>15 DEF SetCMD, Step
  <1>16. CASE AddToStack(c)
    <2>1. task[c] \in Tasks
      BY <1>16 DEF AddToStack, Step, Leave, Return, IInv, TaskInv, Filling
    <2> QED BY <1>16, <2>1 DEF AddToStack, Leave, Return, Of
  <1>17. CASE AppendRS(c)
    BY <1>17 DEF AppendRS, Step
  <1>18. CASE ReloadRS(c)
    BY <1>18 DEF ReloadRS, Return
  <1>19. CASE DeleteRS(c)
    BY <1>19 DEF DeleteRS, Return
  <1> QED BY <1>1, <1>2, <1>3, <1>4, <1>5, <1>6, <1>7, <1>8, <1>9, <1>10, <1>11, <1>12, <1>13, <1>14, <1>15, <1>16, <1>17, <1>18, <1>19 DEF Serve

LEMMA ServeHandler ==
    ASSUME NEW c \in Clients, IInv, Serve(c)
    PROVE  HandlerInv'
  <1> USE ThreadsAssumption
  <1> USE DEF IInv, TypeInv, TypeOK, HandlerInv, Threads, TaskKinds, FillPcs, ReadPcs, DialogPcs, FreePcs,
              sessionVars, taskVars
  <1>1. CASE Refuse(c)
    BY <1>1 DEF Refuse, Within
  <1>2. CASE StartSession(c)
    BY <1>2 DEF StartSession, Enter
  <1>3. CASE SetSocketDS(c)
    BY <1>3 DEF SetSocketDS, Step
  <1>4. CASE SetUserDS(c)
    BY <1>4 DEF SetUserDS, Step
  <1>5. CASE GetSocketDS(c)
    BY <1>5 DEF GetSocketDS, Step
  <1>6. CASE GetUserDS(c)
    BY <1>6 DEF GetUserDS, Step
  <1>7. CASE Start(c)
    BY <1>7 DEF Start, Enter
  <1>8. CASE FindOwn(c)
    BY <1>8 DEF FindOwn, Leave, Return
  <1>9. CASE Take(c)
    BY <1>9 DEF Take, Step, FillFrom
  <1>10. CASE LoadRS(c)
    BY <1>10 DEF LoadRS, Step
  <1>11. CASE SetSession(c)
    BY <1>11 DEF SetSession, Step
  <1>12. CASE Fill(c)
    BY <1>12 DEF Fill, Step, Leave, Return
  <1>13. CASE SetSocket(c)
    BY <1>13 DEF SetSocket, Step
  <1>14. CASE SetUser(c)
    BY <1>14 DEF SetUser, Step
  <1>15. CASE SetCMD(c)
    BY <1>15 DEF SetCMD, Step
  <1>16. CASE AddToStack(c)
    BY <1>16 DEF AddToStack, Leave, Return
  <1>17. CASE AppendRS(c)
    BY <1>17 DEF AppendRS, Step
  <1>18. CASE ReloadRS(c)
    BY <1>18 DEF ReloadRS, Return
  <1>19. CASE DeleteRS(c)
    BY <1>19 DEF DeleteRS, Return
  <1> QED BY <1>1, <1>2, <1>3, <1>4, <1>5, <1>6, <1>7, <1>8, <1>9, <1>10, <1>11, <1>12, <1>13, <1>14, <1>15, <1>16, <1>17, <1>18, <1>19 DEF Serve

LEMMA ServeSession ==
    ASSUME NEW c \in Clients, IInv, Serve(c)
    PROVE  ReadWhole' /\ SessionInv'
  <1> USE ThreadsAssumption
  <1> USE DEF IInv, TypeInv, TypeOK, HandlerInv, ReadWhole, SessionInv, Whole, Of, Settings, Threads, TaskKinds, FillPcs, ReadPcs, DialogPcs, FreePcs,
              sessionVars, taskVars
  <1>1. CASE Refuse(c)
    BY <1>1 DEF Refuse, Within
  <1>2. CASE StartSession(c)
    BY <1>2 DEF StartSession, Enter
  <1>3. CASE SetSocketDS(c)
    <2>1. arg[c] \in Complete
      BY <1>3 DEF SetSocketDS, Step, Complete
    <2>2. FSessionDS'.socket = arg[c]
      BY <1>3, <2>1, SetField DEF SetSocketDS
    <2>3. pc[c] = "setSocketDS" /\ pc' = [pc EXCEPT ![c] = "setUserDS"]
      BY <1>3 DEF SetSocketDS, Step
    <2>4. UNCHANGED <<kind, arg, xMessageMutex, local>>
      BY <1>3 DEF SetSocketDS, Step
    <2>5. \A d \in Clients : d # c => pc[d] \in FreePcs /\ pc'[d] = pc[d]
      BY <2>3
    <2> HIDE DEF Of
    <2> QED BY <2>2, <2>3, <2>4, <2>5
  <1>4. CASE SetUserDS(c)
    BY <1>4 DEF SetUserDS, Step
  <1>5. CASE GetSocketDS(c)
    BY <1>5 DEF GetSocketDS, Step
  <1>6. CASE GetUserDS(c)
    BY <1>6 DEF GetUserDS, Step
  <1>7. CASE Start(c)
    BY <1>7 DEF Start, Enter
  <1>8. CASE FindOwn(c)
    BY <1>8 DEF FindOwn, Leave, Return
  <1>9. CASE Take(c)
    BY <1>9 DEF Take, Step, FillFrom
  <1>10. CASE LoadRS(c)
    BY <1>10 DEF LoadRS, Step
  <1>11. CASE SetSession(c)
    <2>1. pc[c] = "setSession"
      BY <1>11 DEF SetSession
    <2>2. Whole(FSessionDS) /\ Whole(Of(None)) /\ Whole(Of(xSessionRS[c]))
      BY <2>1
    <2>3. Whole(Session(c))
      BY <2>2 DEF Session
    <2>4. local' = local \/ local' = [local EXCEPT ![c] = Session(c)]
      BY <1>11 DEF SetSession
    <2>5. ReadWhole'
      BY <1>11, <2>1, <2>3, <2>4 DEF SetSession, Step
    <2>6. /\ \E l \in {"fill", "setSocket", "setCMD"} : pc' = [pc EXCEPT ![c] = l]
          /\ UNCHANGED <<FSessionDS, kind, arg, xMessageMutex>>
      BY <1>11 DEF SetSession, Step
    <2>7. SessionInv'
      <3> HIDE DEF Of
      <3> QED BY <2>1, <2>4, <2>6
    <2> QED BY <2>5, <2>7
  <1>12. CASE Fill(c)
    <2>1. /\ pc[c] = "fill" /\ UNCHANGED <<FSessionDS, kind, arg>>
          /\ \/ pc' = [pc EXCEPT ![c] = "setSocket"] /\ xMessageMutex' = xMessageMutex
             \/ pc' = [pc EXCEPT ![c] = "idle"] /\ xMessageMutex' = None
      BY <1>12 DEF Fill, Step, Leave, Return
    <2>2. \E s : Whole(s) /\ local' = [local EXCEPT ![c] = s]
      BY <1>12 DEF Fill, Step, Leave, Return
    <2>3. ReadWhole'
      BY <2>1, <2>2
    <2>4. SessionInv'
      <3> HIDE DEF Of
      <3> QED BY <2>1, <2>2
    <2> QED BY <2>3, <2>4
  <1>13. CASE SetSocket(c)
    BY <1>13 DEF SetSocket, Step
  <1>14. CASE SetUser(c)
    BY <1>14 DEF SetUser, Step
  <1>15. CASE SetCMD(c)
    BY <1>15 DEF SetCMD, Step
  <1>16. CASE AddToStack(c)
    BY <1>16 DEF AddToStack, Leave, Return
  <1>17. CASE AppendRS(c)
    BY <1>17 DEF AppendRS, Step
  <1>18. CASE ReloadRS(c)
    BY <1>18 DEF ReloadRS, Return
  <1>19. CASE DeleteRS(c)
    BY <1>19 DEF DeleteRS, Return
  <1> QED BY <1>1, <1>2, <1>3, <1>4, <1>5, <1>6, <1>7, <1>8, <1>9, <1>10, <1>11, <1>12, <1>13, <1>14, <1>15, <1>16, <1>17, <1>18, <1>19 DEF Serve

LEMMA ServeTask ==
    ASSUME NEW c \in Clients, IInv, Serve(c)
    PROVE  TaskInv'
  <1> USE ThreadsAssumption
  <1> USE DEF IInv, TypeInv, TypeOK, HandlerInv, ReadWhole, TaskInv, Filling, Whole, Threads, TaskKinds, FillPcs, ReadPcs, DialogPcs, FreePcs,
              sessionVars, taskVars
  <1>1. CASE Refuse(c)
    BY <1>1 DEF Refuse, Within
  <1>2. CASE StartSession(c)
    BY <1>2 DEF StartSession, Enter
  <1>3. CASE SetSocketDS(c)
    BY <1>3 DEF SetSocketDS, Step
  <1>4. CASE SetUserDS(c)
    BY <1>4 DEF SetUserDS, Step
  <1>5. CASE GetSocketDS(c)
    BY <1>5 DEF GetSocketDS, Step
  <1>6. CASE GetUserDS(c)
    BY <1>6 DEF GetUserDS, Step
  <1>7. CASE Start(c)
    BY <1>7 DEF Start, Enter
  <1>8. CASE FindOwn(c)
    BY <1>8 DEF FindOwn, Leave, Return
  <1>9. CASE Take(c)
    <2>1. PICK t \in Instances :
            /\ task' = [task EXCEPT ![c] = t]
            /\ owner' = [owner EXCEPT ![t] = c]
            /\ command' = [command EXCEPT ![t] = kind[c]]
            /\ state' = [state EXCEPT ![t] = "wait"]
      BY <1>9 DEF Take
    <2>2. t \in Tasks /\ state[t] \in {"new", "free"}
      BY <1>9, <2>1, TakenInstance DEF Take, Step
    <2> QED BY <1>9, <2>1, <2>2 DEF Take, Step, FillFrom
  <1>10. CASE LoadRS(c)
    BY <1>10 DEF LoadRS, Step
  <1>11. CASE SetSession(c)
    BY <1>11 DEF SetSession, Step, Session
  <1>12. CASE Fill(c)
    BY <1>12 DEF Fill, Step, Leave, Return
  <1>13. CASE SetSocket(c)
    <2>1. /\ pc[c] = "setSocket" /\ pc' = [pc EXCEPT ![c] = "setUser"]
          /\ settings' = [settings EXCEPT ![task[c]].socket = local[c].socket]
          /\ UNCHANGED <<kind, local, task, state, listed, recycled>>
      BY <1>13 DEF SetSocket, Step
    <2>2. \A t \in Tasks \ {task[c]} : settings'[t] = settings[t]
      BY <2>1
    <2>3. ASSUME NEW g \in Clients
          PROVE  /\ Filling(g)' => task[g] \in Tasks /\ state[task[g]] # "new"
                 /\ Filling(g)' => (listed[task[g]] => recycled[task[g]])
                 /\ pc'[g] = "setUser" => settings'[task[g]].socket = local[g].socket
      BY <2>1
    <2>4. ASSUME NEW t \in Tasks, ~ recycled[t], ~ Whole(settings'[t])
          PROVE  \E g \in Clients : pc'[g] = "setUser" /\ task[g] = t
      <3>1. CASE t = task[c]
        BY <2>1, <3>1
      <3>2. CASE t # task[c]
        BY <2>1, <2>2, <2>4, <3>2
      <3> QED BY <3>1, <3>2
    <2> QED BY <2>1, <2>3, <2>4
  <1>14. CASE SetUser(c)
    BY <1>14 DEF SetUser, Step
  <1>15. CASE SetCMD(c)
    BY <1>15 DEF SetCMD, Step
  <1>16. CASE AddToStack(c)
    BY <1>16 DEF AddToStack, Leave, Return
  <1>17. CASE AppendRS(c)
    BY <1>17 DEF AppendRS, Step
  <1>18. CASE ReloadRS(c)
    BY <1>18 DEF ReloadRS, Return
  <1>19. CASE DeleteRS(c)
    BY <1>19 DEF DeleteRS, Return
  <1> QED BY <1>1, <1>2, <1>3, <1>4, <1>5, <1>6, <1>7, <1>8, <1>9, <1>10, <1>11, <1>12, <1>13, <1>14, <1>15, <1>16, <1>17, <1>18, <1>19 DEF Serve

LEMMA ServeAsking ==
    ASSUME NEW c \in Clients, IInv, ~ Take(c), Serve(c)
    PROVE  Asking' \subseteq Asking /\ UNCHANGED <<state, requests>>
  <1> USE DEF IInv, HandlerInv, Asking, TaskKinds, FillPcs, ReadPcs, DialogPcs, FreePcs, TypeInv, TypeOK, Threads, taskVars
  <1>1. CASE Refuse(c)
    BY <1>1 DEF Refuse, Within
  <1>2. CASE StartSession(c)
    BY <1>2 DEF StartSession, Enter
  <1>3. CASE SetSocketDS(c)
    BY <1>3 DEF SetSocketDS, Step
  <1>4. CASE SetUserDS(c)
    BY <1>4 DEF SetUserDS, Step
  <1>5. CASE GetSocketDS(c)
    BY <1>5 DEF GetSocketDS, Step
  <1>6. CASE GetUserDS(c)
    BY <1>6 DEF GetUserDS, Step
  <1>7. CASE Start(c)
    BY <1>7 DEF Start, Enter
  <1>8. CASE FindOwn(c)
    BY <1>8 DEF FindOwn, Leave, Return
  <1>9. CASE Take(c)
    BY <1>9
  <1>10. CASE LoadRS(c)
    BY <1>10 DEF LoadRS, Step
  <1>11. CASE SetSession(c)
    BY <1>11 DEF SetSession, Step
  <1>12. CASE Fill(c)
    BY <1>12 DEF Fill, Step, Leave, Return
  <1>13. CASE SetSocket(c)
    BY <1>13 DEF SetSocket, Step
  <1>14. CASE SetUser(c)
    BY <1>14 DEF SetUser, Step
  <1>15. CASE SetCMD(c)
    BY <1>15 DEF SetCMD, Step
  <1>16. CASE AddToStack(c)
    BY <1>16 DEF AddToStack, Leave, Return
  <1>17. CASE AppendRS(c)
    BY <1>17 DEF AppendRS, Step
  <1>18. CASE ReloadRS(c)
    BY <1>18 DEF ReloadRS, Return
  <1>19. CASE DeleteRS(c)
    BY <1>19 DEF DeleteRS, Return
  <1> QED BY <1>1, <1>2, <1>3, <1>4, <1>5, <1>6, <1>7, <1>8, <1>9, <1>10, <1>11, <1>12, <1>13, <1>14, <1>15, <1>16, <1>17, <1>18, <1>19 DEF Serve

LEMMA ServeCount ==
    ASSUME IInv, NEW c \in Clients, Serve(c)
    PROVE  CountInv'
  <1>1. CASE ~ Take(c)
    BY <1>1, ServeAsking, CountKept DEF IInv, CountInv, Used
  <1>2. CASE Take(c)
    <2>1. PICK t \in Instances :
            /\ task' = [task EXCEPT ![c] = t]
            /\ state' = [state EXCEPT ![t] = "wait"]
      BY <1>2 DEF Take
    <2>2. t \in Tasks /\ state[t] \in {"new", "free"}
      BY <1>2, <2>1, TakenInstance DEF Take, Step
    <2>3. Used' = Used \cup {t}
      BY <2>1, <2>2 DEF Used, IInv, TypeInv, TypeOK
    <2>4. c \in Asking /\ Asking' = Asking \ {c}
      BY <1>2 DEF Take, Step, FillFrom, Asking, IInv, TypeInv, TypeOK, Threads, HandlerInv,
                  TaskKinds, ReadPcs
    <2>5. /\ IsFiniteSet(Used') /\ IsFiniteSet(Asking')
          /\ Cardinality(Used') <= Cardinality(Used) + 1
          /\ Cardinality(Asking') = Cardinality(Asking) - 1
          /\ Cardinality(Used') \in Nat /\ Cardinality(Used) \in Nat /\ Cardinality(Asking) \in Nat
      <3>1. IsFiniteSet(Used) /\ IsFiniteSet(Asking)
        BY DEF IInv, CountInv
      <3>2. /\ IsFiniteSet(Used \cup {t})
            /\ Cardinality(Used \cup {t}) = IF t \in Used THEN Cardinality(Used) ELSE Cardinality(Used) + 1
        BY <3>1, FS_AddElement
      <3>3. /\ IsFiniteSet(Asking \ {c})
            /\ Cardinality(Asking \ {c}) = Cardinality(Asking) - 1
        BY <3>1, <2>4, FS_RemoveElement
      <3>4. /\ Cardinality(Used) \in Nat /\ Cardinality(Asking) \in Nat
            /\ Cardinality(Used \cup {t}) \in Nat
        BY <3>1, <3>2, FS_CardinalityType
      <3> QED BY <2>3, <2>4, <3>1, <3>2, <3>3, <3>4
    <2>6. requests' = requests
      BY <1>2 DEF Take, Step
    <2> QED BY <2>5, <2>6 DEF IInv, CountInv
  <1> QED BY <1>1, <1>2

-----------------------------------------------------------------------------
(* Requests arrive. *)

LEMMA ReceiveKeeps ==
    ASSUME IInv, NEW h \in Threads, NEW k, NEW a \in Args, NEW l,
           Receive(h, k, a, l), UNCHANGED <<sessionVars, taskVars>>,
           h \in Clients => \/ l = "lock" /\ k \in TaskKinds /\ (k = "session" => a \in Diagnostic \cup {Partial})
                            \/ l = "lock" /\ k = "dialog"
                            \/ l = "append" /\ k = "addRS" /\ a \in Records \cup {Partial}
                            \/ l = "delete" /\ k = "deleteRS",
           h \in Pages => l = "create" /\ k = "dialog"
    PROVE  IInv'
  <1> USE ThreadsAssumption
  <1> USE DEF Receive, sessionVars, taskVars, TaskKinds, FillPcs, ReadPcs, DialogPcs, FreePcs, Threads
  <1>1. TypeInv'
    BY DEF IInv, TypeInv, TypeOK
  <1>2. HandlerInv'
    BY DEF IInv, TypeInv, TypeOK, HandlerInv
  <1>3. ReadWhole' /\ SessionInv'
    BY DEF IInv, TypeInv, TypeOK, HandlerInv, ReadWhole, SessionInv
  <1>4. TaskInv'
    BY DEF IInv, TypeInv, TypeOK, HandlerInv, TaskInv, Filling
  <1>5. CountInv'
    <2>1. Asking' \subseteq Asking \cup {h}
      BY DEF IInv, TypeInv, TypeOK, Asking
    <2>2. /\ IsFiniteSet(Asking) /\ Cardinality(Asking) \in Nat /\ Cardinality(Used) \in Nat
      BY FS_CardinalityType DEF IInv, CountInv
    <2>3. /\ IsFiniteSet(Asking \cup {h}) /\ Cardinality(Asking \cup {h}) \in Nat
          /\ Cardinality(Asking \cup {h}) <= Cardinality(Asking) + 1
      <3>1. /\ IsFiniteSet(Asking \cup {h})
            /\ Cardinality(Asking \cup {h}) = IF h \in Asking THEN Cardinality(Asking) ELSE Cardinality(Asking) + 1
        BY <2>2, FS_AddElement
      <3> QED BY <2>2, <3>1
    <2>4. /\ IsFiniteSet(Asking') /\ Cardinality(Asking') <= Cardinality(Asking \cup {h})
      BY <2>1, <2>3, FS_Subset
    <2>5. Cardinality(Asking') \in Nat
      BY <2>4, FS_CardinalityType
    <2>6. Used' = Used
      BY DEF Used
    <2>7. requests' = requests + 1 /\ requests < MaxRequests
      OBVIOUS
    <2> HIDE DEF Receive
    <2> QED BY <2>2, <2>3, <2>4, <2>5, <2>6, <2>7, MaxRequestsAssumption DEF IInv, CountInv
  <1> QED BY <1>1, <1>2, <1>3, <1>4, <1>5 DEF IInv

LEMMA AskInv ==
    ASSUME IInv, NEW c \in Clients, Ask(c)
    PROVE  IInv'
  <1>1. PICK k, a, l :
          /\ Receive(c, k, a, l)
          /\ a \in Args
          /\ \/ l = "lock" /\ k \in TaskKinds /\ (k = "session" => a \in Diagnostic \cup {Partial})
             \/ l = "append" /\ k = "addRS" /\ a \in Records \cup {Partial}
             \/ l = "delete" /\ k = "deleteRS"
    BY DEF Ask, Args, TaskKinds
  <1>2. c \in Threads /\ c \notin Pages
    BY ThreadsAssumption DEF Threads
  <1> QED BY <1>1, <1>2, ReceiveKeeps DEF Ask

LEMMA AskDialogInv ==
    ASSUME IInv, NEW h \in Threads, AskDialog(h), UNCHANGED <<sessionVars, taskVars>>
    PROVE  IInv'
  <1>1. PICK id \in DialogIDs : Receive(h, "dialog", id, IF h \in Clients THEN "lock" ELSE "create")
    BY DEF AskDialog
  <1>2. id \in Args
    BY DEF Args
  <1>3. CASE h \in Clients
    BY <1>1, <1>2, <1>3, ReceiveKeeps, ThreadsAssumption
  <1>4. CASE h \in Pages
    BY <1>1, <1>2, <1>4, ReceiveKeeps, ThreadsAssumption
  <1> QED BY <1>3, <1>4 DEF Threads

-----------------------------------------------------------------------------
(* Of a dialog's steps only this concerns the other requests: it takes the   *)
(* mutex, goes on, or returns.                                               *)

LEMMA DialogMoves ==
    ASSUME NEW h, ServeDialog(h)
    PROVE  \/ kind[h] = "dialog" /\ Enter(h, "create")
           \/ \E from, to \in DialogPcs : Step(h, from, to)
           \/ \E from \in DialogPcs : Return(h, from)
  <1> USE DEF DialogPcs, Send, Finish
  <1>1. CASE EnterDialog(h)
    BY <1>1 DEF EnterDialog
  <1>2. CASE Load(h)
    BY <1>2 DEF Load, CreateNewDialog, Copy, OpenFails, Open, CheckFails, Check
  <1>3. CASE NoList(h) \/ FirstThrows(h) \/ First(h)
    BY <1>3 DEF NoList, FirstThrows, First
  <1>4. CASE GetItemByID(h) \/ SwitchFails(h) \/ SwitchSolution(h) \/ SwitchDialog(h) \/ SwitchGarbage(h)
    BY <1>4 DEF GetItemByID, SwitchFails, SwitchSolution, SwitchDialog, SwitchGarbage
  <1>5. CASE NameMissing(h) \/ ReadName(h) \/ ReadAgain(h) \/ AgainMissing(h)
    BY <1>5 DEF NameMissing, ReadName, ReadAgain, AgainMissing
  <1>6. CASE ReadQuestion(h) \/ ReadGarbage(h) \/ TakeText(h) \/ NoName(h) \/ SolutionText(h)
    BY <1>6 DEF ReadQuestion, ReadGarbage, TakeText, NoName, SolutionText, NextText, LastText
  <1> QED BY <1>1, <1>2, <1>3, <1>4, <1>5, <1>6 DEF ServeDialog

LEMMA DialogInv ==
    ASSUME IInv, NEW h \in Threads, ServeDialog(h), UNCHANGED <<sessionVars, taskVars>>
    PROVE  IInv'
  <1> USE ThreadsAssumption DEF Threads
  <1>1. PICK to \in DialogPcs \cup {"idle"} :
           /\ pc' = [pc EXCEPT ![h] = to]
           /\ \/ /\ pc[h] = "lock" /\ kind[h] = "dialog" /\ to = "create"
                 /\ xMessageMutex = None /\ xMessageMutex' = h
              \/ /\ pc[h] \in DialogPcs /\ to \in DialogPcs
                 /\ xMessageMutex' = xMessageMutex
              \/ /\ pc[h] \in DialogPcs /\ to = "idle"
                 /\ xMessageMutex' = IF xMessageMutex = h THEN None ELSE xMessageMutex
    <2>1. CASE kind[h] = "dialog" /\ Enter(h, "create")
      <3>1. "create" \in DialogPcs
        BY DEF DialogPcs
      <3> QED BY <2>1, <3>1 DEF Enter
    <2>2. CASE \E from, next \in DialogPcs : Step(h, from, next)
      BY <2>2 DEF Step
    <2>3. CASE \E from \in DialogPcs : Return(h, from)
      BY <2>3 DEF Return
    <2> QED BY <2>1, <2>2, <2>3, DialogMoves
  <1>2. UNCHANGED <<kind, arg, requests>>
    BY DialogMoves DEF Enter, Step, Return
  <1>3. UNCHANGED <<firstRecord, FSessionDS, xSessionRS, local, task, listed, recycled, state, owner,
                    settings, command, tasksMutex>>
    BY DEF sessionVars, taskVars
  <1>4. /\ pc \in [Threads -> FillPcs \cup ReadPcs \cup DialogPcs \cup FreePcs]
        /\ xMessageMutex \in Clients \cup {None}
        /\ pc[h] = "lock" => h \in Clients
    BY DEF IInv, TypeInv, TypeOK, HandlerInv, DialogPcs
  <1>5. TypeInv'
    <2>1. pc' \in [Threads -> FillPcs \cup ReadPcs \cup DialogPcs \cup FreePcs]
      <3>1. "idle" \in FreePcs
        BY DEF FreePcs
      <3> QED BY <1>1, <1>4, <3>1
    <2>2. xMessageMutex' \in Clients \cup {None}
      BY <1>1, <1>4
    <2> QED BY <1>2, <1>3, <2>1, <2>2 DEF IInv, TypeInv, TypeOK
  <1>6. /\ pc'[h] \in DialogPcs \cup {"idle"}
        /\ pc[h] \in DialogPcs \cup {"lock"}
        /\ \A g \in Threads : g # h => pc'[g] = pc[g]
    BY <1>1, <1>4
  <1>7. \A c \in Clients : pc'[c] \in FillPcs \cup ReadPcs \cup {"append"} => pc'[c] = pc[c]
    BY <1>6 DEF FillPcs, ReadPcs, DialogPcs
  <1>8. HandlerInv'
    <2>1. \A p \in Pages : pc'[p] \in {"idle"} \cup DialogPcs
      BY <1>6 DEF IInv, HandlerInv
    <2>2. ASSUME NEW c \in Clients PROVE pc'[c] \notin FreePcs <=> xMessageMutex' = c
      <3>1. pc[c] \notin FreePcs <=> xMessageMutex = c
        BY DEF IInv, HandlerInv
      <3>2. CASE c = h
        BY <1>1, <1>4, <1>6, <3>1, <3>2 DEF DialogPcs, FreePcs
      <3>3. CASE c # h
        BY <1>1, <1>6, <3>1, <3>3
      <3> QED BY <3>2, <3>3
    <2>3. ASSUME NEW c \in Clients
          PROVE  /\ pc'[c] \in FillPcs \cup ReadPcs => kind'[c] \in TaskKinds
                 /\ pc'[c] \in {"setSocketDS", "setUserDS"} => kind'[c] = "session"
                 /\ pc'[c] = "append" => arg'[c] \in Records \cup {Partial}
      <3>1. /\ pc[c] \in FillPcs \cup ReadPcs => kind[c] \in TaskKinds
            /\ pc[c] \in {"setSocketDS", "setUserDS"} => kind[c] = "session"
            /\ pc[c] = "append" => arg[c] \in Records \cup {Partial}
        BY DEF IInv, HandlerInv
      <3>2. pc'[c] \in FillPcs \cup ReadPcs \cup {"append"} => pc'[c] = pc[c]
        BY <1>7
      <3>3. {"setSocketDS", "setUserDS"} \subseteq ReadPcs
        BY DEF ReadPcs
      <3> QED BY <1>2, <3>1, <3>2, <3>3
    <2>4. ASSUME NEW c \in Clients, pc'[c] # "idle", kind'[c] = "session"
          PROVE  arg'[c] \in Diagnostic \cup {Partial} /\ (pc'[c] # "lock" => arg'[c] \in Diagnostic)
      <3>1. pc[c] # "idle"
        BY <1>6, <2>4 DEF DialogPcs
      <3>2. /\ arg[c] \in Diagnostic \cup {Partial}
            /\ pc[c] # "lock" => arg[c] \in Diagnostic
        BY <1>2, <2>4, <3>1 DEF IInv, HandlerInv
      <3>3. pc'[c] # "lock" => pc[c] # "lock"
        BY <1>1, <1>2, <1>6, <2>4 DEF DialogPcs
      <3> QED BY <1>2, <3>2, <3>3
    <2> QED BY <2>1, <2>2, <2>3, <2>4 DEF HandlerInv
  <1>9. ReadWhole'
    <2> SUFFICES ASSUME NEW c \in Clients
                 PROVE  /\ pc'[c] # "getUserDS" => local[c].socket = local[c].user
                        /\ pc'[c] = "take" /\ kind[c] = "session" => local[c] = Of(arg[c])
      BY <1>2, <1>3 DEF ReadWhole
    <2>1. pc'[c] # "getUserDS" => pc[c] # "getUserDS"
      BY <1>6 DEF DialogPcs
    <2>2. pc'[c] = "take" => pc[c] = "take"
      BY <1>6 DEF DialogPcs
    <2> QED BY <2>1, <2>2 DEF IInv, ReadWhole
  <1>10. SessionInv'
    <2>1. ASSUME pc[h] \in DialogPcs, h \in Clients PROVE Whole(FSessionDS)
      BY <2>1 DEF IInv, SessionInv, DialogPcs, FreePcs
    <2>2. xMessageMutex' = None => Whole(FSessionDS)
      BY <1>1, <1>4, <2>1 DEF IInv, SessionInv
    <2>3. ASSUME NEW c \in Clients
          PROVE  /\ pc'[c] \notin FreePcs \cup {"setUserDS"} => Whole(FSessionDS)
                 /\ pc'[c] = "setUserDS" => FSessionDS.socket = arg[c]
                 /\ pc'[c] \in {"getSocketDS", "getUserDS"} /\ kind[c] = "session"
                       => FSessionDS = Of(arg[c])
                 /\ pc'[c] = "getUserDS" => local[c].socket = FSessionDS.socket
      <3>1. CASE pc'[c] = pc[c]
        BY <3>1 DEF IInv, SessionInv
      <3>2. CASE pc'[c] # pc[c]
        <4>1. c = h /\ pc'[c] \in DialogPcs \cup {"idle"}
          BY <1>6, <3>2
        <4>2. pc'[c] \in DialogPcs => Whole(FSessionDS)
          BY <1>1, <1>6, <2>1, <4>1 DEF IInv, SessionInv
        <4> QED BY <4>1, <4>2 DEF DialogPcs, FreePcs
      <3> QED BY <3>1, <3>2
    <2> QED BY <1>2, <1>3, <2>2, <2>3 DEF SessionInv, Whole, Of
  <1>11. TaskInv'
    <2> DEFINE Moved(c) == /\ pc'[c] \in DialogPcs \cup {"idle"}
                           /\ pc[c] \in DialogPcs \cup {"lock"}
    <2>1. \A c \in Clients : pc'[c] = pc[c] \/ Moved(c)
      BY <1>6
    <2>2. ASSUME NEW c \in Clients PROVE Filling(c)' => Filling(c)
      BY <1>2, <2>1 DEF Filling, FillPcs, DialogPcs
    <2>3. \A c \in Clients : pc'[c] = "setUser" <=> pc[c] = "setUser"
      BY <2>1 DEF DialogPcs
    <2>4. ASSUME NEW c \in Clients
          PROVE  /\ Filling(c)' => task[c] \in Tasks
                 /\ Filling(c)' => state[task[c]] # "new"
                 /\ Filling(c)' /\ listed[task[c]] => recycled[task[c]]
                 /\ pc'[c] = "setUser" => settings[task[c]].socket = local[c].socket
      BY <2>2, <2>3 DEF IInv, TaskInv
    <2>5. ASSUME NEW t \in Tasks
          PROVE  /\ state[t] = "new" => ~ listed[t]
                 /\ state[t] = "free" => recycled[t]
                 /\ state[t] = "run" => listed[t]
                 /\ ~ recycled[t] /\ ~ Whole(settings[t]) =>
                       \E c \in Clients : pc'[c] = "setUser" /\ task[c] = t
      <3>1. ASSUME ~ recycled[t], ~ Whole(settings[t])
            PROVE  \E c \in Clients : pc'[c] = "setUser" /\ task[c] = t
        <4>1. PICK c \in Clients : pc[c] = "setUser" /\ task[c] = t
          BY <3>1 DEF IInv, TaskInv
        <4> QED BY <2>3, <4>1
      <3> QED BY <3>1 DEF IInv, TaskInv
    <2> QED BY <1>2, <1>3, <2>4, <2>5 DEF TaskInv, Filling, Whole
  <1>12. CountInv'
    <2>1. Asking' \subseteq Asking
      <3> SUFFICES ASSUME NEW c \in Asking' PROVE c \in Asking
        OBVIOUS
      <3>1. pc'[c] = pc[c] \/ pc'[c] \in DialogPcs \cup {"idle"}
        BY <1>6 DEF Asking
      <3> QED BY <1>2, <3>1 DEF Asking, DialogPcs
    <2>2. Used' = Used
      BY <1>3 DEF Used
    <2> QED BY <1>2, <2>1, <2>2, CountKept DEF IInv, CountInv
  <1> QED BY <1>5, <1>8, <1>9, <1>10, <1>11, <1>12 DEF IInv

-----------------------------------------------------------------------------
(* The workers. *)

LEMMA WorkInv ==
    ASSUME IInv, NEW t \in Tasks, WorkStep(t)
    PROVE  IInv'
  <1> USE DEF WorkStep, Connect, Release, handlerVars, sessionVars
  <1>1. TypeInv'
    <2>1. CASE Connect(t)
      BY <2>1 DEF IInv, TypeInv, TypeOK
    <2>2. CASE Release(t)
      BY <2>2 DEF IInv, TypeInv, TypeOK, TaskInv
    <2> QED BY <2>1, <2>2
  <1>2. HandlerInv'
    BY DEF IInv, HandlerInv
  <1>3. ReadWhole' /\ SessionInv'
    BY DEF IInv, ReadWhole, SessionInv
  <1>4. TaskInv'
    BY DEF IInv, TypeInv, TypeOK, TaskInv, Filling
  <1>5. CountInv'
    <2>1. Used' = Used
      BY DEF Used, IInv, TypeInv, TypeOK
    <2>2. Asking' = Asking /\ requests' = requests
      BY DEF Asking
    <2> QED BY <2>1, <2>2, CountKept DEF IInv, CountInv
  <1> QED BY <1>1, <1>2, <1>3, <1>4, <1>5 DEF IInv

-----------------------------------------------------------------------------

LEMMA InitInv == Init => IInv
  <1> SUFFICES ASSUME Init PROVE IInv
    OBVIOUS
  <1> USE DEF Init, HandlersInit, SessionsInit, Threads
  <1>1. TypeInv
    BY DEF TypeInv, TypeOK, FreePcs, Args, Settings, Of, Complete
  <1>2. HandlerInv
    BY ThreadsAssumption DEF HandlerInv, FillPcs, ReadPcs, FreePcs
  <1>3. ReadWhole /\ SessionInv
    BY DEF ReadWhole, SessionInv, FreePcs, Of, Whole
  <1>4. TaskInv
    BY DEF TaskInv, Filling, FillPcs, Of, Whole
  <1>5. CountInv
    <2>1. Used = {} /\ Asking = {}
      BY DEF Used, Asking
    <2> QED BY <2>1, FS_EmptySet, MaxRequestsAssumption DEF CountInv
  <1> QED BY <1>1, <1>2, <1>3, <1>4, <1>5 DEF IInv

LEMMA StepInv == IInv /\ [Next]_vars => IInv'
  <1> SUFFICES ASSUME IInv, [Next]_vars PROVE IInv'
    OBVIOUS
  <1>1. ASSUME NEW c \in Clients, Ask(c) PROVE IInv'
    BY <1>1, AskInv
  <1>2. ASSUME NEW c \in Clients, ClientStep(c) PROVE IInv'
    BY <1>2, ServeType, ServeHandler, ServeSession, ServeTask, ServeCount DEF ClientStep, IInv
  <1>3. ASSUME NEW h \in Threads, AskDialog(h), UNCHANGED <<sessionVars, taskVars>> PROVE IInv'
    BY <1>3, AskDialogInv
  <1>4. ASSUME NEW h \in Threads, DialogStep(h) PROVE IInv'
    BY <1>4, DialogInv DEF DialogStep
  <1>5. ASSUME NEW t \in Tasks, WorkStep(t) PROVE IInv'
    BY <1>5, WorkInv
  <1>6. CASE UNCHANGED vars
    BY <1>6 DEF vars, handlerVars, sessionVars, taskVars, IInv, TypeInv, TypeOK, HandlerInv,
                ReadWhole, SessionInv, TaskInv, Filling, CountInv, Used, Asking
  <1> QED BY <1>1, <1>2, <1>3, <1>4, <1>5, <1>6 DEF Next

THEOREM Invariance == Spec => []IInv
  BY InitInv, StepInv, PTL DEF Spec

-----------------------------------------------------------------------------
(* Every variable keeps its type; in particular a handler that needs a task  *)
(* always gets an object.                                                    *)
THEOREM TypeCorrect == Spec => []TypeOK
  BY Invariance, PTL DEF IInv, TypeInv

(* What a handler reads from the shared session in several calls belongs to  *)
(* one session, and the session command reads back its own.                  *)
THEOREM ReadCorrect == Spec => []ReadWhole
  BY Invariance, PTL DEF IInv

(* A task that was never used before connects with the address and the       *)
(* account of one session.                                                   *)
THEOREM NewTaskCorrect == Spec => []NewTaskWhole
  <1>1. IInv => NewTaskWhole
    BY DEF IInv, TaskInv, NewTaskWhole, Filling, FillPcs, Whole
  <1> QED BY <1>1, Invariance, PTL

(* No request takes the completeness of the shared session away.             *)
THEOREM UsableCorrect == Spec => StaysUsable
  <1>1. ASSUME IInv, [Next]_vars, Filled(FSessionDS)
        PROVE  FSessionDS' = FSessionDS \/ Filled(FSessionDS')
    <2>1. ASSUME NEW c \in Clients, SetSocketDS(c)
          PROVE  Filled(FSessionDS')
      <3>1. arg[c] \in Complete
        BY <1>1, <2>1 DEF SetSocketDS, Step, IInv, HandlerInv, FreePcs, Complete
      <3> QED BY <1>1, <2>1, <3>1, SetField DEF SetSocketDS, Filled, IInv, TypeInv, TypeOK
    <2>2. ASSUME NEW c \in Clients, SetUserDS(c)
          PROVE  Filled(FSessionDS')
      <3>1. arg[c] \in Complete
        BY <1>1, <2>2 DEF SetUserDS, Step, IInv, HandlerInv, FreePcs, Complete
      <3> QED BY <1>1, <2>2, <3>1, SetField DEF SetUserDS, Filled, IInv, TypeInv, TypeOK
    <2>3. ASSUME NEW c \in Clients, Serve(c), ~ SetSocketDS(c), ~ SetUserDS(c)
          PROVE  FSessionDS' = FSessionDS
      BY <2>3 DEF Serve, Refuse, StartSession, GetSocketDS, GetUserDS, Start, FindOwn, Take, LoadRS,
                  SetSession, Fill, SetSocket, SetUser, SetCMD, AddToStack, AppendRS, ReloadRS,
                  DeleteRS, Leave, sessionVars
    <2>4. CASE UNCHANGED sessionVars
      BY <2>4 DEF sessionVars
    <2> QED BY <1>1, <2>1, <2>2, <2>3, <2>4
            DEF Next, Ask, ClientStep, DialogStep, WorkStep, Connect, Release, vars, sessionVars
  <1>2. IInv /\ [Next]_vars => [Filled(FSessionDS) => Filled(FSessionDS')]_FSessionDS
    BY <1>1
  <1> QED BY <1>2, Invariance, PTL DEF Spec, StaysUsable

-----------------------------------------------------------------------------
(* The dialogs: a client that asks for a dialog or a solution while no page  *)
(* is asked for is answered what the file says, for every well-formed file   *)
(* and any number of clients: xMessageMutex keeps the three shared buffers   *)
(* its own from the loading of the file to the last text.                    *)

(* After the item has been found, its texts are looked up. *)
TextPcs == {"read", "again", "question", "text"}

(* A dialog request to a file without empty texts that no page request has   *)
(* overlapped.                                                               *)
Alone(c) == kind[c] = "dialog" /\ ~ disturbed[c] /\ ~ HasEmptyText(file)

ShapeInv ==
    /\ file \in Files \cup {None}
    /\ DOMAIN dialogItem = Threads /\ DOMAIN xDialogItemData = Threads
    /\ DOMAIN sought = Threads /\ DOMAIN texts = Threads
    /\ DOMAIN answer = Threads /\ DOMAIN disturbed = Threads
    /\ \A h \in Threads : pc[h] \notin TextPcs => texts[h] = <<>>
    /\ \A c \in Clients : kind[c] = "dialog" => pc[c] \in {"idle", "lock"} \cup DialogPcs

(* What the buffers hold at each place of the loading. *)
LoadInv(c) ==
    /\ ~ HasEmptyText(file)
    /\ \A p \in Pages : ~ Busy(p)
    /\ pc[c] \in {"check", "copy"} => file # None /\ ucBufFileData = file
    /\ pc[c] \in {"copy", "first", "item", "switch"} \cup TextPcs => file # None /\ file.valid
    /\ pc[c] \in {"first", "item", "switch"} \cup TextPcs => ucReadFileData = file
    /\ pc[c] = "first" => arg[c] = 0

(* The item found is the one to answer with. *)
ItemInv(c) ==
    /\ pc[c] = "item" /\ arg[c] = 0 =>
          /\ OfType(file, "dialog") # {}
          /\ \A i \in OfType(file, "dialog") : Question(file, i) # None
          /\ sought[c] = file.items[Earliest(OfType(file, "dialog"))].id
    /\ pc[c] \in {"switch"} \cup TextPcs =>
          /\ Answer(file, arg[c]) = ItemReply(file, dialogItem[c])
          /\ dialogItem[c] # Nothing =>
                \E i \in 1..Len(file.items) : dialogItem[c] = file.items[i]
    /\ pc[c] = "switch" /\ dialogItem[c] # Nothing => ucItemDataBuf = dialogItem[c].data

(* Of the texts of dialog d the first n have been found, the next is sought. *)
TextsFound(c, d, n) ==
    /\ n < Len(TextIDs(d))
    /\ texts[c] = [j \in 1..n |-> Name(file, TextIDs(d)[j])]
    /\ \A j \in 1..n : Name(file, TextIDs(d)[j]) # None

NextSought(c, id) ==
    LET x == ReadItem(file, id)
    IN  /\ pc[c] = "read" =>
              sought[c] = id \/ (x.type = "dialog" /\ sought[c] = x.data.question)
        /\ pc[c] = "again" => x.type = "dialog" /\ sought[c] = id
        /\ pc[c] = "question" => x.type = "dialog" /\ ucItemDataBuf = x.data
        /\ pc[c] = "text" => ucItemDataBuf = Name(file, id) /\ ucItemDataBuf # None

TextInv(c) ==
    pc[c] \in TextPcs =>
        \/ /\ dialogItem[c].type = "solution"
           /\ pc[c] \in {"read", "text"}
           /\ sought[c] = dialogItem[c].id
           /\ pc[c] = "text" => ucItemDataBuf = dialogItem[c].data
        \/ /\ dialogItem[c].type = "dialog"
           /\ xDialogItemData[c] = dialogItem[c].data
           /\ \E n \in Nat :
                 /\ TextsFound(c, dialogItem[c].data, n)
                 /\ NextSought(c, TextIDs(dialogItem[c].data)[n + 1])

AnswerInv ==
    /\ ShapeInv
    /\ \A c \in Clients : Alone(c) /\ Busy(c) => LoadInv(c) /\ ItemInv(c) /\ TextInv(c)
    /\ AnsweredFromFile

-----------------------------------------------------------------------------
(* The question file.                                                       *)

(* An item is found by its ID, and only by its ID. *)
LEMMA ItemsFound ==
    ASSUME NEW f \in Files, f.valid, NEW id, ReadItem(f, id) # Nothing
    PROVE  \E i \in 1..Len(f.items) : ReadItem(f, id) = f.items[i] /\ f.items[i].id = id
  <1>1. WithID(f, id) # {}
    BY DEF ReadItem
  <1>2. PICK i \in 1..Len(f.items) : f.items[i].id = id
    BY <1>1 DEF WithID
  <1>3. WithID(f, id) = {i} /\ i \in Nat
    BY <1>2, FilesAssumption DEF WithID, WellFormed
  <1>4. Earliest(WithID(f, id)) = i
    BY <1>3 DEF Earliest
  <1> QED BY <1>1, <1>2, <1>4 DEF ReadItem

LEMMA ItemByOwnID ==
    ASSUME NEW f \in Files, f.valid, NEW i \in 1..Len(f.items)
    PROVE  ReadItem(f, f.items[i].id) = f.items[i]
  <1>1. WithID(f, f.items[i].id) = {i} /\ i \in Nat
    BY FilesAssumption DEF WithID, WellFormed
  <1>2. Earliest(WithID(f, f.items[i].id)) = i
    BY <1>1 DEF Earliest
  <1> QED BY <1>1, <1>2 DEF ReadItem

LEMMA EarliestPlace ==
    ASSUME NEW f \in Files, NEW type, OfType(f, type) # {}
    PROVE  Earliest(OfType(f, type)) \in OfType(f, type)
  <1>1. OfType(f, type) \subseteq Nat
    BY FilesAssumption DEF OfType, WellFormed
  <1> QED BY <1>1, LeastNatural DEF Earliest

(* Found items have IDs that are not negative, and, unless there are empty   *)
(* texts, data that is copied.                                               *)
LEMMA ItemData ==
    ASSUME NEW f \in Files, f # None, f.valid, ~ HasEmptyText(f),
           NEW id, ReadItem(f, id) # Nothing
    PROVE  id \in Nat /\ ReadItem(f, id).data \notin {None, Empty}
  <1>1. PICK i \in 1..Len(f.items) : ReadItem(f, id) = f.items[i] /\ f.items[i].id = id
    BY ItemsFound
  <1>2. f.items[i].id \in Nat /\ f.items[i].data # None
    BY FilesAssumption DEF WellFormed
  <1> QED BY <1>1, <1>2 DEF HasEmptyText

(* Names: of a negative ID, of nothing, of a text, and of a dialog, whose    *)
(* question is none.                                                         *)
LEMMA Names ==
    ASSUME NEW f \in Files, f # None, f.valid, ~ HasEmptyText(f), NEW id \in Int
    PROVE  LET x == ReadItem(f, id)
           IN  /\ id < 0 => x = Nothing /\ Name(f, id) = Empty
               /\ id >= 0 /\ x = Nothing => Name(f, id) = None
               /\ x # Nothing /\ x.type # "dialog" => Name(f, id) = x.data
               /\ x.type = "dialog" =>
                     /\ x # Nothing
                     /\ x.data.question \in Int
                     /\ Name(f, id) = NameOfText(f, x.data.question)
                     /\ ReadItem(f, x.data.question).type # "dialog"
  <1> DEFINE x == ReadItem(f, id)
  <1>1. Nothing.type = "empty" /\ Nothing.data = None
    BY DEF Nothing
  <1>2. id < 0 => x = Nothing
    BY ItemData
  <1>3. CASE x = Nothing
    BY <1>1, <1>3 DEF Name, NameOfText
  <1>4. CASE x # Nothing
    <2>1. PICK i \in 1..Len(f.items) : x = f.items[i]
      BY <1>4, ItemsFound
    <2>2. x.type = "dialog" => /\ x.data.question \in Int
                               /\ ReadItem(f, x.data.question).type # "dialog"
      BY <2>1, FilesAssumption DEF WellFormed, OfType
    <2>3. id >= 0
      BY <1>2, <1>4
    <2> QED BY <1>4, <2>2, <2>3 DEF Name, NameOfText
  <1> QED BY <1>3, <1>4

(* The texts of a dialog: its question first, then one for every answer.     *)
LEMMA TextsOfDialog ==
    ASSUME NEW f \in Files, NEW i \in OfType(f, "dialog")
    PROVE  LET ids == TextIDs(f.items[i].data)
           IN  /\ Len(ids) \in Nat /\ 0 < Len(ids) /\ ids[1] = f.items[i].data.question
               /\ \A n \in 1..Len(ids) : ids[n] \in Int
  <1> DEFINE d == f.items[i].data
             rest == [n \in 1..Len(d.answers) |-> d.answers[n].text]
  <1>1. /\ Len(d.answers) \in Nat
        /\ d.question \in Int /\ \A n \in 1..Len(d.answers) : d.answers[n].text \in Int
    BY FilesAssumption DEF WellFormed, OfType
  <1>2. rest \in Seq(Int)
    BY <1>1
  <1>3. <<d.question>> \in Seq(Int)
    BY <1>1
  <1>4. TextIDs(d) = <<d.question>> \o rest
    BY DEF TextIDs
  <1> HIDE DEF rest
  <1> QED BY <1>2, <1>3, <1>4

(* The search for the texts ends at the first that is missing. *)
LEMMA ReplyFound ==
    ASSUME NEW f, NEW d, Len(TextIDs(d)) \in Nat, NEW n \in 0..Len(TextIDs(d)),
           \A j \in 1..n : Name(f, TextIDs(d)[j]) # None,
           n < Len(TextIDs(d)) => Name(f, TextIDs(d)[n + 1]) = None
    PROVE  DialogReply(f, d) = Reply(d, [j \in 1..n |-> Name(f, TextIDs(d)[j])])
  <1> DEFINE ids == TextIDs(d)
             Found(m) == /\ \A j \in 1..m : Name(f, ids[j]) # None
                         /\ m < Len(ids) => Name(f, ids[m + 1]) = None
             found == CHOOSE m \in 0..Len(ids) : Found(m)
  <1>1. Found(n)
    OBVIOUS
  <1>2. ASSUME NEW m \in 0..Len(ids), Found(m) PROVE m = n
    <2>1. ~ (m < n)
      BY <1>2
    <2>2. ~ (n < m)
      BY <1>1, <1>2
    <2> QED BY <2>1, <2>2
  <1>3. found = n
    <2> HIDE DEF Found
    <2> QED BY <1>1, <1>2
  <1>4. DialogReply(f, d) = Reply(d, [j \in 1..found |-> Name(f, ids[j])])
    BY DEF DialogReply
  <1> QED BY <1>3, <1>4

-----------------------------------------------------------------------------
(* The steps of a client's own undisturbed request.                          *)

OwnInv(c) == LoadInv(c) /\ ItemInv(c) /\ TextInv(c)

(* After a step of the request it is either still as it should be, or        *)
(* answered.                                                                 *)
Served(c) ==
    \/ Busy(c)' /\ OwnInv(c)'
    \/ ~ Busy(c)' /\ answer'[c] = Answer(file, arg[c])

LEMMA PagesWait ==
    ASSUME IInv, NEW c \in Clients, \A p \in Pages : ~ Busy(p),
           NEW l, pc' = [pc EXCEPT ![c] = l]
    PROVE  \A p \in Pages : ~ Busy(p)'
  BY ThreadsAssumption DEF IInv, TypeInv, Threads, Busy

LEMMA LoadStep ==
    ASSUME IInv, ShapeInv, NEW c \in Clients, OwnInv(c), EnterDialog(c) \/ Load(c)
    PROVE  Served(c)
  <1> USE DEF OwnInv, LoadInv, ItemInv, TextInv, Served, TextPcs
  <1>0. c \in Threads /\ DOMAIN pc = Threads
    BY DEF Threads, IInv, TypeInv
  <1>1. CASE EnterDialog(c)
    BY <1>0, <1>1, PagesWait DEF EnterDialog, Enter, Busy, dialogVars, bufferVars, replyVars
  <1>2. CASE CreateNewDialog(c)
    BY <1>0, <1>2, PagesWait DEF CreateNewDialog, Step, Busy, replyVars
  <1>3. CASE Copy(c, "clear", "open")
    BY <1>0, <1>3, PagesWait DEF Copy, Step, Busy, replyVars
  <1>4. CASE Open(c)
    BY <1>0, <1>4, PagesWait DEF Open, Step, Busy, replyVars
  <1>5. CASE Check(c)
    BY <1>0, <1>5, PagesWait DEF Check, Step, Busy, dialogVars, bufferVars, replyVars
  <1>6. CASE Copy(c, "copy", IF arg[c] = 0 THEN "first" ELSE "item")
    BY <1>0, <1>6, PagesWait DEF Copy, Step, Busy, replyVars
  <1>7. CASE OpenFails(c)
    BY <1>0, <1>7 DEF OpenFails, Send, Finish, Return, Busy, ShapeInv, Answer
  <1>8. CASE CheckFails(c)
    BY <1>0, <1>8 DEF CheckFails, Send, Finish, Return, Busy, ShapeInv, Answer
  <1> QED BY <1>1, <1>2, <1>3, <1>4, <1>5, <1>6, <1>7, <1>8 DEF Load

LEMMA FirstStep ==
    ASSUME IInv, ShapeInv, NEW c \in Clients, OwnInv(c), NoList(c) \/ FirstThrows(c) \/ First(c)
    PROVE  Served(c)
  <1> USE DEF OwnInv, LoadInv, ItemInv, TextInv, Served, TextPcs
  <1>0. c \in Threads /\ DOMAIN pc = Threads
    BY DEF Threads, IInv, TypeInv
  <1>1. CASE First(c)
    BY <1>0, <1>1, PagesWait DEF First, Step, Busy, ShapeInv
  <1>2. CASE NoList(c)
    BY <1>0, <1>2 DEF NoList, Send, Finish, Return, Busy, ShapeInv, Answer
  <1>3. CASE FirstThrows(c)
    BY <1>0, <1>3 DEF FirstThrows, Finish, Return, Busy, ShapeInv, Answer
  <1> QED BY <1>1, <1>2, <1>3

LEMMA ItemStep ==
    ASSUME IInv, ShapeInv, NEW c \in Clients, OwnInv(c), GetItemByID(c)
    PROVE  Served(c)
  <1> DEFINE x == ReadItem(file, IF arg[c] = 0 THEN sought[c] ELSE arg[c])
  <1>0. c \in Threads /\ DOMAIN pc = Threads
    BY DEF Threads, IInv, TypeInv
  <1>1. /\ pc[c] = "item" /\ pc' = [pc EXCEPT ![c] = "switch"]
        /\ file \in Files /\ file # None /\ file.valid /\ ucReadFileData = file
        /\ UNCHANGED <<arg, file, ucReadFileData>>
    BY DEF GetItemByID, Step, OwnInv, LoadInv, ShapeInv
  <1>2. dialogItem' = [dialogItem EXCEPT ![c] = x] /\ ucItemDataBuf' = Buffered(x)
    BY <1>1 DEF GetItemByID
  <1>3. x # Nothing => \E i \in 1..Len(file.items) : x = file.items[i]
    BY <1>1, ItemsFound
  <1>9. x # Nothing => Buffered(x) = x.data
    BY <1>1, ItemData DEF Buffered, OwnInv, LoadInv
  <1>4. Answer(file, arg[c]) = ItemReply(file, x)
    <2>1. CASE arg[c] # 0
      BY <1>1, <2>1 DEF Answer
    <2>2. CASE arg[c] = 0
      <3> DEFINE first == Earliest(OfType(file, "dialog"))
      <3>1. /\ OfType(file, "dialog") # {}
            /\ \A i \in OfType(file, "dialog") : Question(file, i) # None
            /\ sought[c] = file.items[first].id
        BY <1>1, <2>2 DEF OwnInv, ItemInv
      <3>2. first \in 1..Len(file.items)
        BY <1>1, <3>1, EarliestPlace DEF OfType
      <3>3. x = file.items[first]
        BY <1>1, <2>2, <3>1, <3>2, ItemByOwnID
      <3> QED BY <1>1, <2>2, <3>1, <3>3 DEF Answer
    <2> QED BY <2>1, <2>2
  <1> HIDE DEF x
  <1>5. dialogItem'[c] = x
    BY <1>0, <1>2 DEF ShapeInv
  <1>6. LoadInv(c)'
    BY <1>0, <1>1, PagesWait DEF OwnInv, LoadInv, TextPcs, Busy
  <1>7. ItemInv(c)'
    BY <1>0, <1>1, <1>2, <1>3, <1>4, <1>5, <1>9 DEF ItemInv, TextPcs
  <1>8. TextInv(c)' /\ Busy(c)'
    BY <1>0, <1>1 DEF TextInv, TextPcs, Busy
  <1> QED BY <1>6, <1>7, <1>8 DEF Served, OwnInv

LEMMA SwitchStep ==
    ASSUME IInv, ShapeInv, NEW c \in Clients, OwnInv(c),
           SwitchFails(c) \/ SwitchSolution(c) \/ SwitchDialog(c) \/ SwitchGarbage(c)
    PROVE  Served(c)
  <1> DEFINE x == dialogItem[c]
  <1>0. c \in Threads /\ DOMAIN pc = Threads
    BY DEF Threads, IInv, TypeInv
  <1>1. /\ pc[c] = "switch"
        /\ file \in Files /\ file # None /\ file.valid /\ ucReadFileData = file
        /\ Answer(file, arg[c]) = ItemReply(file, x)
        /\ x # Nothing => /\ \E i \in 1..Len(file.items) : x = file.items[i]
                          /\ ucItemDataBuf = x.data
    BY DEF SwitchFails, SwitchSolution, SwitchDialog, SwitchGarbage, Step, Send, Finish, Return,
           OwnInv, LoadInv, ItemInv, ShapeInv
  <1>2. Nothing.type = "empty"
    BY DEF Nothing
  <1>3. CASE SwitchFails(c)
    <2>1. ~ Busy(c)' /\ answer'[c] = NotFound
      BY <1>0, <1>3 DEF SwitchFails, Send, Finish, Return, Busy, ShapeInv
    <2>2. ItemReply(file, x) = NotFound
      BY <1>3 DEF SwitchFails, ItemReply
    <2> QED BY <1>1, <2>1, <2>2 DEF Served
  <1>4. ASSUME SwitchSolution(c) \/ SwitchDialog(c)
        PROVE  Busy(c)' /\ LoadInv(c)' /\ ItemInv(c)'
    <2>1. /\ pc' = [pc EXCEPT ![c] = "read"]
          /\ UNCHANGED <<arg, bufferVars, dialogItem>>
      BY <1>4 DEF SwitchSolution, SwitchDialog, Step
    <2>2. LoadInv(c)' /\ Busy(c)'
      BY <1>0, <1>1, <2>1, PagesWait DEF OwnInv, LoadInv, TextPcs, Busy, bufferVars
    <2>3. ItemInv(c)'
      BY <1>0, <1>1, <2>1 DEF ItemInv, TextPcs, bufferVars
    <2> QED BY <2>2, <2>3
  <1>5. CASE SwitchSolution(c)
    <2>1. TextInv(c)'
      BY <1>0, <1>5 DEF SwitchSolution, Step, TextInv, TextPcs, ShapeInv
    <2> QED BY <1>4, <1>5, <2>1 DEF Served, OwnInv
  <1>6. CASE SwitchDialog(c)
    <2>1. x.type = "dialog" /\ x # Nothing
      BY <1>2, <1>6 DEF SwitchDialog
    <2>2. PICK i \in OfType(file, "dialog") : x = file.items[i]
      BY <1>1, <2>1 DEF OfType
    <2>3. /\ Len(TextIDs(x.data)) \in Nat /\ 0 < Len(TextIDs(x.data))
          /\ TextIDs(x.data)[1] = x.data.question
      BY <1>1, <2>2, TextsOfDialog
    <2>4. /\ pc'[c] = "read" /\ dialogItem'[c] = x /\ file' = file
          /\ xDialogItemData'[c] = x.data /\ sought'[c] = x.data.question
          /\ texts'[c] = <<>>
      BY <1>0, <1>1, <1>6, <2>1 DEF SwitchDialog, Step, ShapeInv, TextPcs, bufferVars
    <2>5. TextsFound(c, x.data, 0)'
      BY <2>3, <2>4 DEF TextsFound
    <2>6. NextSought(c, x.data.question)'
      BY <2>4 DEF NextSought
    <2>7. TextInv(c)'
      BY <2>1, <2>3, <2>4, <2>5, <2>6 DEF TextInv
    <2> QED BY <1>4, <1>6, <2>7 DEF Served, OwnInv
  <1>7. CASE SwitchGarbage(c)
    <2>1. x.type = "dialog" /\ x # Nothing
      BY <1>2, <1>7 DEF SwitchGarbage
    <2>2. IsDialog(ucItemDataBuf)
      BY <1>1, <2>1 DEF IsDialog
    <2> QED BY <1>7, <2>2 DEF SwitchGarbage
  <1> QED BY <1>3, <1>5, <1>6, <1>7

(* The search for the text of a solution. *)
LEMMA SolutionStep ==
    ASSUME IInv, ShapeInv, NEW c \in Clients, OwnInv(c), pc[c] \in TextPcs,
           dialogItem[c].type = "solution",
           \/ NameMissing(c) \/ ReadName(c) \/ ReadAgain(c) \/ AgainMissing(c)
           \/ ReadQuestion(c) \/ ReadGarbage(c) \/ TakeText(c) \/ NoName(c) \/ SolutionText(c)
    PROVE  Served(c)
  <1> DEFINE x == dialogItem[c]
  <1>0. c \in Threads /\ DOMAIN pc = Threads
    BY DEF Threads, IInv, TypeInv
  <1>1. /\ file \in Files /\ file # None /\ file.valid /\ ucReadFileData = file
        /\ Answer(file, arg[c]) = ItemReply(file, x)
        /\ x # Nothing => \E i \in 1..Len(file.items) : x = file.items[i]
        /\ pc[c] \in {"read", "text"} /\ sought[c] = x.id
        /\ pc[c] = "text" => ucItemDataBuf = x.data
    BY DEF OwnInv, LoadInv, ItemInv, TextInv, ShapeInv
  <1>2. x # Nothing
    BY DEF Nothing
  <1>3. ReadItem(file, x.id) = x
    BY <1>1, <1>2, ItemByOwnID
  <1>8. x.id \in Nat /\ Buffered(x) = x.data
    BY <1>1, <1>2, <1>3, ItemData DEF OwnInv, LoadInv, Buffered
  <1>4. CASE ReadName(c)
    <2>1. /\ pc[c] = "read" /\ pc' = [pc EXCEPT ![c] = "text"]
          /\ UNCHANGED <<arg, file, ucReadFileData, dialogItem, sought>>
          /\ ucItemDataBuf' = x.data
      BY <1>1, <1>3, <1>4, <1>8 DEF ReadName, Step, replyVars
    <2>2. LoadInv(c)' /\ Busy(c)'
      BY <1>0, <1>1, <2>1, PagesWait DEF OwnInv, LoadInv, TextPcs, Busy
    <2>3. ItemInv(c)' /\ TextInv(c)'
      BY <1>0, <1>1, <2>1 DEF ItemInv, TextInv, TextPcs
    <2> QED BY <2>2, <2>3 DEF Served, OwnInv
  <1>5. CASE SolutionText(c)
    <2>1. ~ Busy(c)' /\ answer'[c] = Solution(x.data)
      BY <1>0, <1>1, <1>5 DEF SolutionText, Send, Finish, Return, Busy, ShapeInv
    <2>2. ItemReply(file, x) = Solution(x.data)
      BY DEF ItemReply
    <2> QED BY <1>1, <2>1, <2>2 DEF Served
  <1>6. CASE NameMissing(c)
    BY <1>1, <1>2, <1>3, <1>6 DEF NameMissing
  <1>7. ~ ReadAgain(c) /\ ~ AgainMissing(c) /\ ~ ReadQuestion(c) /\ ~ ReadGarbage(c)
    BY <1>1 DEF ReadAgain, AgainMissing, ReadQuestion, ReadGarbage, Step, Send, Finish, Return
  <1>9. ~ TakeText(c) /\ ~ NoName(c)
    BY <1>1, <1>8 DEF TakeText, NoName, NextText, LastText
  <1> QED BY <1>4, <1>5, <1>6, <1>7, <1>9

(* ... and for the texts of a dialog: each is its item's, or, where the item *)
(* is itself a dialog, that dialog's question.                               *)
LEMMA DialogStepServed ==
    ASSUME IInv, ShapeInv, NEW c \in Clients, OwnInv(c), pc[c] \in TextPcs,
           dialogItem[c].type = "dialog",
           \/ NameMissing(c) \/ ReadName(c) \/ ReadAgain(c) \/ AgainMissing(c)
           \/ ReadQuestion(c) \/ ReadGarbage(c) \/ TakeText(c) \/ NoName(c) \/ SolutionText(c)
    PROVE  Served(c)
  <1> DEFINE x == dialogItem[c]
             d == x.data
             ids == TextIDs(d)
  <1>0. c \in Threads /\ DOMAIN pc = Threads
    BY DEF Threads, IInv, TypeInv
  <1>1. /\ file \in Files /\ file # None /\ file.valid /\ ucReadFileData = file
        /\ Answer(file, arg[c]) = ItemReply(file, x)
        /\ x # Nothing => \E i \in 1..Len(file.items) : x = file.items[i]
        /\ xDialogItemData[c] = d
    BY DEF OwnInv, LoadInv, ItemInv, TextInv, ShapeInv
  <1>2. PICK n \in Nat : TextsFound(c, d, n) /\ NextSought(c, ids[n + 1])
    BY DEF OwnInv, TextInv
  <1>3. x # Nothing
    BY DEF Nothing
  <1>4. PICK i \in OfType(file, "dialog") : x = file.items[i]
    BY <1>1, <1>3 DEF OfType
  <1>5. Len(ids) \in Nat /\ n < Len(ids) /\ \A j \in 1..Len(ids) : ids[j] \in Int
    BY <1>1, <1>2, <1>4, TextsOfDialog DEF TextsFound
  <1> DEFINE id == ids[n + 1]
             y == ReadItem(file, id)
             T == {Name(file, ids[j]) : j \in 1..Len(ids)}
  <1>6. /\ texts[c] = [j \in 1..n |-> Name(file, ids[j])]
        /\ \A j \in 1..n : Name(file, ids[j]) # None
    BY <1>2 DEF TextsFound
  <1>7. texts[c] \in Seq(T) /\ Len(texts[c]) = n
    BY <1>5, <1>6
  <1>8. ItemReply(file, x) = DialogReply(file, d)
    BY DEF ItemReply
  <1>22. ~ HasEmptyText(file)
    BY DEF OwnInv, LoadInv
  <1>9. /\ id \in Int
        /\ id < 0 => y = Nothing /\ Name(file, id) = Empty
        /\ id >= 0 /\ y = Nothing => Name(file, id) = None
        /\ y # Nothing /\ y.type # "dialog" => Name(file, id) = y.data
        /\ y.type = "dialog" =>
              /\ y # Nothing
              /\ y.data.question \in Int
              /\ Name(file, id) = NameOfText(file, y.data.question)
              /\ ReadItem(file, y.data.question).type # "dialog"
    <2>1. id \in Int
      BY <1>5
    <2> QED BY <1>1, <1>22, <2>1, Names
  <1>10. ASSUME NEW l, pc' = [pc EXCEPT ![c] = l], l \in TextPcs,
                UNCHANGED <<arg, file, ucReadFileData, dialogItem>>
         PROVE  LoadInv(c)' /\ ItemInv(c)' /\ Busy(c)'
    <2>1. LoadInv(c)' /\ Busy(c)'
      BY <1>0, <1>1, <1>10, PagesWait DEF OwnInv, LoadInv, TextPcs, Busy
    <2>2. ItemInv(c)'
      BY <1>0, <1>1, <1>10 DEF ItemInv, TextPcs
    <2> QED BY <2>1, <2>2
  <1>11. ASSUME NEW l, pc' = [pc EXCEPT ![c] = l], l \in TextPcs,
                UNCHANGED <<arg, file, ucReadFileData, dialogItem, xDialogItemData, texts>>,
                NextSought(c, id)'
         PROVE  Served(c)
    <2>1. TextsFound(c, d, n)'
      BY <1>2, <1>11 DEF TextsFound
    <2>2. TextInv(c)'
      BY <1>1, <1>11, <2>1 DEF TextInv
    <2> QED BY <1>10, <1>11, <2>2 DEF Served, OwnInv
  <1> HIDE DEF T, id, y
  <1>12. CASE NameMissing(c)
    <2>1. /\ pc[c] = "read" /\ ReadItem(file, sought[c]) = Nothing /\ sought[c] >= 0
          /\ ~ Busy(c)' /\ answer'[c] = Reply(d, texts[c])
      BY <1>0, <1>1, <1>12 DEF NameMissing, Send, Finish, Return, Busy, ShapeInv
    <2>2. Name(file, id) = None
      <3>1. sought[c] = id \/ (y.type = "dialog" /\ sought[c] = y.data.question)
        BY <1>2, <2>1 DEF NextSought, id, y
      <3>2. CASE sought[c] = id
        BY <1>9, <2>1, <3>2 DEF y
      <3>3. CASE y.type = "dialog" /\ sought[c] = y.data.question
        BY <1>9, <2>1, <3>3 DEF NameOfText, Nothing
      <3> QED BY <3>1, <3>2, <3>3
    <2>3. DialogReply(file, d) = Reply(d, texts[c])
      BY <1>5, <1>6, <2>2, ReplyFound DEF id
    <2> QED BY <1>1, <1>8, <2>1, <2>3 DEF Served
  <1>13. CASE ReadName(c)
    <2> DEFINE z == ReadItem(file, sought[c])
    <2>1. /\ pc[c] = "read" /\ z # Nothing /\ sought[c] >= 0
          /\ pc' = [pc EXCEPT ![c] = IF z.type = "dialog" THEN "again" ELSE "text"]
          /\ ucItemDataBuf' = Buffered(z)
          /\ UNCHANGED <<arg, file, ucReadFileData, dialogItem, xDialogItemData, texts, sought>>
      BY <1>1, <1>13 DEF ReadName, Step, replyVars
    <2>2. sought[c] = id \/ (y.type = "dialog" /\ sought[c] = y.data.question)
      BY <1>2, <2>1 DEF NextSought, id, y
    <2>3. z.data # None /\ ucItemDataBuf' = z.data
      BY <1>1, <1>22, <2>1, ItemData DEF Buffered
    <2>4. CASE z.type = "dialog"
      <3>1. sought[c] = id /\ y.type = "dialog"
        BY <1>9, <2>2, <2>4 DEF y
      <3>2. NextSought(c, id)'
        BY <1>0, <2>1, <2>3, <2>4, <3>1 DEF NextSought, id, y
      <3> QED BY <1>11, <2>1, <2>4, <3>2 DEF TextPcs
    <2>5. CASE z.type # "dialog"
      <3>1. Name(file, id) = z.data
        BY <1>9, <2>1, <2>2, <2>5 DEF y, NameOfText
      <3>2. NextSought(c, id)'
        BY <1>0, <2>1, <2>3, <2>5, <3>1 DEF NextSought, id
      <3> QED BY <1>11, <2>1, <2>5, <3>2 DEF TextPcs
    <2> QED BY <2>4, <2>5
  <1>14. CASE ReadAgain(c)
    <2>1. /\ pc[c] = "again" /\ pc' = [pc EXCEPT ![c] = "question"]
          /\ ReadItem(file, sought[c]) # Nothing
          /\ ucItemDataBuf' = Buffered(ReadItem(file, sought[c]))
          /\ UNCHANGED <<arg, file, ucReadFileData, dialogItem, xDialogItemData, texts>>
      BY <1>1, <1>14 DEF ReadAgain, Step, replyVars
    <2>3. ucItemDataBuf' = ReadItem(file, sought[c]).data
      BY <1>1, <1>22, <2>1, ItemData DEF Buffered
    <2>2. NextSought(c, id)'
      BY <1>0, <1>2, <2>1, <2>3 DEF NextSought, id
    <2> QED BY <1>11, <2>1, <2>2 DEF TextPcs
  <1>15. CASE AgainMissing(c)
    <2>1. ReadItem(file, id) = Nothing /\ y.type = "dialog"
      BY <1>1, <1>2, <1>15 DEF AgainMissing, Send, Finish, Return, NextSought, id, y
    <2> QED BY <1>9, <2>1 DEF y
  <1>16. y.type = "dialog" => IsDialog(y.data)
    <2> SUFFICES ASSUME y.type = "dialog" PROVE IsDialog(y.data)
      OBVIOUS
    <2>1. PICK k \in 1..Len(file.items) : y = file.items[k]
      BY <1>1, <1>9, ItemsFound DEF y
    <2> QED BY <1>1, <2>1 DEF IsDialog
  <1>17. CASE ReadQuestion(c)
    <2>1. /\ pc[c] = "question" /\ pc' = [pc EXCEPT ![c] = "read"]
          /\ sought' = [sought EXCEPT ![c] = ucItemDataBuf.question]
          /\ UNCHANGED <<arg, file, ucReadFileData, dialogItem, xDialogItemData, texts>>
      BY <1>1, <1>17 DEF ReadQuestion, Step, bufferVars
    <2>2. NextSought(c, id)'
      BY <1>0, <1>2, <2>1 DEF NextSought, id, ShapeInv
    <2> QED BY <1>11, <2>1, <2>2 DEF TextPcs
  <1>18. CASE ReadGarbage(c)
    <2>1. pc[c] = "question" /\ ~ IsDialog(ucItemDataBuf)
      BY <1>18 DEF ReadGarbage, Send, Finish, Return
    <2> QED BY <1>2, <1>16, <2>1 DEF NextSought, id, y
  <1>19. ASSUME NEW from, NEW text, text = Name(file, id), text # None,
                NextText(c, from, text) \/ LastText(c, from, text)
         PROVE  Served(c)
    <2> DEFINE found == Append(texts[c], text)
    <2>1. text = Name(file, ids[n + 1])
      BY <1>19 DEF id
    <2>2. text \in T
      BY <1>5, <2>1 DEF T
    <2>3. found \in Seq(T) /\ Len(found) = n + 1
      BY <1>7, <2>2
    <2>4. \A j \in 1..n + 1 : found[j] = Name(file, ids[j])
      BY <1>6, <1>7, <2>1, <2>2
    <2>5. found = [j \in 1..n + 1 |-> Name(file, ids[j])]
      BY <2>3, <2>4
    <2>6. \A j \in 1..n + 1 : Name(file, ids[j]) # None
      BY <1>6, <1>19, <2>1
    <2>7. CASE NextText(c, from, text)
      <3>1. /\ pc' = [pc EXCEPT ![c] = "read"]
            /\ Len(found) < Len(ids)
            /\ texts' = [texts EXCEPT ![c] = found]
            /\ sought' = [sought EXCEPT ![c] = ids[Len(found) + 1]]
            /\ UNCHANGED <<arg, file, ucReadFileData, dialogItem, xDialogItemData>>
        BY <1>1, <2>7 DEF NextText, Step, bufferVars
      <3> HIDE DEF found
      <3>2. TextsFound(c, d, n + 1)'
        BY <1>0, <1>5, <2>3, <2>5, <2>6, <3>1 DEF TextsFound, ShapeInv
      <3>3. NextSought(c, ids[n + 2])'
        BY <1>0, <2>3, <3>1 DEF NextSought, ShapeInv
      <3>4. TextInv(c)'
        <4>1. n + 1 \in Nat /\ (n + 1) + 1 = n + 2
          OBVIOUS
        <4> QED BY <1>1, <3>1, <3>2, <3>3, <4>1 DEF TextInv
      <3> QED BY <1>10, <3>1, <3>4 DEF Served, OwnInv, TextPcs
    <2>8. CASE LastText(c, from, text)
      <3>1. /\ Len(found) = Len(ids)
            /\ ~ Busy(c)' /\ answer'[c] = Reply(d, found)
        BY <1>0, <1>1, <2>8 DEF LastText, Send, Finish, Return, Busy, ShapeInv
      <3> HIDE DEF found
      <3>2. DialogReply(file, d) = Reply(d, found)
        BY <1>5, <2>3, <2>5, <2>6, <3>1, ReplyFound
      <3> QED BY <1>1, <1>8, <3>1, <3>2 DEF Served
    <2> QED BY <1>19, <2>7, <2>8
  <1>23. CASE TakeText(c)
    <2>1. pc[c] = "text"
      BY <1>23 DEF TakeText, NextText, LastText, Step
    <2>2. ucItemDataBuf = Name(file, id) /\ ucItemDataBuf # None
      BY <1>2, <2>1 DEF NextSought, id
    <2> QED BY <1>19, <1>23, <2>2 DEF TakeText
  <1>24. CASE NoName(c)
    <2>1. pc[c] = "read" /\ sought[c] < 0
      BY <1>24 DEF NoName, NextText, LastText, Step
    <2>2. sought[c] = id \/ (y.type = "dialog" /\ sought[c] = y.data.question)
      BY <1>2, <2>1 DEF NextSought, id, y
    <2>3. CASE sought[c] = id
      BY <1>9, <1>19, <1>24, <2>1, <2>3, NoneAssumption DEF NoName
    <2>4. CASE y.type = "dialog" /\ sought[c] = y.data.question
      <3>1. Name(file, id) = Empty
        BY <1>9, <2>1, <2>4 DEF NameOfText
      <3> QED BY <1>19, <1>24, <3>1, NoneAssumption DEF NoName
    <2> QED BY <2>2, <2>3, <2>4
  <1>25. ~ SolutionText(c)
    BY DEF SolutionText
  <1> QED BY <1>12, <1>13, <1>14, <1>15, <1>17, <1>18, <1>23, <1>24, <1>25

LEMMA OwnStep ==
    ASSUME IInv, ShapeInv, NEW c \in Clients, OwnInv(c), ServeDialog(c)
    PROVE  Served(c)
  <1>1. CASE \/ NameMissing(c) \/ ReadName(c) \/ ReadAgain(c) \/ AgainMissing(c)
             \/ ReadQuestion(c) \/ ReadGarbage(c) \/ TakeText(c) \/ NoName(c) \/ SolutionText(c)
    <2>1. pc[c] \in TextPcs
      BY <1>1 DEF NameMissing, ReadName, ReadAgain, AgainMissing, ReadQuestion, ReadGarbage,
                  TakeText, NoName, SolutionText, NextText, LastText, Step, Send, Finish, Return, TextPcs
    <2>2. dialogItem[c].type \in {"solution", "dialog"}
      BY <2>1 DEF OwnInv, TextInv
    <2> QED BY <1>1, <2>1, <2>2, SolutionStep, DialogStepServed
  <1>2. CASE EnterDialog(c) \/ Load(c)
    BY <1>2, LoadStep
  <1>3. CASE NoList(c) \/ FirstThrows(c) \/ First(c)
    BY <1>3, FirstStep
  <1>4. CASE GetItemByID(c)
    BY <1>4, ItemStep
  <1>5. CASE SwitchFails(c) \/ SwitchSolution(c) \/ SwitchDialog(c) \/ SwitchGarbage(c)
    BY <1>5, SwitchStep
  <1> QED BY <1>1, <1>2, <1>3, <1>4, <1>5 DEF ServeDialog

-----------------------------------------------------------------------------
(* What a dialog request leaves alone. *)
LEMMA DialogShape ==
    ASSUME IInv, ShapeInv, NEW h \in Threads, ServeDialog(h)
    PROVE  /\ ShapeInv'
           /\ UNCHANGED <<kind, arg, file, disturbed>>
           /\ kind[h] = "dialog" \/ pc[h] \in DialogPcs
           /\ \A g \in Threads \ {h} :
                 /\ pc'[g] = pc[g] /\ answer'[g] = answer[g]
                 /\ dialogItem'[g] = dialogItem[g] /\ sought'[g] = sought[g]
                 /\ texts'[g] = texts[g] /\ xDialogItemData'[g] = xDialogItemData[g]
  <1> USE DEF ShapeInv, DialogPcs, TextPcs
  <1>0. DOMAIN pc = Threads /\ Clients \subseteq Threads
    BY DEF Threads, IInv, TypeInv
  <1>1. CASE EnterDialog(h)
    BY <1>0, <1>1 DEF EnterDialog, Enter, dialogVars, bufferVars, replyVars
  <1>2. CASE \/ CreateNewDialog(h) \/ Copy(h, "clear", "open") \/ Open(h) \/ Check(h)
             \/ Copy(h, "copy", IF arg[h] = 0 THEN "first" ELSE "item")
    BY <1>0, <1>2 DEF CreateNewDialog, Copy, Open, Check, Step, dialogVars, bufferVars, replyVars
  <1>3. CASE \/ OpenFails(h) \/ CheckFails(h) \/ NoList(h) \/ SwitchFails(h) \/ SwitchGarbage(h)
             \/ NameMissing(h) \/ AgainMissing(h) \/ ReadGarbage(h)
    BY <1>0, <1>3 DEF OpenFails, CheckFails, NoList, SwitchFails, SwitchGarbage, NameMissing,
                      AgainMissing, ReadGarbage, Send, Finish, Return, bufferVars
  <1>4. CASE FirstThrows(h) \/ SolutionText(h)
    BY <1>0, <1>4 DEF FirstThrows, SolutionText, Send, Finish, Return, bufferVars
  <1>5. CASE First(h) \/ GetItemByID(h)
    BY <1>0, <1>5 DEF First, GetItemByID, Step
  <1>6. CASE SwitchSolution(h) \/ SwitchDialog(h)
    BY <1>0, <1>6 DEF SwitchSolution, SwitchDialog, Step, bufferVars
  <1>7. CASE ReadName(h) \/ ReadAgain(h)
    BY <1>0, <1>7 DEF ReadName, ReadAgain, Step, replyVars
  <1>8. CASE ReadQuestion(h)
    BY <1>0, <1>8 DEF ReadQuestion, Step, bufferVars
  <1>9. CASE TakeText(h) \/ NoName(h)
    <2>1. ASSUME NEW from \in {"read", "text"}, NEW text, NextText(h, from, text)
          PROVE  /\ pc[h] = from /\ pc' = [pc EXCEPT ![h] = "read"]
                 /\ texts' = [texts EXCEPT ![h] = Append(texts[h], text)]
                 /\ \E id : sought' = [sought EXCEPT ![h] = id]
                 /\ UNCHANGED <<kind, arg, bufferVars, dialogItem, xDialogItemData, answer, disturbed>>
      BY <2>1 DEF NextText, Step
    <2>2. CASE \E from \in {"read", "text"} : \E text : NextText(h, from, text)
      BY <1>0, <2>1, <2>2 DEF bufferVars
    <2>3. CASE \E from \in {"read", "text"} : \E text : LastText(h, from, text)
      BY <1>0, <2>3 DEF LastText, Send, Finish, Return, bufferVars
    <2> QED BY <1>9, <2>2, <2>3 DEF TakeText, NoName
  <1> QED BY <1>1, <1>2, <1>3, <1>4, <1>5, <1>6, <1>7, <1>8, <1>9 DEF ServeDialog, Load

(* The request of one thread: its own answer, and the other clients, which   *)
(* wait for the mutex or, where a page is asked for, are disturbed.          *)
LEMMA DialogAnswer ==
    ASSUME IInv, AnswerInv, NEW h \in Threads, ServeDialog(h)
    PROVE  AnswerInv'
  <1>0. ShapeInv
    BY DEF AnswerInv
  <1>1. /\ ShapeInv'
        /\ UNCHANGED <<kind, arg, file, disturbed>>
        /\ kind[h] = "dialog" \/ pc[h] \in DialogPcs
        /\ \A g \in Threads \ {h} :
              /\ pc'[g] = pc[g] /\ answer'[g] = answer[g]
              /\ dialogItem'[g] = dialogItem[g] /\ sought'[g] = sought[g]
              /\ texts'[g] = texts[g] /\ xDialogItemData'[g] = xDialogItemData[g]
    BY <1>0, DialogShape
  <1>2. pc[h] # "idle"
    BY DEF ServeDialog, EnterDialog, Enter, Load, CreateNewDialog, Copy, Open, OpenFails, Check,
           CheckFails, NoList, FirstThrows, First, GetItemByID, SwitchFails, SwitchSolution,
           SwitchDialog, SwitchGarbage, NameMissing, ReadName, ReadAgain, AgainMissing, ReadQuestion,
           ReadGarbage, TakeText, NoName, SolutionText, NextText, LastText, Step, Send, Finish, Return
  <1>3. ASSUME NEW c \in Clients, Alone(c)', Busy(c)'
        PROVE  OwnInv(c)'
    <2>0. c \in Threads /\ Alone(c)
      BY <1>1, <1>3 DEF Alone, Threads
    <2>1. CASE c = h
      <3>1. OwnInv(c)
        BY <1>2, <2>0, <2>1 DEF AnswerInv, OwnInv, Busy
      <3> QED BY <1>0, <1>3, <2>1, <3>1, OwnStep DEF Served
    <2>2. CASE c # h
      <3>1. Busy(c) /\ OwnInv(c)
        BY <1>1, <1>3, <2>0, <2>2 DEF AnswerInv, OwnInv, Busy
      <3>2. h \in Clients
        BY <1>2, <3>1 DEF OwnInv, LoadInv, Busy, Threads
      <3>3. \A p \in Pages : ~ Busy(p)'
        BY <1>1, <3>1, <3>2, ThreadsAssumption DEF OwnInv, LoadInv, Busy, Threads
      <3>4. pc[c] = "lock" /\ pc'[c] = "lock"
        <4>1. pc[c] \in {"idle", "lock"} \cup DialogPcs
          BY <1>0, <2>0 DEF ShapeInv, Alone
        <4>2. CASE pc[h] = "lock"
          <5>1. xMessageMutex = None
            BY <4>2 DEF ServeDialog, EnterDialog, Enter, Load, CreateNewDialog, Copy, Open,
                   OpenFails, Check, CheckFails, NoList, FirstThrows, First, GetItemByID,
                   SwitchFails, SwitchSolution, SwitchDialog, SwitchGarbage, NameMissing, ReadName,
                   ReadAgain, AgainMissing, ReadQuestion, ReadGarbage, TakeText, NoName,
                   SolutionText, NextText, LastText, Step, Send, Finish, Return
          <5>2. pc[c] \notin DialogPcs
            BY <5>1, ThreadsAssumption DEF IInv, HandlerInv, FreePcs, DialogPcs
          <5> QED BY <1>1, <2>0, <2>2, <3>1, <4>1, <5>2 DEF Busy
        <4>3. CASE pc[h] # "lock"
          <5>1. pc[h] \in DialogPcs
            BY <1>0, <1>1, <1>2, <3>2, <4>3 DEF ShapeInv
          <5>2. pc[c] \notin DialogPcs
            BY <2>2, <3>2, <5>1 DEF IInv, HandlerInv, FreePcs, DialogPcs
          <5> QED BY <1>1, <2>0, <2>2, <3>1, <4>1, <5>2 DEF Busy
        <4> QED BY <4>2, <4>3
      <3>5. ~ HasEmptyText(file')
        BY <1>1, <2>0 DEF Alone
      <3> QED BY <3>3, <3>4, <3>5 DEF OwnInv, LoadInv, ItemInv, TextInv, TextPcs
    <2> QED BY <2>1, <2>2
  <1>4. AnsweredFromFile'
    <2> SUFFICES ASSUME NEW c \in Clients, kind'[c] = "dialog", ~ Busy(c)', ~ disturbed'[c],
                        ~ HasEmptyText(file')
                 PROVE  answer'[c] = Answer(file', arg'[c])
      BY DEF AnsweredFromFile
    <2>0. c \in Threads /\ Alone(c)
      BY <1>1 DEF Alone, Threads
    <2>1. CASE c = h
      <3>1. OwnInv(c)
        BY <1>2, <2>0, <2>1 DEF AnswerInv, OwnInv, Busy
      <3> QED BY <1>0, <1>1, <2>1, <3>1, OwnStep DEF Served
    <2>2. CASE c # h
      BY <1>1, <2>0, <2>2 DEF AnswerInv, AnsweredFromFile, Busy, Alone
    <2> QED BY <2>1, <2>2
  <1> QED BY <1>1, <1>3, <1>4 DEF AnswerInv, OwnInv

-----------------------------------------------------------------------------
(* The other steps of the hub. *)

(* A request is asked while pages are idle, or is disturbed; a page that is  *)
(* asked for disturbs all.                                                   *)
LEMMA AskDialogAnswer ==
    ASSUME IInv, AnswerInv, NEW h \in Threads, AskDialog(h)
    PROVE  AnswerInv'
  <1>0. DOMAIN pc = Threads /\ DOMAIN kind = Threads /\ DOMAIN arg = Threads
    BY DEF IInv, TypeInv, TypeOK
  <1>1. PICK id \in DialogIDs :
           /\ pc[h] = "idle"
           /\ pc' = [pc EXCEPT ![h] = IF h \in Clients THEN "lock" ELSE "create"]
           /\ kind' = [kind EXCEPT ![h] = "dialog"]
           /\ arg' = [arg EXCEPT ![h] = id]
    BY DEF AskDialog, Receive
  <1>2. /\ UNCHANGED <<bufferVars, dialogItem, xDialogItemData, sought, texts>>
        /\ answer' = [answer EXCEPT ![h] = NoReply]
        /\ disturbed' = [g \in Threads |->
              IF g = h THEN \E p \in Pages : Busy(p) ELSE disturbed[g] \/ h \in Pages]
    BY DEF AskDialog
  <1>3. ShapeInv'
    BY <1>0, <1>1, <1>2 DEF AnswerInv, ShapeInv, bufferVars, Threads, TextPcs, DialogPcs
  <1>4. ASSUME NEW c \in Clients, Alone(c)'
        PROVE  /\ Busy(c)' => OwnInv(c)'
               /\ ~ Busy(c)' => answer'[c] = Answer(file', arg'[c])
    <2>0. c \in Threads /\ c \notin Pages
      BY ThreadsAssumption DEF Threads
    <2>1. CASE c = h
      <3>1. pc'[c] = "lock" /\ \A p \in Pages : ~ Busy(p)'
        BY <1>0, <1>1, <1>2, <1>4, <2>0, <2>1 DEF Alone, Busy, Threads
      <3>2. ~ HasEmptyText(file')
        BY <1>4 DEF Alone
      <3> QED BY <3>1, <3>2 DEF OwnInv, LoadInv, ItemInv, TextInv, TextPcs, Busy
    <2>2. CASE c # h
      <3>1. /\ h \notin Pages /\ Alone(c)
            /\ pc'[c] = pc[c] /\ arg'[c] = arg[c] /\ answer'[c] = answer[c]
        BY <1>0, <1>1, <1>2, <1>4, <2>0, <2>2 DEF Alone, AnswerInv, ShapeInv, bufferVars
      <3>2. Busy(c) => OwnInv(c)
        BY <3>1 DEF AnswerInv, OwnInv
      <3>3. \A p \in Pages : Busy(p)' <=> Busy(p)
        BY <1>0, <1>1, <3>1 DEF Busy, Threads
      <3>4. Busy(c)' => OwnInv(c)'
        <4> SUFFICES ASSUME Busy(c)' PROVE OwnInv(c)'
          OBVIOUS
        <4>1. OwnInv(c)
          BY <3>1, <3>2 DEF Busy
        <4>2. LoadInv(c)'
          BY <1>2, <3>1, <3>3, <4>1 DEF OwnInv, LoadInv, bufferVars
        <4>3. ItemInv(c)'
          BY <1>2, <3>1, <4>1 DEF OwnInv, ItemInv, bufferVars
        <4>4. TextInv(c)'
          BY <1>2, <3>1, <4>1 DEF OwnInv, TextInv, TextsFound, NextSought, bufferVars
        <4> QED BY <4>2, <4>3, <4>4 DEF OwnInv
      <3>5. ~ Busy(c)' => answer'[c] = Answer(file', arg'[c])
        BY <1>2, <3>1 DEF AnswerInv, AnsweredFromFile, Alone, Busy, bufferVars
      <3> QED BY <3>4, <3>5
    <2> QED BY <2>1, <2>2
  <1> QED BY <1>3, <1>4 DEF AnswerInv, AnsweredFromFile, OwnInv, Alone

(* Another request of a client is none for a dialog. *)
LEMMA OtherRequest ==
    ASSUME IInv, AnswerInv, NEW c \in Clients, Ask(c) \/ Serve(c), UNCHANGED dialogVars
    PROVE  AnswerInv'
  <1>0. DOMAIN pc = Threads /\ DOMAIN kind = Threads /\ DOMAIN arg = Threads /\ c \in Threads
    BY DEF IInv, TypeInv, TypeOK, Threads
  <1>1. /\ kind'[c] # "dialog" /\ pc'[c] \notin TextPcs
        /\ \A g \in Threads \ {c} : pc'[g] = pc[g] /\ kind'[g] = kind[g] /\ arg'[g] = arg[g]
    <2>1. CASE Ask(c)
      BY <1>0, <2>1 DEF Ask, Receive, TextPcs
    <2>2. CASE Serve(c)
      <3>1. kind[c] # "dialog"
        <4> SUFFICES ASSUME kind[c] = "dialog" PROVE FALSE
          OBVIOUS
        <4>1. pc[c] \in {"idle", "lock"} \cup DialogPcs
          BY DEF AnswerInv, ShapeInv
        <4> QED BY <2>2, <4>1 DEF Serve, Refuse, StartSession, SetSocketDS, SetUserDS, GetSocketDS,
                     GetUserDS, Start, FindOwn, Take, LoadRS, SetSession, Fill, SetSocket, SetUser,
                     SetCMD, AddToStack, AppendRS, ReloadRS, DeleteRS, Leave, Step, Enter, Return,
                     Within, DialogPcs
      <3>2. UNCHANGED <<kind, arg>>
        BY <2>2 DEF Serve, Refuse, StartSession, SetSocketDS, SetUserDS, GetSocketDS,
                     GetUserDS, Start, FindOwn, Take, LoadRS, SetSession, Fill, SetSocket, SetUser,
                     SetCMD, AddToStack, AppendRS, ReloadRS, DeleteRS, Leave, Step, Enter, Return,
                     Within
      <3>3. \E l : pc' = [pc EXCEPT ![c] = l] /\ l \notin TextPcs
        BY <2>2 DEF Serve, Refuse, StartSession, SetSocketDS, SetUserDS, GetSocketDS,
                     GetUserDS, Start, FindOwn, Take, FillFrom, LoadRS, SetSession, Fill, SetSocket,
                     SetUser, SetCMD, AddToStack, AppendRS, ReloadRS, DeleteRS, Leave, Step, Enter,
                     Return, Within, TextPcs
      <3> QED BY <1>0, <3>1, <3>2, <3>3
    <2> QED BY <2>1, <2>2
  <1>2. ShapeInv'
    <2>1. \A h \in Threads : pc'[h] \notin TextPcs => texts'[h] = <<>>
      <3>1. pc[c] \notin TextPcs
        BY DEF Ask, Receive, Serve, Refuse, StartSession, SetSocketDS, SetUserDS, GetSocketDS,
               GetUserDS, Start, FindOwn, Take, LoadRS, SetSession, Fill, SetSocket, SetUser,
               SetCMD, AddToStack, AppendRS, ReloadRS, DeleteRS, Leave, Step, Enter, Return,
               Within, TextPcs
      <3> QED BY <1>1, <3>1 DEF AnswerInv, ShapeInv, dialogVars, replyVars
    <2> QED BY <1>1, <2>1 DEF AnswerInv, ShapeInv, dialogVars, replyVars, bufferVars, Threads
  <1>3. \A p \in Pages : Busy(p)' <=> Busy(p)
    BY <1>1, ThreadsAssumption DEF Busy, Threads
  <1>4. ASSUME NEW g \in Clients, Alone(g)'
        PROVE  /\ Alone(g) /\ pc'[g] = pc[g] /\ arg'[g] = arg[g]
               /\ Busy(g) => OwnInv(g)'
    <2>1. Alone(g) /\ pc'[g] = pc[g] /\ arg'[g] = arg[g]
      BY <1>1, <1>4 DEF Alone, Threads, dialogVars, bufferVars, replyVars
    <2>2. ASSUME Busy(g) PROVE OwnInv(g)'
      <3>1. OwnInv(g)
        BY <2>1, <2>2 DEF AnswerInv, OwnInv
      <3>2. LoadInv(g)'
        BY <1>3, <2>1, <3>1 DEF OwnInv, LoadInv, dialogVars, bufferVars
      <3>3. ItemInv(g)'
        BY <2>1, <3>1 DEF OwnInv, ItemInv, dialogVars, bufferVars, replyVars
      <3>4. TextInv(g)'
        BY <2>1, <3>1 DEF OwnInv, TextInv, TextsFound, NextSought, dialogVars, bufferVars, replyVars
      <3> QED BY <3>2, <3>3, <3>4 DEF OwnInv
    <2> QED BY <2>1, <2>2
  <1>5. AnsweredFromFile'
    BY <1>4 DEF AnswerInv, AnsweredFromFile, Alone, Busy, dialogVars, bufferVars, replyVars
  <1> QED BY <1>2, <1>4, <1>5 DEF AnswerInv, OwnInv, Busy

LEMMA UnchangedAnswer ==
    ASSUME AnswerInv, UNCHANGED <<handlerVars, dialogVars>>
    PROVE  AnswerInv'
  <1> USE DEF handlerVars, dialogVars, bufferVars, replyVars
  <1>1. ShapeInv'
    BY DEF AnswerInv, ShapeInv
  <1>2. \A c \in Clients : Alone(c)' <=> Alone(c)
    BY DEF Alone
  <1>3. \A c \in Clients : Busy(c)' <=> Busy(c)
    BY DEF Busy
  <1>4. ASSUME NEW c \in Clients, OwnInv(c) PROVE OwnInv(c)'
    <2>1. LoadInv(c)'
      BY <1>4 DEF OwnInv, LoadInv, Busy
    <2>2. ItemInv(c)'
      BY <1>4 DEF OwnInv, ItemInv
    <2>3. TextInv(c)'
      BY <1>4 DEF OwnInv, TextInv, TextsFound, NextSought
    <2> QED BY <2>1, <2>2, <2>3 DEF OwnInv
  <1>5. AnsweredFromFile'
    BY DEF AnswerInv, AnsweredFromFile, Busy
  <1> QED BY <1>1, <1>2, <1>3, <1>4, <1>5 DEF AnswerInv, OwnInv

LEMMA InitAnswer == Init => AnswerInv
  BY NoneAssumption DEF Init, HandlersInit, DialogsInit, AnswerInv, ShapeInv, Alone, Busy,
                          AnsweredFromFile, Threads

LEMMA StepAnswer == IInv /\ AnswerInv /\ [Next]_vars => AnswerInv'
  <1> SUFFICES ASSUME IInv, AnswerInv, [Next]_vars PROVE AnswerInv'
    OBVIOUS
  <1>1. ASSUME NEW c \in Clients, (Ask(c) /\ UNCHANGED dialogVars) \/ ClientStep(c)
        PROVE  AnswerInv'
    BY <1>1, OtherRequest DEF ClientStep
  <1>2. ASSUME NEW h \in Threads, AskDialog(h) PROVE AnswerInv'
    BY <1>2, AskDialogAnswer
  <1>3. ASSUME NEW h \in Threads, DialogStep(h) PROVE AnswerInv'
    BY <1>3, DialogAnswer DEF DialogStep
  <1>4. ASSUME NEW t \in Tasks, WorkStep(t) PROVE AnswerInv'
    BY <1>4, UnchangedAnswer DEF WorkStep
  <1>5. CASE UNCHANGED vars
    BY <1>5, UnchangedAnswer DEF vars
  <1> QED BY <1>1, <1>2, <1>3, <1>4, <1>5 DEF Next

(* A client that no page request has disturbed is answered what the file     *)
(* says, unless the file has empty texts.                                    *)
THEOREM AnswerCorrect == Spec => []AnsweredFromFile
  <1>1. AnswerInv => AnsweredFromFile
    BY DEF AnswerInv
  <1> QED BY <1>1, InitAnswer, StepAnswer, Invariance, PTL DEF Spec
=============================================================================

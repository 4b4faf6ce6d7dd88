------------------------------ MODULE Requests ------------------------------
(***************************************************************************)
(* The hub's request handlers together: session, list and relay-server     *)
(* commands and dialogs compete for xMessageMutex, workers use the tasks   *)
(* that the handlers fill, and the HTTP server answers the question page.  *)
(***************************************************************************)
EXTENDS Sessions, Dialogs

vars == <<handlerVars, sessionVars, taskVars, dialogVars>>

Init == HandlersInit /\ SessionsInit /\ DialogsInit

ClientStep(c) == Serve(c) /\ UNCHANGED dialogVars
DialogStep(h) == ServeDialog(h) /\ UNCHANGED <<sessionVars, taskVars>>
WorkStep(t) == (Connect(t) \/ Release(t)) /\ UNCHANGED <<handlerVars, dialogVars>>

Next ==
    \/ \E c \in Clients : (Ask(c) /\ UNCHANGED dialogVars) \/ ClientStep(c)
    \/ \E h \in Threads : (AskDialog(h) /\ UNCHANGED <<sessionVars, taskVars>>) \/ DialogStep(h)
    \/ \E t \in Tasks : WorkStep(t)

Spec == Init /\ [][Next]_vars

(* A thread that serves a request. *)
ServingStep(h) ==
    Busy(h) /\ IF kind[h] = "dialog" THEN DialogStep(h) ELSE ClientStep(h)

(* Handlers and HTTP workers are threads of their own and go on whenever     *)
(* they can; listed tasks are started and end (modules TaskPool and Sgp2).   *)
(* With finitely many requests a waiting handler gets the mutex in the end.  *)
FairSpec ==
    /\ Spec
    /\ \A h \in Threads : WF_vars(ServingStep(h))
    /\ \A t \in Tasks : WF_vars(WorkStep(t))

-----------------------------------------------------------------------------
(* Every variable has its type; a thread that serves a request is in it.     *)
TypeOK ==
    /\ kind \in [Threads -> {None, "session", "directory", "listDS", "listRS", "syncRS",
                             "addRS", "deleteRS", "dialog"}]
    /\ xMessageMutex \in Clients \cup {None}
    /\ FSessionDS \in Settings
    /\ firstRecord \in Records \cup {Partial, None}
    /\ xSessionRS \in [Clients -> Records \cup {Partial, None}]
    /\ local \in [Clients -> Settings]
    /\ task \in [Clients -> Tasks \cup {None}]
    /\ owner \in [Tasks -> Clients \cup {None}]
    /\ settings \in [Tasks -> Settings]
    /\ state \in [Tasks -> {"new", "wait", "run", "free"}]
    /\ tasksMutex \in [Tasks -> {"free", "worker", "left"}]
    /\ \A t \in Tasks : tasksMutex[t] = "worker" <=> state[t] = "run"
    /\ \A t \in Tasks : recycled[t] => listed[t]

(* The address and the account a handler reads from the shared session in    *)
(* five calls belong to one session, and CMD_SES reads back its own, however *)
(* many clients start sessions at the time (thServer2.cpp 128-137).          *)
ReadWhole ==
    \A c \in Clients :
        /\ pc[c] # "getUserDS" => local[c].socket = local[c].user
        /\ pc[c] = "take" /\ kind[c] = "session" => local[c] = Of(arg[c])

(* A task that was never used before connects with the address and the       *)
(* account of one session: it is listed only when it is filled               *)
(* (thServer2.cpp 157-171).                                                  *)
NewTaskWhole ==
    \A t \in Tasks :
        state[t] = "run" /\ ~recycled[t] => settings[t].socket = settings[t].user

(* A client whose dialog request no page request overlapped is answered from *)
(* a file without empty texts what the file says, although all requests go   *)
(* through the same three buffers (CMD_DIALOG under xMessageMutex,           *)
(* thServer2.cpp 771-860).  In place of an empty text the code answers what  *)
(* it read before (SgDialog.cpp 446-449).  What is compared are the texts    *)
(* the reply is built from; the message's room may cut them.                 *)
AnsweredFromFile ==
    \A c \in Clients :
        kind[c] = "dialog" /\ ~Busy(c) /\ ~disturbed[c] /\ ~HasEmptyText(file) =>
            answer[c] = Answer(file, arg[c])

(* Once the shared session is complete, no request, refused ones included,   *)
(* takes that away: the setSession that leaves a task locked (Task_Base.h    *)
(* 384-411) cannot be reached through it any more.                           *)
StaysUsable == [][Filled(FSessionDS) => Filled(FSessionDS')]_FSessionDS

(* Every request returns, unless setSession has left a task's mutex locked:  *)
(* that is the one way a handler gets stuck, and it takes xMessageMutex and  *)
(* with it all other clients along.                                          *)
RequestReturns ==
    \A h \in Threads : Busy(h) ~> (~Busy(h) \/ \E t \in Tasks : tasksMutex[t] = "left")

(* The question page shows what the file says (controller.h 9-14). *)
PageAnswered ==
    \A p \in Pages : kind[p] = "dialog" /\ ~Busy(p) => answer[p] = Answer(file, arg[p])
=============================================================================

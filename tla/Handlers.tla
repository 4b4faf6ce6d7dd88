------------------------------ MODULE Handlers ------------------------------
(***************************************************************************)
(* The threads that answer requests: one handler thread for every client   *)
(* connection (vsServer::handleClient), which serves the client's requests *)
(* one after the other, and the worker threads of the HTTP server that     *)
(* answer the question page.  Most commands of the protocol run under the  *)
(* server's xMessageMutex; the page knows nothing of it.                   *)
(***************************************************************************)
EXTENDS Naturals

CONSTANTS
    Clients,      \* connected clients, each with its handler thread
    Pages,        \* worker threads of the HTTP server
    None,         \* nobody, nullptr, nothing
    MaxRequests   \* bound: requests sent to the hub, by all together

ASSUME ThreadsAssumption == Clients \cap Pages = {} /\ None \notin Clients \cup Pages
ASSUME MaxRequestsAssumption == MaxRequests \in Nat

VARIABLES
    pc,             \* where a thread is in the request it serves
    kind, arg,      \* the request: its command, and what it carries
    requests,       \* requests sent so far
    xMessageMutex   \* the thread that holds it

handlerVars == <<pc, kind, arg, requests, xMessageMutex>>

Threads == Clients \cup Pages

HandlersInit ==
    /\ pc = [h \in Threads |-> "idle"]
    /\ kind = [h \in Threads |-> None]
    /\ arg = [h \in Threads |-> None]
    /\ requests = 0
    /\ xMessageMutex = None

(* A request arrives for thread h, which goes to l. *)
Receive(h, k, a, l) ==
    /\ pc[h] = "idle"
    /\ requests < MaxRequests
    /\ requests' = requests + 1
    /\ pc' = [pc EXCEPT ![h] = l]
    /\ kind' = [kind EXCEPT ![h] = k]
    /\ arg' = [arg EXCEPT ![h] = a]
    /\ UNCHANGED xMessageMutex

(* From one statement of the handler to the next. *)
Step(h, from, to) ==
    /\ pc[h] = from
    /\ pc' = [pc EXCEPT ![h] = to]
    /\ UNCHANGED <<kind, arg, requests, xMessageMutex>>

(* Mutant: the command does not take the mutex. *)
EnterFreely(h, to) ==
    /\ pc[h] = "lock"
    /\ pc' = [pc EXCEPT ![h] = to]
    /\ UNCHANGED <<kind, arg, requests, xMessageMutex>>

(* lock(_server->xMessageMutex) *)
Enter(h, to) ==
    /\ pc[h] = "lock"
    /\ xMessageMutex = None
    /\ xMessageMutex' = h
    /\ pc' = [pc EXCEPT ![h] = to]
    /\ UNCHANGED <<kind, arg, requests>>

(* The handler returns, its lock goes out of scope, and the answer is sent. *)
Return(h, from) ==
    /\ pc[h] = from
    /\ pc' = [pc EXCEPT ![h] = "idle"]
    /\ xMessageMutex' = IF xMessageMutex = h THEN None ELSE xMessageMutex
    /\ UNCHANGED <<kind, arg, requests>>

(* A command that needs the mutex for one step only. *)
Within(h) ==
    /\ pc[h] = "lock"
    /\ xMessageMutex = None
    /\ pc' = [pc EXCEPT ![h] = "idle"]
    /\ UNCHANGED <<kind, arg, requests, xMessageMutex>>
=============================================================================

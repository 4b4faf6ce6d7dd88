# DHS_V2 in TLA+

DHS_V2 is a diagnostic hub: it accepts SGP2 connections from clients (dispatcher
programs and dialogs), looks up their rights, and passes most of their commands on
to two kinds of remote servers, the diagnostic server (DS) and the relay server
(RS). A command that needs a remote server is not answered at once: the hub makes
a *task* of it, a worker thread executes the task, and the client asks with the
same command again until the answer is there.

This directory holds a model of the hub, the checks made of it with TLC and the
proofs made of it with TLAPS. Line numbers below are those of the repository.

## 1. Inventory

| Component | Files | State | Operations |
|---|---|---|---|
| Task pool | `TaskList.h/.cpp` | `std::vector<Task>` (never shortened) under two mutexes, `tasksMutex` for reading and `tasksAddMutex` for adding | `getTaskInstance`, `AddToStack` (`Add`, `isExist`, `getIndex`), `getTaskID`, `getCount`, `getTaskState`, `TaskSum` |
| Task objects | `Task_Base.h`, `Task_Connect.h` | state (`ts_Wait` .. `ts_free`), ID (the client's socket), request pointer, response, timers, `taskCompleted`, connection settings, command proxy; a `tasksMutex` per object | `setID`, `setRequestMessage`, `setSocket`, `setUser`, `setSession`, `setCMD`, `setState`, `prepareResponse`, `task_reset`, `Execute` |
| Task listener | `TaskExecutor.h/.cpp` | its place in the list | one pass over the list every 100 ms: start waiting tasks, expire, retire |
| Request handlers | `thServer2.cpp/.h` | one `pcSGP_ClientStack` per connection (session keys, user, session of the RS, poller), one global `xMessageMutex`, one DS session for all connections | accept loop, `handleClient`, `vServerClientRequestMessage` (all commands) |
| Terminal cache and poller | `ThRequestInfo`, `Terminal_Info_List`, `Manager_ClientData`, `cmd_info_RS` | list of terminals, the RS session, the thread and its flags, `InfoMutex` | `thStart`, `thStop`, `thWaitForCompletion`, `setCurrentSessionRS`, `GetTerminalInfoList`, `Add`, `Clear`, `getItem` |
| Proxy commands | `cmd_Base`, `cmd_Task`, `cmdTaskTerminalListDS`, `cmd_session` | request pointer, answer, retry counter, own mutex | `vRequest`, `vResponseReceived`, `vError`, `Finish` |
| Client connection | `thClient`, `Session.h` | SGP2 client session, socket, state, `mtx` | `setSession`, `Execute` (connect, authorise, request, reconnect) |
| SGP2 protocol | `SGP2/SGP2.c` | session keys, identifiers, authorisation state, packet buffers | server and client establishment, authorisation, message coding, packet layer |
| Relay-server records | `RelayServers.h` | a file of records | look up, append, read a page, delete |
| Accounts | `Accounts` | a file of accounts and the list read from it | read, add, remove, save |
| Dialogs | `SgDialog/`, `DialogAPI` | three global buffers, the file of the current dialog | load, first item, item by ID, names; add, change and remove items |
| Question files | `FileWatcher`, `GetFilesPort`, `QuestionsCatalog`, `ThreadBase` | the list of question files | scan, add, remove |
| Containers | `SgListLib`, `SgQueue` | a sorted list, a ring buffer | put, get, iterate, delete; put, receive |
| Legacy library | `ProtocolsLib`, `help_functions` | | MIDEP messages, SGP shuttles, bits, dates, cards |
| HTTP server | `Server_http/` | | the page of one question |
| Start-up, logs, statistics, ports | `main`, `Arg_parser`, `Logger`, `Monitoring`, `port_*`, `extLib` | | |

**Who calls whom.** `main` starts the listener thread, the web server and the accept
loop. Every accepted socket gets a detached thread in `handleClient`, which decodes
SGP2 messages and calls `vServerClientRequestMessage`. Proxied commands fill in a
task of the *pool* (shared by all handlers); the *listener* sees it in `ts_Wait` and
starts a detached *worker*, which runs the command proxy through a *client
connection* and leaves the answer in the task; a later request of the same client
finds the task and takes the answer out. The settings a task connects with come from
the DS session, which all connections share, or from the file of relay-server
records. Beside that every connection has a *poller* thread, which asks the RS about
the terminals that workers have put into the connection's *terminal cache*.
`CMD_DIALOG` and the web page walk the current question file through the same global
buffers.

**What is hard.** Handlers, listener and workers share task objects without a
common lock: a task's state, its owner and its request are read and written one
by one, with mutexes around single statements only. Objects are recycled, so a
late write of one thread can hit the next life of an object. Mutexes are held
across network exchanges (a task's `tasksMutex`, `InfoMutex`), and other mutexes
are held while waiting for these (`xMessageMutex`). A vector is read with indices
and references while others append. Connections break, answers come late. Files are
read in pieces while others write them. The complete list of such places, each with
its line, is in `PROJECT.json` under `hazards`.

**What makes each part correct.**

* *Pool, tasks, listener, workers*: one run of a task at a time; no change of
  owner during a run; an answer goes to the client and the command it was fetched
  for; one task for each client and command, hence a bounded list; a handler
  returns; a delivered task becomes free again.
* *Terminal cache and poller*: indices handed out stay valid and keep their
  meaning; a thread handle is never assigned over; an entry holds information
  about its own terminal; stopping the poller ends it; every terminal is asked
  about.
* *Sessions*: what is read from the shared session in several calls belongs to one
  session; a task connects with the address and the account of one server; a
  complete session stays complete.
* *Client connection and SGP2*: a call ends with one outcome, the answer of the
  latest attempt; commands run only for authorised clients; both ends agree on the
  session; a packet that arrives is the one that was built, or is refused.
* *Records, accounts*: pages read one after the other make up the file; accounts
  survive a restart.
* *Dialogs*: an answer is what the file holds; editing one item leaves the others.
* *Containers and helpers*: first in, first out; a sorted list is a map; what is
  encoded is decoded again.

## 2. Modules

| Module | Code | What it holds |
|---|---|---|
| `TaskPool` | `TaskList`, `Task_Base`, `Task_Connect`, `TaskExecutor`, `thServer2` | pool, tasks, listener, workers, proxied requests |
| `TaskPoolProof` | | its inductive invariant and theorems (section 4) |
| `TerminalInfo` | `ThRequestInfo`, `Terminal_Info_List`, `Manager_ClientData`, `cmdTaskTerminalListDS` | cache, poller, list workers and one client's requests |
| `TerminalInfoProof` | | its inductive invariant and theorems |
| `Sgp2Link`, `Sgp2Server`, `Sgp2Client`, `Sgp2` | `SGP2.c`, `thClient`, `cmd_Task` | one `Execute` against the handlers of its connections: what they share, each end, the composition |
| `RemoteCall` | | abstract specification of a call, implemented by `Sgp2` |
| `Sgp2Proof` | | inductive invariant of `Sgp2`, and that its steps are steps of the call |
| `Handlers` | `handleClient` | threads that serve requests, and `xMessageMutex` |
| `Sessions` | `thServer2`, `Session.h`, `Task_Base` | sessions, relay settings and the settings of tasks |
| `DialogFile`, `Dialogs` | `SgDialog`, `SgDialogLib`, `DialogAPI`, `controller.h` | what a question file says; requests for its items through shared buffers |
| `Requests` | `thServer2` | `Sessions` and `Dialogs` on the same handlers |
| `RequestsProof` | | inductive invariants of the handlers and of a dialog's walk |
| `Sgp2Packet`, `Crc16` | `SGP2.c` | packets byte by byte |
| `Records` | `RelayServers.h`, `thServer2` | the record file, its writers, and a reader that pages |
| `Accounts` | `Accounts.cpp` | the account file across restarts |
| `QuestionFiles` | `FileWatcher`, `GetFilesPort` | the scan of the directory |
| `DialogEdit` | `SgDialogLib.cpp` | editing a question file |
| `SgQueue`, `Fifo` | `SgQueue.c` | ring buffer, and the queue it implements |
| `SgList`, `KeyedMap` | `SgListLib.c` | sorted list, and the map it implements |
| `Legacy`, `HelpFunctions` | `ProtocolsLib.c`, `help_functions.c` | older packets; helpers |
| `Library` | | the small units side by side, one at a time |
| `ContainersProof` | | the refinements of `Fifo` and `KeyedMap`; the helpers |
| `FilesProof` | | record pages, accounts, the list of question files and the editing of one |
| `PacketsProof` | | packets and messages of both protocols, read back byte by byte and refused when damaged |
| `LeastElement` | | lemmas about natural numbers and sequences that these proofs share |
| `MC*` | | instances for TLC |

### TaskPool

*State.* `TaskList` is the vector; `State`, `ID`, `FRequestMessage`, `settings`,
`ucResponse` and `taskCompleted` are the fields of the task objects. A command is
a member of `Keys`, standing for the pair (`usCmd`, `ucPar`) that `isExist`
compares; a client is its socket number. What a task connects with (socket, user,
session and command proxy) is abstracted to *the request it belongs to*
(`<<client, key>>`), which is what the properties ask about. A response is the
record of the run that fetched it.

*Handlers.* One action for each stretch of `vServerClientRequestMessage` between
two accesses to a task: `GetInstance` (under `xMessageMutex`, which the handler
keeps until it returns), `Reset` (`task_reset`), `SetID`, `SetRequestMessage`,
`SetConnection` for the socket, the user and the command (each waits for the
task's `tasksMutex`), `Add` (`isExist`), `PushBack`, `Respond`
(`prepareResponse`), `MarkSuccess`.

*Listener.* `StartPass` (the count is read once for a pass), `ReadState`, `ReadID`
(state first, owner later, as in `TaskExecutor.cpp:30-45`), then one action for
each branch. `StartThread` and `SetProcess` are two steps because the worker runs
in between; `CheckCompleted` and `MarkFree` likewise.

*Workers.* `Begin` takes the task's mutex, copies the request (`getMessage`) and
the settings; `Finish` and `Fail` are the two ends of the exchange;
`StopWaiting` ends the wait for delivery, `Exit` sets `taskCompleted` and releases
the mutex. `starting[t]` counts workers that have been started and do not hold the
mutex yet.

*Merged or left out.* The scan of `getTaskInstance` is one step (it only reads,
under `tasksMutex`, and `Reset` afterwards is a step of its own, so the stale
decision is modelled). `task_reset` is one step although it writes five fields;
`Finish` joins the write of the response and `setState(ID, ts_Ready)`; `Respond`
joins `getIndex` and the reads of `prepareResponse`. Timers are abstracted:
`Expire` may happen at any time a task is `ts_Ready`, `StopWaiting` at any time in
the wait loop. Request indices, the response's length field and log output are
left out. Every request is taken to set its settings, as all but
`CMD_TERM_LIST_RS 0x01` do, and `setSession` on its good path; the other cases
are in `Sessions`. `MaxRequests` bounds the requests of a client.

### TerminalInfo

*State.* The first record of the relay-server file and the client's `xSessionRS`;
the handler's place; `terminalInfoList` with its `capacity` (a full vector doubles,
as in libstdc++; an append into a full vector makes references `Moved`); the
workers with the list command; the poller's `Terminated`, `FTHID`, thread handle
(`joinable`), session, place and the reference `Terminal` it holds. The answer is
named by the terminal it is about. `Usable` are the records with all of host,
port, user and password.

*Handler.* A connection's handler is one thread, so requests come one after the
other and a single `pc` is enough: `Connect` to `Close`, with `StartSession`,
`StopSession` (`thStop`, `thWaitForCompletion`, `Clear`: three steps), `ListDS`,
`ListRS`, `AddRS`/`LoadRS`, `DeleteRS` and `ListDHS`/`setCurrentSessionRS`/`SendItems`.
`OtherClient` changes the shared file.

*Worker.* `vResponseReceived` receives a set of terminals and `AddReceived` adds
them one by one, in any order.

*Poller.* `CheckTerminated`, `Wake` (20 ms later, with `InfoMutex`), then `GetItem`,
`Execute` and `Copy` for each item, with `InfoMutex` held for the whole pass. In
`GetItem` the call of `setSession` returns early for an unusable record and leaves
`mtx` locked (`thClient.cpp:444-463`); `Execute` then never gets it.

*Merged or left out.* The handlers' short uses of `InfoMutex` are atomic. A write
through a reference whose storage was given up is undefined; the model takes the
outcome in which it is lost. Names, coordinates and the other fields of an item
are left out, and so is paging.

### Sgp2: one call over a connection

*State.* A connection is a number, a new one for every pass through `_reconnect`;
`request` and `response` hold what is on its way in each direction, `srv` the
server's handle (open, key, authorised, the challenge). The client has its place
`pc` in `Execute`, the `stage` (fetching the server's information, then the command),
its key, `authed`, `known`, the emergency counter `FCount` and the
sockets it still holds. The ghost variables `asked`, `served`, `got` and `result`
number the attempts of the command.

*Actions.* `Prepare`, `Handshaken`, `Challenged`, `Authorised` are the steps of
`ucSGP2_ML_InitClientRequest`, `SendMessage` and `InfoAnswered`/`CommandAnswered` those of
`ucSGP2_ML_ExecuteClientRequest` with the command's judgement of the answer;
`GiveUpPreparing`, `Refused`, `ExecuteFails`, `Lost` are the failures, each with the
jump the code makes. On the other side `Handshake`, `Auth1`, `Auth2`, `Info`, `Command`
and their refusals are the branches of `usSGP2_ML_ServerProcessRequest`. `Lose` and
`Shut` are the network's faults, and a client that times out leaves a late answer
behind. Repeated random numbers are possible (`Randoms`).

*Refinement.* `Call == INSTANCE RemoteCall` says what a caller may count on: each
attempt is carried out at most once, perhaps after the call has ended; an answer is
that of the latest attempt; the call ends. `CallImplemented` is its complete
specification, liveness included. `ServedOnce` says the first of these of the server alone, as
an action property: no step carries out an attempt that has been carried out.

*Passwords and keys.* A password is a sequence of characters, and `PasswordKey` fills a key
with it from the end as `vConvertPasswordToKey` does (`SGP2.c:819-835`): again and again until the
key is full, and no further. Different passwords can therefore have one key, "a" and "aa", or two
that agree in their first 16 characters, and the server cannot tell them apart. `OnlyAuthorised`
says what the protocol can promise, in terms of the passwords: commands run only for a client whose
password, repeated without end, agrees with the server's in as many characters as a key has
(`Alike`). TLC uses keys of 2 characters and a client with the server's password, with another
that has the same key, or with a wrong one.

*Left out.* A message under the wrong key is taken to be noticed; the code has an
eight-bit sum for that. The session key is the password's key xor a random value in the code, and
the pair of them here, so that it coincides only if both agree. The conversion of an empty
password reads past its end, so there is none (`LinkAssumption`). PING and PROHIBITED packets
appear only in `Sgp2Packet`.

### Handlers, Sessions, Dialogs, Requests

`Handlers` has the threads, the request each of them serves and `xMessageMutex`
(`Enter`, `Within`, `Return`); `Sessions` and `Dialogs` extend it with the commands, and
`Requests` interleaves both.

*Sessions.* Settings are two fields, `socket` (host, port, address) and `user` (user,
password), because that is how they are written and read: each in its own call with
its own mutex. `FSessionDS` is never initialised (`thServer2.cpp:960`); its fields are
`Unset`, and a `setSession` from it may find anything. A request takes the client's own
task, a free one or a new one (`FindOwn`, `Take`), fills it (`SetSession`, `Fill`,
`SetSocket`, `SetUser`, `SetCMD`) and lists it (`AddToStack`); a recycled task is listed all
the time. `CMD_TERM_LIST_RS` gives settings only to a task it loads the session for
(`FillFrom`). `Connect` is a worker that reads its settings, `Release` its end.

*Dialogs.* The three buffers of `SgDialog.cpp:6-11` are variables: the file being loaded,
the file being read, the data of the last item. A load clears, opens, checks and
copies (`CreateNewDialog`, `Open`, `Check`, `Copy`); an answer is put together by
reading the item, the name of each item it leads to, and for a dialog its question. A copy
while another thread writes leaves the buffer `Torn`, from which nothing
is read. The data buffer keeps what was put there last: reading an item of size 0 puts nothing
there (`Buffered`, `SgDialogLib.cpp:198`), and listing the dialogs leaves the last item it
reads (`Listed`). `getNameByID` takes its text from there; of a negative ID the name is the empty text
(`NoName`, `SgDialog.cpp:490-493`), of a missing one there is none (`NameMissing`).

`DialogFile!Answer` is the reference: what the file holds for an ID. A file is a
sequence of items; `WellFormed` are those with unique IDs below 2^31, where an item has
data, if only the empty text, and a dialog a whole structure with any IDs, whose question is not itself a
dialog (section 6 has what happens otherwise). A dialog with more than eight answers overruns the
arrays: code and reference both come to `Undefined`, and of such an answer nothing is said.

`AnsweredFromFile` is about files without empty texts (`HasEmptyText`). In a file that has one, the text of
the item read before is answered in its place (section 6). What is compared are the texts a reply is built from; if the message lacks the room for
them, they are cut later, which the model leaves out.

### Library

Nine units that share nothing; a behaviour is one unit's alone, since their product
would only multiply states.

* `SgQueue` with `QueueImplemented` (the ring's contents are a `Fifo`), `SgList` with
  `ListImplemented` (the sorted array is a `KeyedMap`, for keys that wrap). The bisection is a
  recursive function of the pair of its bounds. For a key below the first one the code gives no nearest
  item, and the map is stated to give none either (`From`), which is less than the comment
  promises (section 6): `KeyedMap` says what a caller may count on.
* `Sgp2Packet`: a packet is built put by put, then assembled; `PacketArrives` says that
  exactly the whole packet is accepted and is read back as it was built, and that the ping put
  together by hand is the packet of a global ping request,
  `DamageNoticed` that it is refused when any byte has become another (any of `Garbled`; a
  smaller size and another synchronisation byte are excepted, see section 6), `MessageFits` that a
  message never outgrows its buffer.
* `Records`: writers look up and append in two steps, a reader asks for pages. A page is announced with
  the number of records (`SendCount`), and then those that fit in the message's room are put
  (`Carried`): 32740 bytes of a response, records of up to 779 bytes each. The reading client is not in
  the repository: this one keeps the records that came whole and goes on behind them. `PagesComplete`
  says that it misses none, and that a page that fits brings as many as it announces. A page that does
  not fit announces more than it brings (section 6). Records that two writers append twice are read
  twice.
* `Accounts`: read, add, remove, save, restart. The hub only reads; the other operations are those the class
  offers. `AccountsKept` is about files of whole records, not about the template that replaces a
  missing file (section 6).
* `QuestionFiles`: files come, go and change between scans. The hub scans once, at its start
  (`main.cpp:134-146`); scans repeated on the same list are what the class offers. `QuestListed` says that
  every readable file is listed after a scan, and admits entries of files that are gone.
* `DialogEdit`: items are added, changed and removed by copying cell by cell, behind a header and
  in front of a checksum. `EditKeepsItems` compares the items that are read before and after an
  edit that reports success; of a write that fails half-way it says nothing (section 6).
* `Legacy`: Midep messages and SGP shuttles. `LegacyArrives` says that they are decoded to what
  was put in, and refused when any byte has become another (any of `Mangled`).
* `HelpFunctions`: each step picks a helper and an input; `HelpersAgree` compares what the
  helper computes with what its caller relies on (the Gregorian calendar, the parities of a card's
  frame, the bits put into an array, the first place of a text).

## 3. Runs

Symmetry is used only where the properties are invariants or action properties. The
passing runs other than those of the pool do not check for deadlock: the model stops when the
bounded number of requests has been served or the connection is closed.

| Run | Bounds | What it shows |
|---|---|---|
| `PoolSafety` | 2 clients, 1 command, 2 tasks, 2 requests each | `TypeOK`, `OneRun`, `OwnerStable`, `AnswerMatches`, `UniqueKey`, `CommandSet`, `PoolBound` |
| `PoolLiveness` | 2 clients, 1 command, 2 tasks, 1 request each | `HandlerReturns`, `Retired` |
| `Info` | 2 terminals, 2 relay records (one unusable), 4 requests | `TypeOK`, `ItemInRange`, `StartSafe`, `ListedOnce`, `IndicesKept`, `RequestReturns`, `ThreadEnds`, `Polled` |
| `Sgp2` | 3 passwords of 2 characters, two of them with the same key of 2, 2 random values, 2 faults, emergency exit after 1 empty answer | `TypeOK`, `CommandsAccepted`, `Quiet`, `OnlyAuthorised`, `ServedOnce`, `CallImplemented` |
| `Sessions` | 2 clients, 3 requests, 3 tasks, 2 DS sessions, 1 relay record, 1 dialog file and ID | `TypeOK`, `ReadWhole`, `NewTaskWhole`, `StaysUsable`, `RequestReturns` |
| `Dialogs` | 2 clients, 1 HTTP worker, 2 requests, 5 files, 4 IDs, room for 2 answers | `AnsweredFromFile` |
| `Library` | below | `QueueImplemented`, `ListImplemented`, `PacketArrives`, `DamageNoticed`, `MessageFits`, `PagesComplete`, `AccountsKept`, `QuestListed`, `EditKeepsItems`, `LegacyArrives`, `HelpersAgree` |
| `PoolRequest`, `PoolProcess` | up to 2 clients, 1 task | two statements of the comments that the pool does not keep (section 5) |
| `InfoOwn`, `InfoStop` | 2 terminals, 3 requests | two statements of the comments that the cache does not keep (section 5) |
| `DialogHttp` | 2 clients, 1 HTTP worker, 2 requests | a page answered with what the file does not hold (section 5) |

**Why the bounds are enough.**

* *Pool.* `PoolBound` promises one task for each client and command; with exactly that
  many task objects TLC would report a deadlock or a larger list if more were needed.
  Two clients are enough for a stranger's task to be recycled, two requests for a task
  to be asked for again or taken over. The safety properties of the pool are also
  proved for all values (section 4), several commands of one client included.
* *Cache.* Two terminals let an answer belong to the other terminal and let a full
  vector grow during a pass; four requests allow start, list, poll and stop.
* *Sgp2.* Two faults are a lost request or late answer followed by a closed connection
  or a second late answer, which already goes through every jump of
  `Execute`; the emergency exit counts to 10 in the code and to 1 here, which keeps the exit
  reachable with fewer repetitions of the same step.
* *Sessions.* Three requests: two sessions whose fields could mix and one task that
  reads them, or a task that is listed, released and recycled. There is always another
  task object (`TasksAssumption`), as with `new`. The dialog makes the handlers that walk one
  take part in `RequestReturns`.
* *Dialogs.* Two overlapping requests are what the buffers can confuse. The files are a
  dialog that leads to a solution, to another dialog and to an item that is missing; a
  dialog whose question is missing; dialogs with negative IDs and with more answers than there is room for
  (`DIALOG_MAX_ANSWERS_COUNT` is 2 here, 8 in the code); a dialog with an empty text, which the property leaves
  out; and an invalid file.
* *Library.* A queue of 3 places with 3 different items wraps in both positions; a list
  of capacity 3 over 5 keys, the greatest of which wraps, is full, empty and everything between;
  buffer sizes end inside, at and after each field of a packet; pages of 2 records in a file of
  at most 4 end on and off a page's border, and with records of 20 and 40 bytes and room for 60 a page of two
  fits, just fits or does not fit; 4 edits of a file of 16 cells overflow it; a damaged
  byte becomes 0, 255, a number beside or far from it, or a type or synchronisation byte (`Garbled`,
  `Mangled`); values of up to 5 bits (`ValueBits`) lie at every place of an array of 12; days
  cover 5 years with two leap days and the end of February 2100; IDs and
  keys wrap at a smaller power.

**Fairness.** The threads of the hub are ordinary threads, so each handler, the
listener, each worker and the poller has weak fairness; an exchange with a remote
server ends because sockets have time-outs and `Execute` counts its attempts. Clients
need not send anything, and `Expire` is nobody's duty: it is one branch of the listener.
A handler that waits for `xMessageMutex` is served because each holder releases it and,
requests being finite in the model, cannot be overtaken for ever; the standard mutex
promises no more. In `TerminalInfo` the client's handler waits for a mutex that the
poller takes again and again. It has strong fairness, since the poller sleeps 20 ms with
the mutex free in every round (`ThRequestInfo.cpp:54-56`), long enough for a waiting
thread. In `Sgp2` the client's `Execute` (whose reads time out) and the server's
`Process` have weak fairness, faults have none.

**Restrictions of the liveness properties.** `Retired` leaves out the one task that the
listener has started and is about to put into `ts_Process` (that is the defect
`PoolProcess` shows). The liveness properties of `Info` end at a mutex left locked by an
incomplete relay record (`Stuck`, whose effect `InfoStop` shows), and `RequestReturns` of
`Requests` at a task's mutex left locked by `setSession` (section 6): they say that these
are the only ways to get stuck.

## 4. Proofs

Every theorem holds for all values of the constants that meet the named assumptions; each
proof module's argument is below its table. A theorem about a unit of `Library` is one about
`Library!Spec`, hence about the unit beside the others.

### TaskPoolProof

For all finite sets `Clients` and `Keys`, every set `Tasks` and every `MaxRequests`:

| Theorem | States |
|---|---|
| `TypeCorrect` | `Spec => []TypeOK` |
| `Invariance` | `Spec => []IInv` |
| `RunsExclude` | `Spec => []OneRun` |
| `OwnersStable` | `Spec => OwnerStable` (an action property) |
| `AnswersMatch` | `Spec => []AnswerMatches` |
| `KeysUnique` | `Spec => []UniqueKey` |
| `CommandsSet` | `Spec => []CommandSet` |
| `PoolBounded` | `Spec => []PoolBound` |

*Assumptions.* `FiniteAssumption` (the sets of clients and commands are finite),
`MaxRequestsAssumption` (a natural number), `NoneAssumption` and `BusyAssumption` (the
two marks differ from real values). They are named in `TaskPool.tla`, and TLC
evaluates them in every run of the pool.

*The argument.* None of the properties is inductive. `OneRun` fails if the listener
can start a task it has already started, so one must know what the state it
remembers (`seen`) is still worth: `ListenerInv` says that a remembered `Wait` is
still true, and that any remembered state which the listener would overwrite
means that no run is under way. That a remembered `Wait` is true needs the handlers
to leave waiting tasks alone (`TakenInv`), which needs that they exclude each other
(`HandlerInv`). `RunInv` says that a run is for the task's owner and for its request
or the blank one, `FilledInv` what a handler has written so far, so that a task
started early is blank and not another client's. `UniqueKey` and `PoolBound`
need `KeyInv` (a handler that has not yet called `AddToStack` knows that no other task
has its key, and only the task being filled in lacks one), `UnlistedInv` (tasks
outside the list are as allocated) and `DistinctInv` (no task is listed twice).
`CommandSet` needs `CommandInv`. The bound itself is the pigeonhole principle: each
place of the list is mapped to a pair of client and command, no two to the same.

There is one lemma for each action of the handlers, one for the listener and one
for the workers; `NextIInv` puts them together.

### TerminalInfoProof

For all sets of terminals and relay records, whichever of these are usable:

| Theorem | States |
|---|---|
| `TypeCorrect`, `Invariance` | `Spec => []TypeOK`, `Spec => []IInv` |
| `RangeCorrect` | `Spec => []ItemInRange` |
| `StartCorrect` | `Spec => []StartSafe` |
| `ListedCorrect` | `Spec => []ListedOnce` |
| `IndicesCorrect` | `Spec => IndicesKept` (an action property) |

*Assumptions.* `UsableAssumption` (the usable records are records), `NoneAssumption`,
`MaxRequestsAssumption`.

*The argument.* That a thread is never assigned to a joinable handle depends on two flags
which the handler and the poller write at different places. `ThreadInv` ties `joinable`,
`FTHID` and the state of the thread to each other at every place of the handler: they
agree but for the time between `thStop` and the join, and without a joinable handle
nothing runs. `PassInv` says that the count the poller has read at the beginning of a pass is
at most the list's while it holds `InfoMutex`, because the only step that shortens the list comes
after the join.

### RequestsProof

For all sets of clients, pages, sessions, tasks and well-formed files:

| Theorem | States |
|---|---|
| `TypeCorrect`, `Invariance` | `Spec => []TypeOK`, `Spec => []IInv` |
| `ReadCorrect` | `Spec => []ReadWhole` |
| `NewTaskCorrect` | `Spec => []NewTaskWhole` |
| `UsableCorrect` | `Spec => StaysUsable` (an action property) |
| `AnswerCorrect` | `Spec => []AnsweredFromFile` |

*Assumptions.* `TasksAssumption` (there is always another task object to create),
`FilesAssumption` of `Dialogs` (the question files are `WellFormed`), `ThreadsAssumption` (clients
and pages are different threads), `MaxRequestsAssumption`, and `NoneAssumption` (the mark
`None` is neither the name of a request nor the empty text).

*The argument.* `HandlerInv` says who holds `xMessageMutex` and what a request of each kind can
have as its argument; `SessionInv` that the shared session is whole whenever nobody is between
the two writes of `CMD_SES`; `TaskInv` that a task that is half filled is being filled by a
handler that still has it, or has been used before. `CountInv` counts: every task object in
use has cost a request, so `FindOwn` never lacks one.

`AnsweredFromFile` has an invariant of its own, `AnswerInv`. `LoadInv` says what the buffers
hold at each place of the loading, `ItemInv` that the item found is the one the answer is
about, `TextInv` that of its texts the first n have been found and which one is being looked
for. They hold of a client whose request no page has overlapped and whose file has no empty texts
(`Alone`): then each text looked for is the one that was put into the buffer just before
(`ItemData`). That no other client interferes follows from `HandlerInv`.

### Sgp2Proof

For all passwords, random values, numbers of faults and of empty answers:

| Theorem | States |
|---|---|
| `TypeCorrect`, `Invariance` | `Spec => []TypeOK`, `Spec => []IInv` |
| `AuthorisedCorrect` | `Spec => []OnlyAuthorised` |
| `QuietCorrect` | `Spec => []Quiet` |
| `AcceptedCorrect` | `Spec => []CommandsAccepted` |
| `OnceCorrect` | `Spec => ServedOnce` (an action property) |
| `CallCorrect` | `Spec => Call!Spec`, the safety part of `CallImplemented` |

*Assumptions.* `LinkAssumption` (passwords are not empty, a key has at least one place), and
`NoPacketAssumption` (no packet is the mark for an empty direction).

*The argument.* `LinkInv` says of every connection, those given up included, what may be on its
way: nothing on those to come, a request or its answer but not both, and as AUTH2 only what the
key of the client's password makes of the challenge; so a handle is authorised only if that key is
the one of the server's password, and then the passwords are alike (`KeysAlike`). `HandshakeInv` and `MessageInv` say the
same of the connection in use for each place of `Execute`. `SockInv` counts connections against faults, which bounds them. `OnceInv` says
that a command that is still on its way, on whatever connection, has not been carried out and
is on its way only there: a late request on a connection that was given up cannot run twice.
`CallInv` relates the emergency counter to the attempts that were carried out, which the
abstract call needs for its own count.

### ContainersProof, FilesProof, PacketsProof

| Theorem | States |
|---|---|
| `QueueCorrect` | `Spec => QueueImplemented`: the ring buffer is a `Fifo` |
| `ListCorrect` | `Spec => ListImplemented`: the sorted array is a `KeyedMap` |
| `HelpCorrect` | `Spec => []HelpersAgree` |
| `PagesCorrect` | `Spec => []PagesComplete` |
| `AccountsCorrect` | `Spec => []AccountsKept` |
| `QuestionsCorrect` | `Spec => []QuestListed` |
| `EditCorrect` | `Spec => EditKeepsItems` (an action property) |
| `ArrivesCorrect` | `Spec => []PacketArrives` |
| `DamageCorrect` | `Spec => []DamageNoticed` |
| `FitsCorrect` | `Spec => []MessageFits` |
| `LegacyCorrect` | `Spec => []LegacyArrives` |

*Assumptions.* `QueueAssumption` (at least one place and one item: the buffer holds something
before the first put), `ListAssumption`, `RecordsAssumption` (a page has 1 to 65535 records,
since `thServer2.cpp` announces their number in 16 bits: with a longer page `PagesComplete` is
false, which the proof brought up; and a message has room for any one record, without which the reader would
not get on), `AccountsAssumption`, `FilesAssumption` of `QuestionFiles`
(finitely many files), `PacketAssumption` (an address has 32 bits, a buffer's size 16),
`EditAssumption` (fewer edits than there are IDs, since IDs wrap; section 6), `LegacyAssumption`
(a server has 32 bits, a block fewer than 256 bytes, a message at most 16 blocks), `HelpAssumption`
(places of bytes and lengths of texts have 16 bits, days are those of 2000 to 27 February 2100).

*Queue and list.* `QueueInv`: the front position is as many places behind the end position as
there are items, so the contents are those of the ring from the end on. `ListInv`: the array is
sorted by key, no key twice. What the bisection returns is a lemma about its recursive
function (`Lands`): it finds the place of a key that is there, else the place where it belongs, or -1
in front of the first.

*Helpers.* `HelpInv` says that the input is one a caller gives, the rest is about the functions. Of
a value's four copies three are right. A number put together from its bits and halved again has
the same bits, because the one recursive function runs through the values of the other backwards
(`BitsOfNumber`). A wrong bit changes the parity of exactly one half of a card's frame
(`OddToggles`). Each day is a year's start, a month's start and a day of that month in exactly one way
(`HasDate`, `DateOf`), and its successor is the calendar's next date (`NextIsDay`), where February
2100, a month too long in the code, is left in time. The search stops at the first place where the
text stands, because where it gives up the text no longer fits (`FoundFirst`).

*Files.* `RecordsInv`: what the reader has is a beginning of the file, which only grows under it. The records
that a page carries whole are its first ones, at least one if there is any (sizes add up), so the reader
goes on without a gap; of a page that fits they are all.
`AccountsInv`: the lines behind those the file had at first are the saved accounts, three
each. `QuestInv`: no file is listed twice, and after a scan every readable one is listed and there are
no more entries than files found, which takes what `Erased` and `Added` compute. `EditInv`: each of
the two buffers holds a file whose items are read, or the beginning of one, and no item has an ID that is still to be given. An edit copies the items
in front, the changed one and those behind, so the places where items start are those of the two
parts put together; that they are read as before is a matter of the sizes in the cells. In `FilesProof`
the set `Text` adds the literals of the module to `STRING`: the provers do not know
that a literal is a string.

*Packets.* `IsOpen` and `IsPacket` say byte by byte what a packet in the making and a
complete one are, and `PacketInv` that the bytes are those of the attributes and the data
reported as taken, with room for the checksum, or for whole blocks while a message is
filled. The rest is arithmetic on bytes: numbers put in as bytes are read back, the
checksum has 16 bits, adding a put or an error code keeps `IsOpen`, and of the bytes received a validation
accepts exactly those that contain the whole packet. For `DamageNoticed`, one step of the
checksum's register is one-to-one, because the polynomial has its highest bit (`ShiftedDiffers`), so
a difference in one byte of what is checked stays a difference to the end (`CrcDiffers`); a damaged type,
size or checksum is treated apart. `PacketArrives` first claimed the clause about pings
for every request of type 15; local pings and those with an error code are built differently, which the proof
showed, so the clause is now about the global request that
`usSGP2_PL_CreateGlobalPingRequest` (`SGP2.c:801-815`) makes.

*Legacy.* `LegacyInv` says which bytes a message consists of. Both the writer and the reader go through
the blocks by recursive functions; that the reader stops at the places where the writer put them is
shown place by place (`PlacesUp`, `FoundAt`). Neither format carries its size, so one damaged
byte changes the checksum or is part of it, as above.

*Recursion.* What a recursive function computes is proved with `LeastElement`: a place at which
it would go wrong has a least one (`LeastNatural`), where the definition's step gives a
contradiction (`EachStep`, `StepByStep`). The module also has what the proofs share about the cells
of sequences put together and cut (`ConcatIs`, `PieceIs`) and about selecting from a sequence
(`SomeAre`, `SomeMore`).

### Only model-checked

* Liveness: `HandlerReturns`, `Retired`, `RequestReturns`, `ThreadEnds`, `Polled` and the ending
  of `CallImplemented`. It needs fairness and ENABLED, which are out of the prover's reach.

Every other property that a passing run checks is proved: all invariants, all action properties,
and the refinements, that of the abstract call in its safety part.

## 5. Where the code and its comments disagree

Each of these is a run that TLC refutes; the counterexample is a behaviour of the
program.

| Run | Behaviour |
|---|---|
| `PoolRequest` | A recycled task is in the list in `ts_Wait`. Once its ID is set the listener may start it, and the worker copies the blank request or the old settings. |
| `PoolProcess` | A fast worker sets `ts_Ready` before the listener sets `ts_Process`: the result is lost and the task never changes again. |
| `InfoOwn` | After a failed exchange the previous answer is copied into the next terminal's entry. |
| `InfoStop` | With an incomplete relay record `setSession` leaves a mutex locked and the stop of the session waits for ever. |
| `DialogHttp` | The web page reads through the same global buffers as `CMD_DIALOG`, without `xMessageMutex`: a page asked for while a client walks is answered with something else, or not at all. |

## 6. Met in reading or modelling, without a run

*Pool and tasks.*
* A worker's `taskCompleted = true` can come after `task_reset` has cleared the flag for the
  next request; the task is then freed while the next worker runs (`TaskExecutor.cpp:98`),
  although `TaskList.cpp:295` calls a free task already released.
* `ts_Error` has no branch in the listener: the instance is lost unless its own client
  asks again, although `TaskExecutor.h:13` says that a task passes to FREE.
* `TaskList.h:26` calls `tasksMutex` the mutex that protects the list, but `push_back` runs
  under `tasksAddMutex` alone (`TaskList.cpp:57`), beside the listener's accesses.
* `CMD_TERM_LIST_RS` may list a task without relay settings: `thServer2.cpp:296` announces
  them, and the call of `Fill_Task` below is commented out (297-301). A recycled task keeps
  its previous settings.
* `setSession` returns with `tasksMutex` locked when a field is missing
  (`Task_Base.h:384-411`): the same handler then waits for itself in `setCMD`, with
  `xMessageMutex` held. `StaysUsable` shows that the shared session does not lead there once it
  is complete; before the first `CMD_SES` it is uninitialised and may.
* An exception in a handler is caught in `handleClient`, but the received request is
  not forgotten (`thServer2.cpp:1139-1141`).
* `cmd_Base.cpp:82` locks its mutex and calls a function that locks it again; nothing calls it.

*Cache.* The reference returned by `getItem` is used after the vector may have been
reallocated (`ThRequestInfo.cpp:85-104`). The poller gets its session only from
`CMD_TERM_LIST_DHS`, only if that command is the one that loads it (`thServer2.cpp:629`).

*Connection.* `thClient.cpp:202`, `219` and `237` close a socket that line 341 closes again.
`Execute` without a command would spin (`thClient.cpp:284`).

*Records and accounts.*
* The number of records is announced before they are put (`thServer2.cpp:380-385`, "send actual count of
  item"), and the put functions cut and drop what the message has no room for (`SGP2.c:86-146`): a
  page of more than 32740 bytes brings fewer records than it announces.
* A page that starts behind the end of the file announces 65536 - n records
  (`thServer2.cpp:380` speaks of the actual count). Two writers may append the same record
  (`RelayServers.h:134`).
* The template of the account file has two lines where a record has three
  (`Accounts.cpp:78-92`), so the next account read takes the wrong lines; lines of 255
  characters or more are split.

*Dialogs and question files.*
* Files whose first or second character is a dot are skipped; if a scan were repeated, the entries of
  removed files would stay as long as there are at least as many files as entries
  (`FileWatcher.cpp:69-74`).
* For an item of size 0 nothing is put into the data buffer (`SgDialogLib.cpp:198`), and the text is taken
  from there all the same (`SgDialog.cpp:446-449`): the text of the item read before is answered, for
  the first answer of a dialog that is its question.
* More than eight answers overrun the arrays; texts that the message has no room for are cut; `CMD_DIALOG`
  reads a 16-bit ID where the file has 32 bits (`thServer2.cpp:794`); a file without dialogs makes `getFirst` undefined.
* A dialog whose question is that dialog itself recurses without end.
* `AddArray` takes the error -1 for success and copies a truncated buffer back; only code that is commented
  out calls it. IDs wrap from
  2^32 - 1 to 0 and may then be given twice, which `EditAssumption` leaves out.

*Packets.*
* Passwords with the same 16 bytes of key open each other's accounts (`SGP2.c:819-835`); an empty one is
  read past its end.
* A size that has become smaller, or a synchronisation byte that has become another one, makes the
  receiver look for the checksum elsewhere: such a packet is refused only because what stands there
  is unlikely to fit. The same holds of Midep messages and shuttles that are cut short, whose
  size is that of what was received: the shuttle for server 118, cut to its first ten bytes, is
  accepted.

*Containers and helpers.*
* `SgList`: asked for a key below the first one, `nearest` and `next` return -1 although there is an item to
  give (`SgListLib.c:210`); the comment promises the item "by key or nearest to it"
  (`SgListLib.c:181`). Deleting the first item during an iteration ends it early; a full list refuses even a new value for an existing key.
* `ProtocolsLib.c:148` reads a block's size before it compares the position with the
  message's length; `uiHF_DateTimeToUnix` and its inverse take 2100 for a leap year.
* Several length checks are off by the field that follows: `thServer2.cpp:635-636` (count read
  without a check), `685-693` and `Session.h:33-45` (terminating zero one past the end).

## 7. Plan

Everything the modules above cover is modelled and checked, and all of the safety properties of the
passing runs are proved. What could be added: the handlers of section 8 with their rights, the
command object that a client's tasks share, and PING and PROHIBITED packets in the exchange of
`Sgp2`, which has them in `Sgp2Packet` only.

No module declares a RECURSIVE operator, so any of them can be proved about.

## 8. Not modelled

* Logging, statistics and `Monitoring` have no state a property would be about. The
  platform ports and the argument parser are vendored or plain I/O. `TaskManager.*` is empty
  and nothing creates `Task_Info_RS` or `TaskRS_GetGroups`. `RemoveFromStack` and `ClearStack`
  are never called.
* Of the handlers: rights (`CMD_REQRIG`), statistics, server information and the server's
  name, which put together an answer from constants, counters or one account.
* The command object that a client's tasks share, and the request pointer into the receive
  buffer: plain data races on strings and vectors, of which any outcome is possible.
* The reuse of a socket number by the operating system: a client is its socket number.
* Timers: that a result expires after a time is a choice of the listener.

----------------------------- MODULE Sgp2Client -----------------------------
(***************************************************************************)
(* The client's end: thClientConnect::Execute with the requests of the     *)
(* message layer it makes (ucSGP2_ML_InitClientRequest and                 *)
(* ucSGP2_ML_ExecuteClientRequest) and the command object cmdTask that     *)
(* judges the answers.                                                     *)
(***************************************************************************)
EXTENDS Sgp2Link

Send(packet) == request' = Transmit(request, sock, packet)
Consume      == response' = [response EXCEPT ![sock] = None]

\* The packet type each wait of the message layer expects.
Expected == [handshake |-> "HANDSHAKE", auth1 |-> "AUTH1", auth2 |-> "AUTH2", execute |-> "MESSAGE"]
Preparing == pc \in {"handshake", "auth1", "auth2"}
Waiting   == pc \in DOMAIN Expected
Arrived   == Waiting /\ response[sock] # None

\* The answer has the right type, no error code and, if it is a message, the
\* checksum is right after decryption.
Accepted ==
    /\ Arrived
    /\ response[sock].type = Expected[pc] /\ ~response[sock].error
    /\ pc = "execute" => response[sock].data.key = ckey

\* The top of the loop: the handle forgets the server and the authorisation.
Start ==
    /\ pc = "start"
    /\ authed' = FALSE /\ known' = FALSE
    /\ pc' = "reconnect"
    /\ UNCHANGED <<stage, sock, held, pass, ckey, FCount, asked, got, result, linkVars, serverVars, faults>>

\* A new socket, connected and accepted.  The old one is not closed.
Reconnect ==
    /\ pc = "reconnect"
    /\ sock' = sock + 1
    /\ held' = held \cup {sock + 1}
    /\ srv' = [srv EXCEPT ![sock + 1] = NewHandle]
    /\ pc' = "prepare" /\ stage' = "auth"
    /\ UNCHANGED <<pass, ckey, authed, known, FCount, asked, got, result, linkVars, served, faults>>

\* No socket, no address or no connection: the new socket is closed, and
\* Terminated ends the loop.
ConnectFails ==
    /\ pc = "reconnect"
    /\ sock' = sock + 1
    /\ result' = "error" /\ pc' = "closing"
    /\ UNCHANGED <<stage, held, pass, ckey, authed, known, FCount, asked, got, linkVars, serverVars, faults>>

\* InitClientRequest: a session that is still good needs no handshake.
Prepare ==
    /\ pc = "prepare"
    /\ IF known /\ authed
       THEN pc' = "send" /\ UNCHANGED request
       ELSE pc' = "handshake" /\ Send(Packet("HANDSHAKE", None))
    /\ UNCHANGED <<stage, sock, held, pass, ckey, authed, known, FCount, asked, got, result,
                   response, serverVars, faults>>

Handshaken ==
    /\ pc = "handshake" /\ Accepted
    /\ known' = TRUE
    /\ Send(Packet("AUTH1", None)) /\ Consume
    /\ pc' = "auth1"
    /\ UNCHANGED <<stage, sock, held, pass, ckey, authed, FCount, asked, got, result, serverVars, faults>>

Challenged ==
    /\ pc = "auth1" /\ Accepted
    /\ ckey' = PasswordKey(pass)
    /\ Send(Packet("AUTH2", Encrypt(PasswordKey(pass), response[sock].data))) /\ Consume
    /\ pc' = "auth2"
    /\ UNCHANGED <<stage, sock, held, pass, authed, known, FCount, asked, got, result, serverVars, faults>>

Authorised ==
    /\ pc = "auth2" /\ Accepted
    /\ ckey' = SessionKey(pass, response[sock].data)
    /\ authed' = TRUE
    /\ Consume
    /\ pc' = "send"
    /\ UNCHANGED <<stage, sock, held, pass, known, FCount, asked, got, result, request, serverVars, faults>>

\* What Execute does when InitClientRequest fails: in the authorisation loop
\* it closes the connection and ends, in the main loop it connects again.
GiveUpPreparing ==
    IF stage = "auth"
    THEN held' = held \ {sock} /\ result' = "error" /\ pc' = "closing"
    ELSE pc' = "reconnect" /\ UNCHANGED <<held, result>>

Refused ==
    /\ Preparing /\ Arrived /\ ~Accepted
    /\ Consume
    /\ GiveUpPreparing
    /\ UNCHANGED <<stage, sock, pass, ckey, authed, known, FCount, asked, got, request, serverVars, faults>>

\* Command 0x0001 in the authorisation loop, the caller's command in the main
\* loop: every time it is sent is an attempt of its own.
SendMessage ==
    /\ pc = "send"
    /\ asked' = IF stage = "main" THEN asked + 1 ELSE asked
    /\ Send(Packet("MESSAGE", Message(ckey, IF stage = "main" THEN asked + 1 ELSE 0, "data")))
    /\ pc' = "execute"
    /\ UNCHANGED <<stage, sock, held, pass, ckey, authed, known, FCount, got, result,
                   response, serverVars, faults>>

\* The answer to 0x0001: an error flag makes Execute connect again with the
\* authorisation it has.
InfoAnswered ==
    /\ pc = "execute" /\ stage = "auth" /\ Accepted
    /\ Consume
    /\ IF response[sock].data.body = "flag"
       THEN pc' = "reconnect" /\ UNCHANGED stage
       ELSE pc' = "prepare" /\ stage' = "main"
    /\ UNCHANGED <<sock, held, pass, ckey, authed, known, FCount, asked, got, result, request, serverVars, faults>>

\* cmdTask::vResponseReceived: data ends the exchange, an answer without data
\* is counted and the command is sent again.
CommandAnswered ==
    /\ pc = "execute" /\ stage = "main" /\ Accepted
    /\ Consume
    /\ \/ /\ FCount > MaxEmpty
          /\ FCount' = 0
          /\ result' = "exhausted" /\ pc' = "closing"
          /\ UNCHANGED got
       \/ /\ FCount <= MaxEmpty
          /\ FCount' = FCount + 1
          /\ IF response[sock].data.body = "data"
             THEN result' = "answer" /\ got' = response[sock].data.cmd /\ pc' = "closing"
             ELSE pc' = "prepare" /\ UNCHANGED <<result, got>>
    /\ UNCHANGED <<stage, sock, held, pass, ckey, authed, known, asked, request, serverVars, faults>>

(* Mutant: the authorisation is kept. *)
ExecuteKeepsSession ==
    /\ pc = "execute" /\ Arrived /\ ~Accepted
    /\ Consume
    /\ stage' = "main"
    /\ pc' = IF stage = "auth" THEN "prepare" ELSE "start"
    /\ UNCHANGED <<authed, sock, held, pass, ckey, known, FCount, asked, got, result, request, serverVars, faults>>

\* A refused or unreadable message: the authorisation is given up; the
\* authorisation loop goes on to the main loop, the main loop starts over.
ExecuteFails ==
    /\ pc = "execute" /\ Arrived /\ ~Accepted
    /\ Consume
    /\ authed' = FALSE
    /\ stage' = "main"
    /\ pc' = IF stage = "auth" THEN "prepare" ELSE "start"
    /\ UNCHANGED <<sock, held, pass, ckey, known, FCount, asked, got, result, request, serverVars, faults>>

(* Mutant: after a time-out the command is sent again on the same socket. *)
LostRetries ==
    /\ Waiting
    /\ IF InFlight(sock) THEN Fault ELSE UNCHANGED faults
    /\ IF Preparing THEN GiveUpPreparing ELSE pc' = "prepare" /\ UNCHANGED <<held, result>>
    /\ UNCHANGED <<stage, sock, pass, ckey, authed, known, FCount, asked, got, linkVars, serverVars>>

(* Mutant: a lost connection ends the exchange with the last command object. *)
LostEnds ==
    /\ Waiting
    /\ IF InFlight(sock) THEN Fault ELSE UNCHANGED faults
    /\ authed' = FALSE
    /\ IF Preparing THEN GiveUpPreparing
       ELSE pc' = "closing" /\ result' = "answer" /\ UNCHANGED held
    /\ UNCHANGED <<stage, sock, pass, ckey, known, FCount, asked, got, linkVars, serverVars>>

\* The read times out or the link is closed.  It is a fault of the network or
\* of the server when an answer could still have come.
Lost ==
    /\ Waiting
    /\ IF InFlight(sock) THEN Fault ELSE UNCHANGED faults
    /\ authed' = FALSE
    /\ IF Preparing THEN GiveUpPreparing ELSE pc' = "reconnect" /\ UNCHANGED <<held, result>>
    /\ UNCHANGED <<stage, sock, pass, ckey, known, FCount, asked, got, linkVars, serverVars>>

Close ==
    /\ pc = "closing"
    /\ held' = held \ {sock}
    /\ pc' = "done"
    /\ UNCHANGED <<stage, sock, pass, ckey, authed, known, FCount, asked, got, result,
                   linkVars, serverVars, faults>>

Execute ==
    \/ Start \/ Reconnect \/ ConnectFails \/ Prepare \/ Handshaken \/ Challenged \/ Authorised
    \/ Refused \/ SendMessage \/ InfoAnswered \/ CommandAnswered \/ ExecuteFails \/ Lost \/ Close
=============================================================================

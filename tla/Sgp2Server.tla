----------------------------- MODULE Sgp2Server -----------------------------
(***************************************************************************)
(* The server's end: vsServer::handleClient reads a request, hands it to   *)
(* usSGP2_ML_ServerProcessRequest and writes the answer, one request at a  *)
(* time and one thread for each connection.                                *)
(***************************************************************************)
EXTENDS Sgp2Link

Received(n, type) == srv[n].open /\ request[n] # None /\ request[n].type = type

(* Mutant: the request stays in the buffer. *)
ReplyKept(n, packet) ==
    /\ UNCHANGED request
    /\ response' = [response EXCEPT ![n] = packet]

\* The answer leaves and the request is forgotten: k = 0.
Reply(n, packet) ==
    /\ request' = [request EXCEPT ![n] = None]
    /\ response' = [response EXCEPT ![n] = packet]

\* A handshake tells the client the server's buffer size and identifier.
Handshake(n) ==
    /\ Received(n, "HANDSHAKE")
    /\ Reply(n, Packet("HANDSHAKE", None))
    /\ UNCHANGED <<serverVars, clientVars, faults>>

\* A challenge: the random value is sent, its encryption under the password
\* of the user is what AUTH2 must bring.
Auth1(n) ==
    /\ Received(n, "AUTH1")
    /\ \E r \in Randoms :
        LET key == PasswordKey(ServerPassword)
        IN  /\ srv' = [srv EXCEPT ![n] = Handle(srv[n].authed, key, Encrypt(key, r))]
            /\ Reply(n, Packet("AUTH1", r))
    /\ UNCHANGED <<served, clientVars, faults>>

(* Mutant: the session key is made from the challenge. *)
Auth2FirstRandom(n) ==
    /\ Received(n, "AUTH2")
    /\ request[n].data = srv[n].expected
    /\ \E r \in Randoms :
        /\ srv' = [srv EXCEPT ![n] = Handle(TRUE, SessionKey(ServerPassword, srv[n].expected.plain), r)]
        /\ Reply(n, Packet("AUTH2", r))
    /\ UNCHANGED <<served, clientVars, faults>>

\* The answer to the challenge: a second random value makes the session key
\* and takes the place of the expected answer.
Auth2(n) ==
    /\ Received(n, "AUTH2")
    /\ request[n].data = srv[n].expected
    /\ \E r \in Randoms :
        /\ srv' = [srv EXCEPT ![n] = Handle(TRUE, SessionKey(ServerPassword, r), r)]
        /\ Reply(n, Packet("AUTH2", r))
    /\ UNCHANGED <<served, clientVars, faults>>

Auth2Refused(n) ==
    /\ Received(n, "AUTH2")
    /\ request[n].data # srv[n].expected
    /\ Reply(n, Refusal("AUTH2"))
    /\ UNCHANGED <<serverVars, clientVars, faults>>

\* A message is carried out when the connection is authorised and the
\* checksum is right after decryption, that is, when the keys agree.
Readable(n) == srv[n].authed /\ request[n].data.key = srv[n].key

Answer(n, body) ==
    Reply(n, Packet("MESSAGE", Message(srv[n].key, request[n].data.cmd, body)))

\* Command 0x0001, which the client sends first.  A remote server may flag an
\* error in ucPar; how often it does is bounded like the faults.
Info(n) ==
    /\ Received(n, "MESSAGE") /\ Readable(n) /\ request[n].data.cmd = 0
    /\ \/ Answer(n, "data") /\ UNCHANGED faults
       \/ Answer(n, "flag") /\ Fault
    /\ UNCHANGED <<serverVars, clientVars>>

\* Any other command: the answer has no data while the server has no result.
Command(n) ==
    /\ Received(n, "MESSAGE") /\ Readable(n) /\ request[n].data.cmd # 0
    /\ served' = served \cup {request[n].data.cmd}
    /\ \E body \in {"data", "empty"} : Answer(n, body)
    /\ UNCHANGED <<srv, clientVars, faults>>

MessageRefused(n) ==
    /\ Received(n, "MESSAGE") /\ ~Readable(n)
    /\ Reply(n, Refusal("MESSAGE"))
    /\ UNCHANGED <<serverVars, clientVars, faults>>

\* A request that arrives in two pieces: neither decodes, and k = 0 forgets
\* each of them.
Lose(n) ==
    /\ srv[n].open /\ request[n] # None
    /\ Fault
    /\ request' = [request EXCEPT ![n] = None]
    /\ UNCHANGED <<response, serverVars, clientVars>>

\* The read fails, or times out: the handler closes the connection and ends.
\* That is a fault while the client uses it.
Shut(n) ==
    /\ srv[n].open
    /\ IF n = sock /\ n \in held THEN Fault ELSE UNCHANGED faults
    /\ srv' = [srv EXCEPT ![n] = NoHandle]
    /\ request' = [request EXCEPT ![n] = None]
    /\ UNCHANGED <<response, served, clientVars>>

Process(n) ==
    \/ Handshake(n) \/ Auth1(n) \/ Auth2(n) \/ Auth2Refused(n)
    \/ Info(n) \/ Command(n) \/ MessageRefused(n)
=============================================================================

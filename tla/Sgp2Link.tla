------------------------------ MODULE Sgp2Link ------------------------------
(***************************************************************************)
(* What the two ends of the SGP2 message layer share: the packets, the     *)
(* keys, and the state of one exchange of thClientConnect::Execute with    *)
(* the handlers of its connections.  A connection is a number; a new one   *)
(* is made by every pass through _reconnect (src/thClient.cpp:161).  A     *)
(* packet is its type, its error code and what its data means: bytes,      *)
(* lengths and checksums are the subject of module Sgp2Packet.             *)
(***************************************************************************)
EXTENDS Naturals, Sequences, FiniteSets

CONSTANTS
    Characters,      \* what passwords are made of
    Passwords,       \* passwords a client may be configured with
    ServerPassword,  \* the password of the client's user in the accounts
    KeySize,         \* SGP2_ML_ENCRYPTION_BLOCK_SIZE: 16
    Randoms,         \* values of the random generator: repeats do occur
    None,            \* no packet, no data, no key
    MaxFaults,       \* bound on lost requests, late answers and closed links
    MaxEmpty         \* the 10 of the emergency exit (src/cmd_Task.h:44)

\* The conversion of an empty password reads past its end: there is none.
ASSUME LinkAssumption ==
    /\ Passwords \subseteq Seq(Characters) \ {<<>>}
    /\ ServerPassword \in Passwords
    /\ KeySize \in Nat \ {0}
    /\ None \notin Passwords \cup Randoms
    /\ MaxFaults \in Nat
    /\ MaxEmpty \in Nat

VARIABLES
    request,   \* per connection: the packet on its way to the server
    response,  \* per connection: the packet on its way to the client
    srv,       \* per connection: the server's handle
    served,    \* attempts whose command the server has carried out
    pc,        \* where Execute is
    stage,     \* "auth" (lines 225-263) or "main" (lines 268-329)
    sock,      \* the connection Execute uses: pxTCP_Connection
    held,      \* connections whose socket the client has not closed
    pass,      \* the configured password
    ckey,      \* the client's AES key
    authed,    \* the client's bIsAuthed
    known,     \* the client's usRemoteServerInBufSize is not zero
    FCount,    \* answers counted by the emergency exit
    asked,     \* commands sent so far: each is an attempt of its own
    got,       \* the attempt whose answer was taken as the result
    result,    \* how the exchange ended
    faults     \* faults so far

linkVars   == <<request, response>>
serverVars == <<srv, served>>
clientVars == <<pc, stage, sock, held, pass, ckey, authed, known, FCount, asked, got, result>>
vars       == <<linkVars, serverVars, clientVars, faults>>

\* Every connection after the first is made because of a fault.
Connections == 1 .. MaxFaults + 1

(* Mutant: the key does not depend on the password. *)
EmptyKey(p) == [i \in 1 .. KeySize |-> None]

\* A key is filled from its end with the characters of the password, again
\* and again until it is full: "a" and "aa" have the same key, and so have
\* passwords that agree in their first KeySize characters.
PasswordKey(p) == [i \in 1 .. KeySize |-> p[((KeySize - i) % Len(p)) + 1]]

\* The session key is the password key xor the random value of the AUTH2
\* answer: another key for another password key or another value.
SessionKey(p, r) == Append(PasswordKey(p), r)
Encrypt(k, r)    == [key |-> k, plain |-> r]

Message(k, cmd, body) == [key |-> k, cmd |-> cmd, body |-> body]

\* A packet and a packet with an error code.
Packet(type, data) == [type |-> type, error |-> FALSE, data |-> data]
Refusal(type)      == [type |-> type, error |-> TRUE, data |-> None]

InFlight(n) == request[n] # None \/ response[n] # None

\* The socket layer: a write to a closed link is not noticed.
Transmit(req, n, packet) == IF srv[n].open THEN [req EXCEPT ![n] = packet] ELSE req

Fault == faults < MaxFaults /\ faults' = faults + 1

\* The server's handle while its connection is open, a new one, and none:
\* before the connection is accepted and when its handler has ended.
Handle(isAuthed, key, expected) ==
    [open |-> TRUE, authed |-> isAuthed, key |-> key, expected |-> expected]

NewHandle == Handle(FALSE, None, None)
NoHandle  == [open |-> FALSE, authed |-> FALSE, key |-> None, expected |-> None]

\* All keys and all packets.
Keys == {None} \cup {PasswordKey(p) : p \in Passwords}
               \cup {SessionKey(p, r) : p \in Passwords, r \in Randoms}

Packets ==
    [type : {"HANDSHAKE", "AUTH1", "AUTH2", "MESSAGE"}, error : BOOLEAN,
     data : {None} \cup Randoms \cup [key : Keys, plain : Randoms]
                   \cup [key : Keys, cmd : Nat, body : {"data", "empty", "flag"}]]

ASSUME NoPacketAssumption == None \notin Packets
=============================================================================

---------------------------- MODULE Sgp2Proof ----------------------------
(***************************************************************************)
(* Safety of one exchange over the SGP2 protocol for any passwords, random *)
(* values, numbers of faults and of empty answers.  The inductive          *)
(* invariant says what can be on its way on the connection in use at each  *)
(* place of the client's Execute, and what the server's handle for it is   *)
(* then; of the connections that were given up it says only that a request *)
(* still on its way there is carried out once at most and never for a      *)
(* client whose password makes another key.                                *)
(***************************************************************************)
EXTENDS Sgp2, FiniteSetTheorems, TLAPS

(* Command 0 is 0x0001 of the authorisation loop, the others are attempts.   *)
Cmd == IF stage = "main" THEN asked ELSE 0

(* A request that is a command of the caller. *)
Carries(n) == request[n] # None /\ request[n].type = "MESSAGE" /\ request[n].data.cmd # 0

(* The client's connection, if it is still open, has the client's session.   *)
Agreed == srv[sock].open => srv[sock].authed /\ srv[sock].key = ckey

(* The connection in use is there, and whatever costs a connection was a     *)
(* fault.                                                                    *)
SockInv ==
    /\ sock \in Nat /\ faults \in 0..MaxFaults
    /\ sock <= faults + 1
    /\ pc \in {"start", "reconnect"} => sock <= faults
    /\ pc \notin {"start", "reconnect", "closing", "done"} => sock \in held
    /\ sock \in held /\ ~ srv[sock].open => sock <= faults
    /\ Waiting /\ ~ InFlight(sock) => sock <= faults

(* Every connection: those to come are untouched, a request is answered once *)
(* and only while the server is there, AUTH2 brings the answer to the        *)
(* challenge as the client's password makes it, and nobody is authorised     *)
(* with a password that makes another key than the server's.               *)
Sound(n) ==
    /\ n > sock => request[n] = None /\ response[n] = None /\ srv[n] = NoHandle
    /\ request[n] # None => response[n] = None /\ srv[n].open
    /\ srv[n].authed => PasswordKey(pass) = PasswordKey(ServerPassword)
    /\ request[n] # None /\ request[n].type = "AUTH2" =>
          \E r \in Randoms :
              /\ request[n].data = Encrypt(PasswordKey(pass), r)
              /\ srv[n].expected = Encrypt(PasswordKey(ServerPassword), r)
    /\ request[n] # None /\ request[n].type = "MESSAGE" =>
          \E k \in Keys, c \in 0..asked : request[n].data = Message(k, c, "data")

LinkInv ==
    /\ \A n \in Connections : Sound(n)
    /\ pc \in {"send", "execute"} \/ stage = "main" \/ authed => PasswordKey(pass) = PasswordKey(ServerPassword)

(* A command that is on its way, on whatever connection, has not been        *)
(* carried out, and is on its way only there.                                *)
OnceInv ==
    /\ \A n \in Connections :
          Carries(n) => request[n].data.cmd \in 1..asked /\ request[n].data.cmd \notin served
    /\ \A m, n \in Connections :
          Carries(m) /\ Carries(n) /\ request[m].data.cmd = request[n].data.cmd => m = n

(* What can be on its way on the client's connection at each place of        *)
(* Execute, and what the server's handle is then.                            *)
HandshakeInv ==
    /\ Quiet
    /\ pc = "handshake" =>
          /\ request[sock] \in {None, Packet("HANDSHAKE", None)}
          /\ response[sock] \in {None, Packet("HANDSHAKE", None)}
    /\ pc = "auth1" =>
          /\ request[sock] \in {None, Packet("AUTH1", None)}
          /\ response[sock] # None =>
                \E r \in Randoms :
                    /\ response[sock] = Packet("AUTH1", r)
                    /\ srv[sock].open => srv[sock].expected = Encrypt(PasswordKey(ServerPassword), r)
    /\ pc = "auth2" =>
          /\ request[sock] # None => request[sock].type = "AUTH2"
          /\ response[sock] # None =>
                \/ response[sock] = Refusal("AUTH2") /\ PasswordKey(pass) # PasswordKey(ServerPassword)
                \/ \E r \in Randoms :
                      /\ response[sock] = Packet("AUTH2", r) /\ PasswordKey(pass) = PasswordKey(ServerPassword)
                      /\ srv[sock].open =>
                            srv[sock].authed /\ srv[sock].key = SessionKey(ServerPassword, r)

MessageInv ==
    /\ pc = "execute" =>
          /\ request[sock] \in {None, Packet("MESSAGE", Message(ckey, Cmd, "data"))}
          /\ response[sock] # None =>
                \/ response[sock] = Refusal("MESSAGE") /\ stage = "auth"
                \/ \E body \in {"data", "empty", "flag"} :
                      /\ response[sock] = Packet("MESSAGE", Message(ckey, Cmd, body))
                      /\ Agreed
                      /\ body = "flag" => stage = "auth" /\ sock <= faults
                      /\ stage = "main" => asked \in served
    /\ stage = "main" /\ (pc \in {"send", "execute"} \/ (pc = "prepare" /\ authed /\ known)) =>
          Agreed

(* The call: counted answers are answers of different attempts.              *)
CallInv ==
    /\ asked \in Nat
    /\ result = "none" <=> pc \notin {"closing", "done"}
    /\ FCount <= Cardinality(served)
    /\ pc = "execute" /\ stage = "main" =>
          asked > 0 /\ FCount <= Cardinality(served \ {asked})

IInv ==
    /\ TypeOK /\ SockInv /\ LinkInv /\ OnceInv /\ HandshakeInv /\ MessageInv /\ CallInv

-----------------------------------------------------------------------------
(* Keys and packets. *)

LEMMA KeyTypes ==
    /\ None \in Keys
    /\ \A p \in Passwords : PasswordKey(p) \in Keys
    /\ \A p \in Passwords, r \in Randoms : SessionKey(p, r) \in Keys
  BY DEF Keys

(* The packets the two ends send are packets, and no packet is None.         *)
LEMMA PacketTypes ==
    /\ Packet("HANDSHAKE", None) \in Packets
    /\ Packet("AUTH1", None) \in Packets
    /\ \A r \in Randoms : Packet("AUTH1", r) \in Packets /\ Packet("AUTH2", r) \in Packets
    /\ \A k \in Keys, r \in Randoms : Packet("AUTH2", Encrypt(k, r)) \in Packets
    /\ \A k \in Keys, c \in Nat, b \in {"data", "empty", "flag"} :
          Packet("MESSAGE", Message(k, c, b)) \in Packets
    /\ Refusal("AUTH2") \in Packets /\ Refusal("MESSAGE") \in Packets
  <1> USE DEF Packets, Packet, Refusal
  <1>1. \A k \in Keys, r \in Randoms : Encrypt(k, r) \in [key : Keys, plain : Randoms]
    BY DEF Encrypt
  <1>2. \A k \in Keys, c \in Nat, b \in {"data", "empty", "flag"} :
           Message(k, c, b) \in [key : Keys, cmd : Nat, body : {"data", "empty", "flag"}]
    BY DEF Message
  <1> QED BY <1>1, <1>2

LEMMA PacketFields ==
    /\ \A t, d : Packet(t, d).type = t /\ Packet(t, d).data = d /\ Packet(t, d).error = FALSE
    /\ \A t : Refusal(t).type = t /\ Refusal(t).data = None /\ Refusal(t).error = TRUE
    /\ \A k, c, b : /\ Message(k, c, b).key = k
                    /\ Message(k, c, b).cmd = c
                    /\ Message(k, c, b).body = b
  BY DEF Packet, Refusal, Message

LEMMA Waits ==
    /\ DOMAIN Expected = {"handshake", "auth1", "auth2", "execute"}
    /\ Expected["handshake"] = "HANDSHAKE" /\ Expected["auth1"] = "AUTH1"
    /\ Expected["auth2"] = "AUTH2" /\ Expected["execute"] = "MESSAGE"
  BY DEF Expected

-----------------------------------------------------------------------------
(* Where the client is and what the server does, in the words the proofs     *)
(* need.                                                                     *)

LEMMA InUse ==
    ASSUME IInv, Waiting \/ pc \in {"prepare", "send"}
    PROVE  sock \in Connections /\ sock \in held /\ sock \in Nat
  BY Waits DEF IInv, TypeOK, SockInv, Waiting, Connections

LEMMA Sends ==
    ASSUME NEW p, Send(p)
    PROVE  /\ request' \in {request, [request EXCEPT ![sock] = p]}
           /\ srv[sock].open => request' = [request EXCEPT ![sock] = p]
           /\ ~ srv[sock].open => request' = request
  BY DEF Send, Transmit

LEMMA AnswerMade ==
    ASSUME IInv, NEW n \in Connections, Info(n) \/ Command(n)
    PROVE  /\ srv[n].open /\ srv[n].authed /\ request[n].data.key = srv[n].key
           /\ request[n] # None /\ request[n].type = "MESSAGE" /\ request[n].data.cmd \in Nat
           /\ request' = [request EXCEPT ![n] = None]
           /\ \E b \in {"data", "empty", "flag"} :
                 /\ response' = [response EXCEPT ![n] =
                                    Packet("MESSAGE", Message(srv[n].key, request[n].data.cmd, b))]
                 /\ b = "flag" => request[n].data.cmd = 0 /\ faults' = faults + 1
           /\ faults' \in {faults, faults + 1}
           /\ faults' # faults => faults < MaxFaults
           /\ UNCHANGED <<srv, clientVars>>
  <1>1. Sound(n) /\ asked \in Nat
    BY DEF IInv, LinkInv, CallInv
  <1>2. srv[n].open /\ request[n] # None /\ request[n].type = "MESSAGE" /\ Readable(n)
    BY DEF Info, Command, Received
  <1>3. request[n].data.cmd \in Nat
    BY <1>1, <1>2, PacketFields DEF Sound
  <1>4. CASE Info(n)
    BY <1>2, <1>3, <1>4 DEF Info, Answer, Reply, Readable, Fault, serverVars
  <1>5. CASE Command(n)
    BY <1>2, <1>3, <1>5 DEF Command, Answer, Reply, Readable
  <1> QED BY <1>4, <1>5

LEMMA AnswerInFlight ==
    ASSUME IInv, NEW n \in Connections, Info(n) \/ Command(n)
    PROVE  \A m \in Connections : (request'[m] # None \/ response'[m] # None) <=> InFlight(m)
  <1> DEFINE a(b) == Packet("MESSAGE", Message(srv[n].key, request[n].data.cmd, b))
  <1>1. /\ request[n] # None /\ request' = [request EXCEPT ![n] = None]
        /\ \E b \in {"data", "empty", "flag"} : response' = [response EXCEPT ![n] = a(b)]
    BY AnswerMade
  <1>2. \A b \in {"data", "empty", "flag"} : a(b) # None
    <2>1. srv[n].key \in Keys /\ request[n].data.cmd \in Nat
      BY AnswerMade DEF IInv, TypeOK
    <2> QED BY <2>1, PacketTypes, NoPacketAssumption
  <1>3. DOMAIN request = Connections /\ DOMAIN response = Connections
    BY DEF IInv, TypeOK
  <1> HIDE DEF a
  <1> QED BY <1>1, <1>2, <1>3 DEF InFlight

(* What the client takes for the challenge, and for the end of its           *)
(* authorisation: the server's packets with a random value each.             *)
LEMMA ChallengeTaken ==
    ASSUME IInv, Challenged
    PROVE  /\ sock \in Connections /\ response[sock].data \in Randoms
           /\ Encrypt(PasswordKey(pass), response[sock].data) \in [key : Keys, plain : Randoms]
           /\ Packet("AUTH2", Encrypt(PasswordKey(pass), response[sock].data)) \in Packets
  <1>1. pc = "auth1" /\ Waiting /\ response[sock] # None
    BY DEF Challenged, Accepted, Arrived
  <1>2. PICK r \in Randoms : response[sock] = Packet("AUTH1", r)
    BY <1>1 DEF IInv, HandshakeInv
  <1>3. response[sock].data = r
    BY <1>2, PacketFields
  <1>4. PasswordKey(pass) \in Keys
    BY KeyTypes DEF IInv, TypeOK
  <1>5. Encrypt(PasswordKey(pass), r) \in [key : Keys, plain : Randoms]
    BY <1>4 DEF Encrypt
  <1> QED BY <1>1, <1>3, <1>4, <1>5, InUse, PacketTypes

LEMMA SessionTaken ==
    ASSUME IInv, Authorised
    PROVE  /\ sock \in Connections /\ response[sock].data \in Randoms
           /\ SessionKey(pass, response[sock].data) \in Keys
           /\ PasswordKey(pass) = PasswordKey(ServerPassword)
           /\ SessionKey(pass, response[sock].data) = SessionKey(ServerPassword, response[sock].data)
           /\ srv[sock].open => /\ srv[sock].authed
                                /\ srv[sock].key = SessionKey(ServerPassword, response[sock].data)
  <1>1. pc = "auth2" /\ Waiting /\ response[sock] # None /\ ~ response[sock].error
    BY DEF Authorised, Accepted, Arrived
  <1>2. response[sock] # Refusal("AUTH2")
    BY <1>1, PacketFields
  <1>3. PICK r \in Randoms :
          /\ response[sock] = Packet("AUTH2", r) /\ PasswordKey(pass) = PasswordKey(ServerPassword)
          /\ srv[sock].open => srv[sock].authed /\ srv[sock].key = SessionKey(ServerPassword, r)
    BY <1>1, <1>2 DEF IInv, HandshakeInv
  <1>4. response[sock].data = r
    BY <1>3, PacketFields
  <1>5. SessionKey(pass, r) \in Keys
    BY KeyTypes DEF IInv, TypeOK
  <1>6. SessionKey(pass, r) = SessionKey(ServerPassword, r)
    BY <1>3 DEF SessionKey
  <1> QED BY <1>1, <1>3, <1>4, <1>5, <1>6, InUse

(* What the server's handle is after a step of the authorisation.            *)
LEMMA HandleKept ==
    ASSUME IInv, NEW n \in Connections, NEW b, NEW k \in Keys, NEW x,
           srv' = [srv EXCEPT ![n] = Handle(b, k, x)]
    PROVE  DOMAIN srv' = Connections /\ \A m \in Connections : srv'[m].key \in Keys
  <1>1. Handle(b, k, x).key = k
    BY DEF Handle
  <1> QED BY <1>1 DEF IInv, TypeOK

LEMMA FiniteServed ==
    ASSUME IInv
    PROVE  IsFiniteSet(served)
  <1>1. IsFiniteSet(1..asked)
    BY FS_Interval DEF IInv, CallInv
  <1> QED BY <1>1, FS_Subset DEF IInv, TypeOK

(* What the server does on another connection than the client's.             *)
LEMMA Elsewhere ==
    ASSUME IInv, NEW n \in Connections, Process(n) \/ Lose(n) \/ Shut(n)
    PROVE  /\ \A m \in Connections \ {n} :
                 request'[m] = request[m] /\ response'[m] = response[m] /\ srv'[m] = srv[m]
           /\ UNCHANGED clientVars
           /\ faults' \in {faults, faults + 1}
           /\ served \subseteq served'
  BY DEF Process, Handshake, Auth1, Auth2, Auth2Refused, Info, Command, MessageRefused, Lose, Shut,
         Received, Reply, Answer, Fault, serverVars, IInv, TypeOK

(* A connection stays as it should be while nothing happens on it.           *)
LEMMA SoundKept ==
    ASSUME NEW n \in Connections, Sound(n), sock \in Nat, sock' \in {sock, sock + 1}, pass' = pass,
           asked \in Nat, asked' \in {asked, asked + 1},
           request'[n] = request[n], response'[n] \in {response[n], None}, srv'[n] = srv[n]
    PROVE  Sound(n)'
  <1>1. 0..asked \subseteq 0..asked'
    OBVIOUS
  <1>2. n > sock' => n > sock
    BY DEF Connections
  <1> QED BY <1>1, <1>2 DEF Sound

LEMMA OnceKept ==
    ASSUME OnceInv, asked \in Nat, asked' \in {asked, asked + 1}, served' = served,
           \A n \in Connections : Carries(n)' => Carries(n) /\ request'[n] = request[n]
    PROVE  OnceInv'
  BY DEF OnceInv

-----------------------------------------------------------------------------

LEMMA ClientType ==
    ASSUME IInv, Execute
    PROVE  TypeOK'
  <1>4. CASE Prepare
    <2>1. sock \in Connections
      BY <1>4, InUse DEF Prepare
    <2>2. request' \in {request, [request EXCEPT ![sock] = Packet("HANDSHAKE", None)]}
      BY <1>4, Sends DEF Prepare
    <2>3. request' \in [Connections -> Packets \cup {None}]
      BY <2>1, <2>2, PacketTypes DEF IInv, TypeOK
    <2> QED BY <1>4, <2>3, Waits DEF Prepare, IInv, TypeOK, serverVars
  <1>6. CASE Challenged
    <2>1. request' \in [Connections -> Packets \cup {None}]
      BY <1>6, ChallengeTaken, Sends DEF Challenged, IInv, TypeOK
    <2>2. response' \in [Connections -> Packets \cup {None}]
      BY <1>6 DEF Challenged, Consume, IInv, TypeOK
    <2>3. ckey' \in Keys
      BY <1>6, KeyTypes DEF Challenged, IInv, TypeOK
    <2>4. pc' \in DOMAIN Expected
      BY <1>6, Waits DEF Challenged
    <2>5. UNCHANGED <<srv, sock, held, stage, pass, FCount, got, asked, served>>
      BY <1>6 DEF Challenged, serverVars
    <2> QED BY <2>1, <2>2, <2>3, <2>4, <2>5 DEF IInv, TypeOK
  <1>7. CASE Authorised
    <2>1. response' \in [Connections -> Packets \cup {None}]
      BY <1>7 DEF Authorised, Consume, IInv, TypeOK
    <2>2. ckey' \in Keys /\ pc' = "send"
      BY <1>7, SessionTaken DEF Authorised
    <2>3. UNCHANGED <<request, srv, sock, held, stage, pass, FCount, got, asked, served>>
      BY <1>7 DEF Authorised, serverVars
    <2> QED BY <2>1, <2>2, <2>3 DEF IInv, TypeOK
  <1>8. CASE Refused
    <2>1. pc' \in {"reconnect", "closing"} /\ held' \subseteq held
      BY <1>8 DEF Refused, GiveUpPreparing
    <2>2. response' \in [Connections -> Packets \cup {None}]
      BY <1>8 DEF Refused, Consume, linkVars, IInv, TypeOK
    <2> QED BY <1>8, <2>1, <2>2
       DEF Refused, GiveUpPreparing, linkVars, serverVars, IInv, TypeOK
  <1>11. CASE CommandAnswered
    <2>1. response[sock].data.cmd = asked
      BY <1>11, PacketFields DEF CommandAnswered, Accepted, Arrived, Cmd, IInv, MessageInv
    <2>2. response' \in [Connections -> Packets \cup {None}]
      BY <1>11 DEF CommandAnswered, Consume, IInv, TypeOK
    <2>3. FCount' \in 0..MaxEmpty + 1 /\ pc' \in {"prepare", "closing"}
      BY <1>11, LinkAssumption DEF CommandAnswered, IInv, TypeOK
    <2>4. got' \in 0..asked
      BY <1>11, <2>1 DEF CommandAnswered, IInv, TypeOK, CallInv
    <2>5. UNCHANGED <<stage, sock, held, pass, ckey, authed, known, asked, request, served, srv>>
      BY <1>11 DEF CommandAnswered, serverVars
    <2> QED BY <2>2, <2>3, <2>4, <2>5 DEF IInv, TypeOK
  <1>13. CASE Lost
    <2>1. pc' \in {"reconnect", "closing"} /\ held' \subseteq held
      BY <1>13 DEF Lost, GiveUpPreparing
    <2>2. response' \in [Connections -> Packets \cup {None}]
      BY <1>13 DEF Lost, Consume, linkVars, IInv, TypeOK
    <2> QED BY <1>13, <2>1, <2>2
       DEF Lost, GiveUpPreparing, linkVars, serverVars, IInv, TypeOK
  <1> USE KeyTypes, PacketTypes, PacketFields, Waits, NoPacketAssumption, LinkAssumption
     DEF IInv, TypeOK, SockInv, LinkInv, HandshakeInv, MessageInv, CallInv, Waiting,
         InFlight, Quiet, Connections, linkVars, serverVars, clientVars, Agreed, Cmd,
         Handle, NewHandle, NoHandle
  <1>1. CASE Start
    BY <1>1 DEF Start
  <1>2. CASE Reconnect
    BY <1>2 DEF Reconnect
  <1>3. CASE ConnectFails
    BY <1>3 DEF ConnectFails
  <1>5. CASE Handshaken
    BY <1>5 DEF Handshaken, Send, Transmit, Consume, Accepted, Arrived
  <1>9. CASE SendMessage
    BY <1>9 DEF SendMessage, Send, Transmit
  <1>10. CASE InfoAnswered
    BY <1>10 DEF InfoAnswered, Consume, Accepted, Arrived
  <1>12. CASE ExecuteFails
    BY <1>12 DEF ExecuteFails, Consume, Accepted, Arrived
  <1>14. CASE Close
    BY <1>14 DEF Close
  <1> QED BY <1>1, <1>2, <1>3, <1>4, <1>5, <1>6, <1>7, <1>8, <1>9, <1>10, <1>11, <1>12,
     <1>13, <1>14
     DEF Execute

LEMMA ServerType ==
    ASSUME IInv, NEW n \in Connections, Process(n) \/ Lose(n) \/ Shut(n)
    PROVE  TypeOK'
  <1>5. CASE Info(n) \/ Command(n)
    <2>1. request' \in [Connections -> Packets \cup {None}]
      BY <1>5, AnswerMade DEF IInv, TypeOK
    <2>2. srv[n].key \in Keys
      BY DEF IInv, TypeOK
    <2>3. response' \in [Connections -> Packets \cup {None}]
      BY <1>5, <2>2, AnswerMade, PacketTypes DEF IInv, TypeOK
    <2>4. served' \subseteq 1..asked
      BY <1>5 DEF Info, Command, Received, serverVars, IInv, TypeOK, OnceInv, Carries
    <2>5. UNCHANGED <<srv, clientVars>>
      BY <1>5, AnswerMade
    <2> QED BY <2>1, <2>3, <2>4, <2>5 DEF IInv, TypeOK, clientVars
  <1>2. CASE Auth1(n)
    <2>1. PICK r \in Randoms :
            /\ srv' = [srv EXCEPT ![n] = Handle(srv[n].authed, PasswordKey(ServerPassword),
                                               Encrypt(PasswordKey(ServerPassword), r))]
            /\ Reply(n, Packet("AUTH1", r))
      BY <1>2 DEF Auth1
    <2>2. PasswordKey(ServerPassword) \in Keys
      BY KeyTypes, LinkAssumption
    <2>3. DOMAIN srv' = Connections /\ \A m \in Connections : srv'[m].key \in Keys
      BY <2>1, <2>2, HandleKept
    <2>4. /\ request' \in [Connections -> Packets \cup {None}]
          /\ response' \in [Connections -> Packets \cup {None}]
      BY <2>1, PacketTypes DEF Reply, IInv, TypeOK
    <2>5. UNCHANGED <<served, clientVars>>
      BY <1>2 DEF Auth1
    <2> QED BY <2>3, <2>4, <2>5 DEF IInv, TypeOK, clientVars
  <1>3. CASE Auth2(n)
    <2>1. PICK r \in Randoms :
            /\ srv' = [srv EXCEPT ![n] = Handle(TRUE, SessionKey(ServerPassword, r), r)]
            /\ Reply(n, Packet("AUTH2", r))
      BY <1>3 DEF Auth2
    <2>2. SessionKey(ServerPassword, r) \in Keys
      BY KeyTypes, LinkAssumption
    <2>3. DOMAIN srv' = Connections /\ \A m \in Connections : srv'[m].key \in Keys
      BY <2>1, <2>2, HandleKept
    <2>4. /\ request' \in [Connections -> Packets \cup {None}]
          /\ response' \in [Connections -> Packets \cup {None}]
      BY <2>1, PacketTypes DEF Reply, IInv, TypeOK
    <2>5. UNCHANGED <<served, clientVars>>
      BY <1>3 DEF Auth2
    <2> QED BY <2>3, <2>4, <2>5 DEF IInv, TypeOK, clientVars
  <1> USE KeyTypes, PacketTypes, PacketFields, Waits, NoPacketAssumption, LinkAssumption
     DEF IInv, TypeOK, SockInv, LinkInv, HandshakeInv, MessageInv, CallInv, Waiting,
         InFlight, Quiet, Connections, linkVars, serverVars, clientVars, Agreed, Cmd,
         Handle, NewHandle, NoHandle
  <1>1. CASE Handshake(n)
    BY <1>1 DEF Handshake, Received, Reply
  <1>4. CASE Auth2Refused(n)
    BY <1>4 DEF Auth2Refused, Received, Reply
  <1>7. CASE MessageRefused(n)
    BY <1>7 DEF MessageRefused, Received, Reply, Readable
  <1>8. CASE Lose(n)
    BY <1>8 DEF Lose, Fault
  <1>9. CASE Shut(n)
    BY <1>9 DEF Shut, Fault
  <1> QED BY <1>1, <1>2, <1>3, <1>4, <1>5, <1>7, <1>8, <1>9 DEF Process

-----------------------------------------------------------------------------

(* A connection that is lost was already paid for, or it is a fault now.     *)
LEMMA LostSock ==
    ASSUME IInv, Lost
    PROVE  SockInv'
  <1>1. SockInv /\ MaxFaults \in Nat
    BY LinkAssumption DEF IInv
  <1>2. /\ Waiting /\ sock' = sock /\ held' \subseteq held /\ srv' = srv
        /\ pc' \in {"reconnect", "closing"}
    BY DEF Lost, GiveUpPreparing, serverVars, linkVars
  <1>3. /\ InFlight(sock) => faults < MaxFaults /\ faults' = faults + 1
        /\ ~ InFlight(sock) => faults' = faults
    BY DEF Lost, Fault
  <1>4. faults' \in 0..MaxFaults /\ sock' \in Nat /\ sock' <= faults'
    BY <1>1, <1>2, <1>3 DEF SockInv
  <1>5. ~ Waiting'
    BY <1>2 DEF Waiting, Expected
  <1>6. sock' <= faults' + 1
    <2>1. faults' \in Nat /\ sock' \in Nat /\ sock' <= faults'
      BY <1>1, <1>4
    <2>2. ASSUME NEW a \in Nat, NEW b \in Nat, a <= b PROVE a <= b + 1
      BY <2>2
    <2> QED BY <2>1, <2>2
  <1> QED BY <1>2, <1>4, <1>5, <1>6 DEF SockInv

LEMMA ClientSock ==
    ASSUME IInv, Execute
    PROVE  SockInv'
  <1> USE KeyTypes, PacketTypes, PacketFields, Waits, NoPacketAssumption, LinkAssumption
     DEF IInv, TypeOK, SockInv, LinkInv, HandshakeInv, MessageInv, CallInv, Waiting,
         InFlight, Quiet, Connections, linkVars, serverVars, clientVars, Handle, NewHandle,
         NoHandle
  <1>1. CASE Start
    BY <1>1 DEF Start
  <1>2. CASE Reconnect
    BY <1>2 DEF Reconnect
  <1>3. CASE ConnectFails
    BY <1>3 DEF ConnectFails
  <1>4. CASE Prepare
    BY <1>4 DEF Prepare, Send, Transmit
  <1>5. CASE Handshaken
    BY <1>5 DEF Handshaken, Send, Transmit, Consume, Accepted, Arrived
  <1>6. CASE Challenged
    BY <1>6 DEF Challenged, Send, Transmit, Consume, Accepted, Arrived
  <1>7. CASE Authorised
    BY <1>7 DEF Authorised, Consume, Accepted, Arrived
  <1>8. CASE Refused
    BY <1>8 DEF Refused, Consume, GiveUpPreparing, Preparing, Accepted, Arrived
  <1>9. CASE SendMessage
    BY <1>9 DEF SendMessage, Send, Transmit
  <1>10. CASE InfoAnswered
    BY <1>10 DEF InfoAnswered, Consume, Accepted, Arrived
  <1>11. CASE CommandAnswered
    BY <1>11 DEF CommandAnswered, Consume, Accepted, Arrived
  <1>12. CASE ExecuteFails
    BY <1>12 DEF ExecuteFails, Consume, Accepted, Arrived
  <1>13. CASE Lost
    BY <1>13, LostSock
  <1>14. CASE Close
    BY <1>14 DEF Close
  <1> QED BY <1>1, <1>2, <1>3, <1>4, <1>5, <1>6, <1>7, <1>8, <1>9, <1>10, <1>11, <1>12,
     <1>13, <1>14
     DEF Execute

LEMMA ServerSock ==
    ASSUME IInv, NEW n \in Connections, Process(n) \/ Lose(n) \/ Shut(n)
    PROVE  SockInv'
  <1>5. CASE Info(n) \/ Command(n)
    <2>1. /\ UNCHANGED <<srv, clientVars>> /\ faults' \in {faults, faults + 1}
          /\ faults' # faults => faults < MaxFaults
      BY <1>5, AnswerMade
    <2>2. Waiting => (InFlight(sock)' <=> InFlight(sock))
      BY <1>5, <2>1, InUse, AnswerInFlight DEF clientVars, InFlight
    <2>3. /\ faults \in 0..MaxFaults /\ faults' \in 0..MaxFaults /\ faults <= faults'
          /\ sock \in Nat /\ MaxFaults \in Nat
      BY <2>1, LinkAssumption DEF IInv, SockInv
    <2>4. Waiting' <=> Waiting
      BY <2>1 DEF Waiting, clientVars
    <2>5. /\ sock' = sock /\ pc' = pc /\ held' = held /\ srv' = srv
      BY <2>1 DEF clientVars
    <2>6. Waiting' /\ ~ InFlight(sock)' => sock <= faults
      BY <2>2, <2>4 DEF IInv, SockInv
    <2>7. /\ sock' \in Nat /\ faults' \in 0..MaxFaults
          /\ sock' <= faults' + 1
          /\ pc' \in {"start", "reconnect"} => sock' <= faults'
          /\ pc' \notin {"start", "reconnect", "closing", "done"} => sock' \in held'
      <3>1. /\ sock <= faults + 1
            /\ pc \in {"start", "reconnect"} => sock <= faults
            /\ pc \notin {"start", "reconnect", "closing", "done"} => sock \in held
        BY DEF IInv, SockInv
      <3>2. sock' \in Nat /\ faults' \in 0..MaxFaults
        BY <2>3, <2>5
      <3>3. sock' <= faults' + 1
        <4>1. \A a, b, c \in Nat : a <= b + 1 /\ b <= c => a <= c + 1
          OBVIOUS
        <4>2. sock <= faults' + 1
          <5>1. sock \in Nat /\ faults \in Nat /\ faults' \in Nat
            BY <2>3
          <5>2. sock <= faults + 1 /\ faults <= faults'
            BY <2>3, <3>1
          <5> QED BY <4>1, <5>1, <5>2
        <4> QED BY <2>5, <4>2
      <3>4. pc' \in {"start", "reconnect"} => sock' <= faults'
        BY <2>3, <2>5, <3>1
      <3>5. pc' \notin {"start", "reconnect", "closing", "done"} => sock' \in held'
        BY <2>5, <3>1
      <3> QED BY <3>2, <3>3, <3>4, <3>5
    <2>8. Waiting' /\ ~ InFlight(sock)' => sock' <= faults'
      BY <2>3, <2>5, <2>6
    <2>9. sock' \in held' /\ ~ srv'[sock'].open => sock' <= faults'
      <3>1. sock \in held /\ ~ srv[sock].open => sock <= faults
        BY DEF IInv, SockInv
      <3>2. sock \in held /\ ~ srv[sock].open => sock <= faults'
        BY <2>3, <3>1
      <3> QED BY <2>5, <3>2
    <2> QED BY <2>7, <2>8, <2>9 DEF SockInv, InFlight
  <1>9. CASE Shut(n)
    <2>1. /\ sock \in Nat /\ faults \in Nat /\ sock <= faults + 1 /\ SockInv
          /\ DOMAIN srv = Connections /\ MaxFaults \in Nat
      BY LinkAssumption DEF IInv, SockInv, TypeOK
    <2>2. /\ UNCHANGED <<pc, sock, held, response>>
          /\ srv' = [srv EXCEPT ![n] = NoHandle] /\ request' = [request EXCEPT ![n] = None]
      BY <1>9 DEF Shut, clientVars
    <2>3. n = sock /\ n \in held => faults' = faults + 1
      BY <1>9 DEF Shut, Fault
    <2>4. faults <= faults' /\ faults' \in 0..MaxFaults
      BY <1>9, <2>1 DEF Shut, Fault, SockInv
    <2>5. pc \notin {"start", "reconnect", "closing", "done"} => sock \in held
      BY <2>1 DEF SockInv
    <2>6. Waiting => sock \in held
      BY <2>5, Waits DEF Waiting
    <2>7. n # sock => srv'[sock] = srv[sock] /\ request'[sock] = request[sock]
      BY <2>2 DEF IInv, TypeOK
    <2>8. /\ sock \in held /\ n = sock => sock <= faults'
          /\ n # sock => srv'[sock] = srv[sock] /\ request'[sock] = request[sock]
      BY <2>1, <2>3, <2>7
    <2>9. sock \in held /\ ~ srv'[sock].open => sock <= faults'
      BY <2>1, <2>4, <2>8 DEF SockInv
    <2>10. Waiting /\ ~ InFlight(sock)' => sock <= faults'
      BY <2>1, <2>2, <2>4, <2>6, <2>8 DEF SockInv, InFlight
    <2>11. sock <= faults' + 1 /\ (pc \in {"start", "reconnect"} => sock <= faults')
      <3>1. \A a, b, c \in Nat : b <= c => (a <= b => a <= c) /\ (a <= b + 1 => a <= c + 1)
        OBVIOUS
      <3>2. faults' \in Nat
        BY <2>1, <2>4
      <3>3. pc \in {"start", "reconnect"} => sock <= faults
        BY <2>1 DEF SockInv
      <3> QED BY <2>1, <2>4, <3>1, <3>2, <3>3
    <2> QED BY <2>1, <2>2, <2>4, <2>5, <2>9, <2>10, <2>11 DEF SockInv, Waiting, InFlight
  <1> USE KeyTypes, PacketTypes, PacketFields, Waits, NoPacketAssumption, LinkAssumption
     DEF IInv, TypeOK, SockInv, LinkInv, HandshakeInv, MessageInv, CallInv, Waiting,
         InFlight, Quiet, Connections, linkVars, serverVars, clientVars, Handle, NewHandle,
         NoHandle
  <1>1. CASE Handshake(n)
    BY <1>1 DEF Handshake, Received, Reply
  <1>2. CASE Auth1(n)
    BY <1>2 DEF Auth1, Received, Reply
  <1>3. CASE Auth2(n)
    BY <1>3 DEF Auth2, Received, Reply
  <1>4. CASE Auth2Refused(n)
    BY <1>4 DEF Auth2Refused, Received, Reply
  <1>7. CASE MessageRefused(n)
    BY <1>7 DEF MessageRefused, Received, Reply, Readable
  <1>8. CASE Lose(n)
    BY <1>8 DEF Lose, Fault
  <1> QED BY <1>1, <1>2, <1>3, <1>4, <1>5, <1>7, <1>8, <1>9 DEF Process

-----------------------------------------------------------------------------

LEMMA ClientLink ==
    ASSUME IInv, Execute
    PROVE  LinkInv'
  <1>0. sock \in Nat /\ asked \in Nat /\ pass \in Passwords /\ ckey \in Keys
    BY DEF IInv, TypeOK, SockInv, CallInv
  <1>1. /\ sock' \in {sock, sock + 1} /\ pass' = pass /\ asked' \in {asked, asked + 1}
        /\ \A n \in Connections \ {sock'} :
              /\ request'[n] = request[n] /\ response'[n] = response[n] /\ srv'[n] = srv[n]
        /\ \A n \in Connections : response'[n] \in {response[n], None}
    BY Sends DEF Execute, Start, Reconnect, ConnectFails, Prepare, Handshaken, Challenged, Authorised,
           Refused, SendMessage, InfoAnswered, CommandAnswered, ExecuteFails, Lost, Close, Consume,
           linkVars, serverVars, IInv, TypeOK
  <1>2. \A n \in Connections \ {sock'} : Sound(n)'
    BY <1>0, <1>1, SoundKept DEF IInv, LinkInv
  <1>3. ASSUME NEW n \in Connections, n = sock' PROVE Sound(n)'
    <2>1. CASE Reconnect
      <3>1. /\ n = sock + 1 /\ srv'[n] = NewHandle /\ UNCHANGED <<request, response>>
        BY <1>3, <2>1 DEF Reconnect, linkVars, IInv, TypeOK
      <3>2. request[n] = None /\ response[n] = None
        BY <1>0, <3>1 DEF IInv, LinkInv, Sound
      <3> QED BY <1>0, <1>3, <3>1, <3>2 DEF Sound, NewHandle, Handle, NoHandle
    <2>2. ASSUME \/ Prepare /\ ~ (known /\ authed)
                 \/ Handshaken \/ Challenged \/ SendMessage
          PROVE  Sound(n)'
      <3>1. /\ n = sock /\ sock' = sock /\ UNCHANGED <<srv, pass>>
            /\ response' \in {response, [response EXCEPT ![sock] = None]}
        BY <1>3, <2>2 DEF Prepare, Handshaken, Challenged, SendMessage, serverVars, Consume
      <3>2. Sound(n)
        BY DEF IInv, LinkInv
      <3>3. response'[sock] = None
        BY <2>2, <3>1 DEF Prepare, Handshaken, Challenged, SendMessage, Consume, IInv, TypeOK,
                          HandshakeInv, Quiet, InFlight
      <3>4. PICK p :
                /\ \/ request' = [request EXCEPT ![sock] = p] /\ srv[sock].open
                   \/ request' = request /\ ~ srv[sock].open
                /\ p.type = "AUTH2" /\ srv[sock].open =>
                      \E r \in Randoms :
                         /\ p.data = Encrypt(PasswordKey(pass), r)
                         /\ srv[sock].expected = Encrypt(PasswordKey(ServerPassword), r)
                /\ p.type = "MESSAGE" =>
                      \E k \in Keys, c \in 0..asked' : p.data = Message(k, c, "data")
        <4>1. CASE Prepare /\ ~ (known /\ authed)
          BY <4>1, Sends, PacketFields DEF Prepare
        <4>2. CASE Handshaken
          BY <4>2, Sends, PacketFields DEF Handshaken
        <4>3. CASE Challenged
          <5> DEFINE p == Packet("AUTH2", Encrypt(PasswordKey(pass), response[sock].data))
          <5>1. PICK r \in Randoms :
                   /\ response[sock] = Packet("AUTH1", r)
                   /\ srv[sock].open => srv[sock].expected = Encrypt(PasswordKey(ServerPassword), r)
            BY <4>3 DEF Challenged, Accepted, Arrived, IInv, HandshakeInv
          <5>2. p.type = "AUTH2" /\ p.data = Encrypt(PasswordKey(pass), r)
            BY <5>1, PacketFields
          <5>3. Send(p)
            BY <4>3 DEF Challenged
          <5> HIDE DEF p
          <5> QED BY <5>1, <5>2, <5>3, Sends
        <4>4. CASE SendMessage
          <5> DEFINE c == IF stage = "main" THEN asked + 1 ELSE 0
                     p == Packet("MESSAGE", Message(ckey, c, "data"))
          <5>1. p.type = "MESSAGE" /\ p.data = Message(ckey, c, "data")
            BY PacketFields
          <5>2. Send(p) /\ c \in 0..asked'
            BY <1>0, <4>4 DEF SendMessage
          <5> HIDE DEF p, c
          <5> QED BY <1>0, <5>1, <5>2, Sends
        <4> QED BY <2>2, <4>1, <4>2, <4>3, <4>4
      <3>5. request \in [Connections -> Packets \cup {None}]
        BY DEF IInv, TypeOK
      <3>6. request'[n] # None => srv[n].open /\ request'[n] = p
        <4>1. request[n] # None => srv[n].open
          BY <3>2 DEF Sound
        <4>2. CASE request' = request /\ ~ srv[sock].open
          BY <3>1, <4>1, <4>2
        <4>3. CASE request' = [request EXCEPT ![sock] = p] /\ srv[sock].open
          BY <3>1, <3>5, <4>1, <4>3
        <4> QED BY <3>4, <4>2, <4>3
      <3>7. ~ (n > sock')
        BY <1>0, <3>1
      <3> QED BY <3>1, <3>2, <3>3, <3>4, <3>6, <3>7 DEF Sound
    <2>3. ASSUME ~ Reconnect, ~ Handshaken, ~ Challenged, ~ SendMessage,
                 ~ (Prepare /\ ~ (known /\ authed))
          PROVE  Sound(n)'
      <3>1. /\ UNCHANGED request /\ UNCHANGED srv
        BY <2>3 DEF Execute, Start, ConnectFails, Prepare, Authorised, Refused, InfoAnswered,
           CommandAnswered, ExecuteFails, Lost, Close, linkVars, serverVars
      <3>2. Sound(n)
        BY DEF IInv, LinkInv
      <3> QED BY <1>0, <1>1, <3>1, <3>2, SoundKept
    <2> QED BY <2>1, <2>2, <2>3
  <1>4. pc' \in {"send", "execute"} \/ stage' = "main" \/ authed' => PasswordKey(pass') = PasswordKey(ServerPassword)
    <2>1. Authorised => PasswordKey(pass) = PasswordKey(ServerPassword)
      BY PacketFields DEF Authorised, Accepted, Arrived, IInv, HandshakeInv
    <2> QED BY <1>1, <2>1 DEF IInv, LinkInv, Execute, Start, Reconnect, ConnectFails, Prepare,
               Handshaken, Challenged, Authorised, Refused, SendMessage, InfoAnswered,
               CommandAnswered, ExecuteFails, Lost, Close, GiveUpPreparing, Preparing
  <1> QED BY <1>2, <1>3, <1>4 DEF LinkInv

LEMMA ServerLink ==
    ASSUME IInv, NEW n \in Connections, Process(n) \/ Lose(n) \/ Shut(n)
    PROVE  LinkInv'
  <1>0. /\ sock \in Nat /\ asked \in Nat /\ ServerPassword \in Passwords
        /\ Sound(n) /\ request \in [Connections -> Packets \cup {None}] /\ DOMAIN srv = Connections
        /\ DOMAIN response = Connections
    BY LinkAssumption DEF IInv, TypeOK, SockInv, CallInv, LinkInv
  <1>1. \A m \in Connections \ {n} : Sound(m)'
    BY <1>0, Elsewhere, SoundKept DEF IInv, LinkInv, clientVars
  <1>2. request'[n] = None
    BY <1>0 DEF Process, Handshake, Auth1, Auth2, Auth2Refused, Info, Command, MessageRefused, Lose,
                Shut, Reply, Answer
  <1>3. n > sock => response'[n] = None /\ srv'[n] = NoHandle
    BY <1>0 DEF Process, Handshake, Auth1, Auth2, Auth2Refused, Info, Command, MessageRefused, Lose,
                Shut, Received, Sound
  <1>4. srv'[n].authed => PasswordKey(pass) = PasswordKey(ServerPassword)
    <2>1. CASE Auth2(n)
      <3>1. PICK r \in Randoms :
               Encrypt(PasswordKey(pass), r) = Encrypt(PasswordKey(ServerPassword), r)
        BY <1>0, <2>1 DEF Auth2, Received, Sound
      <3> QED BY <3>1 DEF Encrypt
    <2>2. CASE Auth1(n)
      BY <1>0, <2>2 DEF Auth1, Handle, Sound
    <2>3. CASE Shut(n)
      BY <1>0, <2>3 DEF Shut, NoHandle
    <2>4. CASE ~ Auth1(n) /\ ~ Auth2(n) /\ ~ Shut(n)
      BY <1>0, <2>4 DEF Process, Handshake, Auth2Refused, Info, Command, MessageRefused, Lose,
                        serverVars, Sound
    <2> QED BY <2>1, <2>2, <2>3, <2>4
  <1>5. Sound(n)' /\ UNCHANGED clientVars
    BY <1>2, <1>3, <1>4, Elsewhere DEF Sound, clientVars
  <1> QED BY <1>1, <1>5 DEF LinkInv, IInv, clientVars

-----------------------------------------------------------------------------

LEMMA ClientOnce ==
    ASSUME IInv, Execute
    PROVE  OnceInv'
  <1>0. /\ asked \in Nat /\ request \in [Connections -> Packets \cup {None}]
        /\ served \subseteq 1..asked /\ OnceInv
    BY DEF IInv, TypeOK, CallInv
  <1>1. served' = served /\ asked' \in {asked, asked + 1}
    BY DEF Execute, Start, Reconnect, ConnectFails, Prepare, Handshaken, Challenged, Authorised,
           Refused, SendMessage, InfoAnswered, CommandAnswered, ExecuteFails, Lost, Close, serverVars
  <1>2. CASE SendMessage
    <2> DEFINE c == IF stage = "main" THEN asked + 1 ELSE 0
               p == Packet("MESSAGE", Message(ckey, c, "data"))
    <2>1. p.type = "MESSAGE" /\ p.data.cmd = c
      BY PacketFields
    <2>2. /\ request' \in {request, [request EXCEPT ![sock] = p]}
          /\ asked' = IF stage = "main" THEN asked + 1 ELSE asked
      BY <1>2, Sends DEF SendMessage
    <2>3. CASE stage # "main"
      <3>1. p.data.cmd = 0
        BY <2>1, <2>3
      <3> HIDE DEF p, c
      <3> QED BY <1>0, <1>1, <2>2, <3>1, OnceKept DEF Carries
    <2>4. CASE stage = "main"
      <3>1. p.data.cmd = asked + 1 /\ asked' = asked + 1
        BY <2>1, <2>2, <2>4
      <3> HIDE DEF p, c
      <3>2. ASSUME NEW n \in Connections, Carries(n)'
            PROVE  \/ n = sock /\ request'[n].data.cmd = asked + 1
                   \/ /\ Carries(n) /\ request'[n] = request[n]
                      /\ request[n].data.cmd \in 1..asked /\ request[n].data.cmd \notin served
        BY <1>0, <2>2, <3>1, <3>2 DEF Carries, OnceInv
      <3>3. \A n \in Connections :
               Carries(n)' => /\ request'[n].data.cmd \in 1..asked'
                              /\ request'[n].data.cmd \notin served'
        BY <1>0, <1>1, <3>1, <3>2
      <3>4. \A m, n \in Connections :
               Carries(m)' /\ Carries(n)' /\ request'[m].data.cmd = request'[n].data.cmd => m = n
        BY <1>0, <3>2 DEF OnceInv
      <3> QED BY <3>3, <3>4 DEF OnceInv
    <2> QED BY <2>3, <2>4
  <1>3. CASE ~ SendMessage
    <2>1. \E p : /\ request' \in {request, [request EXCEPT ![sock] = p]}
                 /\ p.type # "MESSAGE"
      <3>1. CASE Prepare
        BY <3>1, Sends, PacketFields DEF Prepare
      <3>2. CASE Handshaken
        BY <3>2, Sends, PacketFields DEF Handshaken
      <3>3. CASE Challenged
        BY <3>3, Sends, PacketFields DEF Challenged
      <3>4. CASE ~ Prepare /\ ~ Handshaken /\ ~ Challenged
        <4>1. request' = request
          BY <1>3, <3>4 DEF Execute, Start, Reconnect, ConnectFails, Authorised, Refused, InfoAnswered,
                         CommandAnswered, ExecuteFails, Lost, Close, linkVars
        <4>2. Packet("HANDSHAKE", None).type # "MESSAGE"
          BY PacketFields
        <4> QED BY <4>1, <4>2
      <3> QED BY <3>1, <3>2, <3>3, <3>4
    <2> QED BY <1>0, <1>1, <2>1, OnceKept DEF Carries
  <1> QED BY <1>2, <1>3

LEMMA ServerOnce ==
    ASSUME IInv, NEW n \in Connections, Process(n) \/ Lose(n) \/ Shut(n)
    PROVE  OnceInv'
  <1>0. /\ asked \in Nat /\ asked' = asked /\ OnceInv
        /\ request \in [Connections -> Packets \cup {None}]
    BY Elsewhere DEF IInv, TypeOK, CallInv, clientVars
  <1>1. request' = [request EXCEPT ![n] = None]
    BY <1>0 DEF Process, Handshake, Auth1, Auth2, Auth2Refused, Info, Command, MessageRefused, Lose,
                Shut, Reply, Answer
  <1>2. \A m \in Connections : Carries(m)' => m # n /\ Carries(m) /\ request'[m] = request[m]
    BY <1>0, <1>1 DEF Carries
  <1>3. CASE Command(n)
    <2>1. served' = served \cup {request[n].data.cmd} /\ Carries(n)
      BY <1>3 DEF Command, Received, Carries
    <2> QED BY <1>0, <1>2, <2>1 DEF OnceInv
  <1>4. CASE ~ Command(n)
    <2>1. served' = served
      BY <1>4 DEF Process, Handshake, Auth1, Auth2, Auth2Refused, Info, MessageRefused, Lose, Shut,
                  serverVars
    <2> QED BY <1>0, <1>2, <2>1, OnceKept
  <1> QED BY <1>3, <1>4

-----------------------------------------------------------------------------

LEMMA ClientHandshake ==
    ASSUME IInv, Execute
    PROVE  HandshakeInv'
  <1> USE KeyTypes, PacketTypes, PacketFields, Waits, NoPacketAssumption, LinkAssumption
     DEF IInv, TypeOK, SockInv, LinkInv, HandshakeInv, MessageInv, CallInv, Waiting,
         InFlight, Quiet, Connections, linkVars, serverVars, clientVars, Sound, Handle,
         NewHandle, NoHandle
  <1>1. CASE Start
    BY <1>1 DEF Start
  <1>2. CASE Reconnect
    BY <1>2 DEF Reconnect
  <1>3. CASE ConnectFails
    BY <1>3 DEF ConnectFails
  <1>4. CASE Prepare
    BY <1>4 DEF Prepare, Send, Transmit
  <1>5. CASE Handshaken
    BY <1>5 DEF Handshaken, Send, Transmit, Consume, Accepted, Arrived
  <1>6. CASE Challenged
    BY <1>6 DEF Challenged, Send, Transmit, Consume, Accepted, Arrived
  <1>7. CASE Authorised
    BY <1>7 DEF Authorised, Consume, Accepted, Arrived
  <1>8. CASE Refused
    BY <1>8 DEF Refused, Consume, GiveUpPreparing, Preparing, Accepted, Arrived
  <1>9. CASE SendMessage
    BY <1>9 DEF SendMessage, Send, Transmit
  <1>10. CASE InfoAnswered
    BY <1>10 DEF InfoAnswered, Consume, Accepted, Arrived
  <1>11. CASE CommandAnswered
    BY <1>11 DEF CommandAnswered, Consume, Accepted, Arrived
  <1>12. CASE ExecuteFails
    BY <1>12 DEF ExecuteFails, Consume, Accepted, Arrived
  <1>13. CASE Lost
    BY <1>13 DEF Lost, GiveUpPreparing, Preparing, Fault
  <1>14. CASE Close
    BY <1>14 DEF Close
  <1> QED BY <1>1, <1>2, <1>3, <1>4, <1>5, <1>6, <1>7, <1>8, <1>9, <1>10, <1>11, <1>12,
     <1>13, <1>14
     DEF Execute

LEMMA ServerHandshake ==
    ASSUME IInv, NEW n \in Connections, Process(n) \/ Lose(n) \/ Shut(n)
    PROVE  HandshakeInv'
  <1>10. CASE n # sock
    <2>1. /\ UNCHANGED clientVars
          /\ sock \in Connections =>
                /\ request'[sock] = request[sock] /\ response'[sock] = response[sock]
                /\ srv'[sock] = srv[sock]
      BY <1>10, Elsewhere
    <2> QED BY <2>1, InUse, Waits
       DEF IInv, HandshakeInv, clientVars, Quiet, InFlight, Waiting
  <1>11. SUFFICES ASSUME n = sock PROVE HandshakeInv'
    BY <1>10
  <1>2. CASE Auth1(n)
    <2>1. PICK r \in Randoms :
             /\ srv' = [srv EXCEPT ![n] = Handle(srv[n].authed, PasswordKey(ServerPassword),
                                                Encrypt(PasswordKey(ServerPassword), r))]
             /\ request' = [request EXCEPT ![n] = None]
             /\ response' = [response EXCEPT ![n] = Packet("AUTH1", r)]
      BY <1>2 DEF Auth1, Reply
    <2>2. request[sock] # None /\ request[sock].type = "AUTH1"
      BY <1>2, <1>11 DEF Auth1, Received
    <2>3. pc \notin {"prepare", "send", "handshake", "auth2"}
      BY <2>2, PacketFields DEF IInv, HandshakeInv, Quiet, InFlight
    <2>4. UNCHANGED clientVars /\ DOMAIN srv = Connections /\ DOMAIN response = Connections
      BY <1>2 DEF Auth1, IInv, TypeOK
    <2>5. request'[n] = None
      BY <2>1 DEF IInv, TypeOK
    <2> QED BY <1>11, <2>1, <2>3, <2>4, <2>5 DEF HandshakeInv, Handle, Quiet, clientVars
  <1>3. CASE Auth2(n)
    <2>1. PICK r \in Randoms :
             /\ srv' = [srv EXCEPT ![n] = Handle(TRUE, SessionKey(ServerPassword, r), r)]
             /\ request' = [request EXCEPT ![n] = None]
             /\ response' = [response EXCEPT ![n] = Packet("AUTH2", r)]
      BY <1>3 DEF Auth2, Reply
    <2>2. pc \notin {"prepare", "send", "handshake", "auth1"}
      BY <1>3, <1>11, PacketFields DEF Auth2, Received, IInv, HandshakeInv, Quiet, InFlight
    <2>3. UNCHANGED clientVars /\ DOMAIN srv = Connections /\ DOMAIN response = Connections
      BY <1>3 DEF Auth2, IInv, TypeOK
    <2>4. PasswordKey(pass) = PasswordKey(ServerPassword)
      <3>1. LinkInv'
        BY <1>3, ServerLink DEF Process
      <3>2. srv'[n].authed
        BY <2>1, <2>3 DEF Handle
      <3> QED BY <2>3, <3>1, <3>2 DEF LinkInv, Sound, clientVars
    <2>5. request'[n] = None
      BY <2>1 DEF IInv, TypeOK
    <2> QED BY <1>11, <2>1, <2>2, <2>3, <2>4, <2>5
       DEF HandshakeInv, Handle, Quiet, clientVars
  <1>5. CASE Info(n)
    <2>1. pc \notin {"prepare", "send", "handshake", "auth1", "auth2"}
      BY <1>5, <1>11, AnswerMade, PacketFields DEF IInv, HandshakeInv, Quiet, InFlight
    <2>2. UNCHANGED clientVars
      BY <1>5, AnswerMade
    <2> QED BY <2>1, <2>2 DEF HandshakeInv, Quiet, clientVars
  <1> USE KeyTypes, PacketTypes, PacketFields, Waits, NoPacketAssumption, LinkAssumption
     DEF IInv, TypeOK, SockInv, LinkInv, HandshakeInv, MessageInv, CallInv, Waiting,
         InFlight, Quiet, Connections, linkVars, serverVars, clientVars, Sound, Handle,
         NewHandle, NoHandle
  <1>1. CASE Handshake(n)
    BY <1>1, <1>11 DEF Handshake, Received, Reply
  <1>4. CASE Auth2Refused(n)
    BY <1>4, <1>11 DEF Auth2Refused, Received, Reply
  <1>6. CASE Command(n)
    BY <1>6, <1>11 DEF Command, Received, Reply, Readable, Answer
  <1>7. CASE MessageRefused(n)
    BY <1>7, <1>11 DEF MessageRefused, Received, Reply, Readable
  <1>8. CASE Lose(n)
    BY <1>8, <1>11 DEF Lose, Fault
  <1>9. CASE Shut(n)
    BY <1>9, <1>11 DEF Shut, Fault
  <1> QED BY <1>1, <1>2, <1>3, <1>4, <1>5, <1>6, <1>7, <1>8, <1>9 DEF Process

-----------------------------------------------------------------------------

LEMMA ClientMessage ==
    ASSUME IInv, Execute
    PROVE  MessageInv'
  <1>7. CASE Authorised
    <2>1. /\ pc' = "send" /\ ckey' = SessionKey(pass, response[sock].data)
          /\ UNCHANGED <<sock, stage, srv>>
      BY <1>7 DEF Authorised, serverVars
    <2> QED BY <1>7, <2>1, SessionTaken DEF MessageInv, Agreed
  <1> USE KeyTypes, PacketTypes, PacketFields, Waits, NoPacketAssumption, LinkAssumption
     DEF IInv, TypeOK, SockInv, LinkInv, HandshakeInv, MessageInv, CallInv, Waiting,
         InFlight, Quiet, Connections, linkVars, serverVars, clientVars, Agreed, Cmd,
         Handle, NewHandle, NoHandle
  <1>1. CASE Start
    BY <1>1 DEF Start
  <1>2. CASE Reconnect
    BY <1>2 DEF Reconnect
  <1>3. CASE ConnectFails
    BY <1>3 DEF ConnectFails
  <1>4. CASE Prepare
    BY <1>4 DEF Prepare, Send, Transmit
  <1>5. CASE Handshaken
    BY <1>5 DEF Handshaken, Send, Transmit, Consume, Accepted, Arrived
  <1>6. CASE Challenged
    BY <1>6 DEF Challenged, Send, Transmit, Consume, Accepted, Arrived
  <1>8. CASE Refused
    BY <1>8 DEF Refused, Consume, GiveUpPreparing, Preparing, Accepted, Arrived
  <1>9. CASE SendMessage
    BY <1>9 DEF SendMessage, Send, Transmit
  <1>10. CASE InfoAnswered
    BY <1>10 DEF InfoAnswered, Consume, Accepted, Arrived
  <1>11. CASE CommandAnswered
    BY <1>11 DEF CommandAnswered, Consume, Accepted, Arrived
  <1>12. CASE ExecuteFails
    BY <1>12 DEF ExecuteFails, Consume, Accepted, Arrived
  <1>13. CASE Lost
    BY <1>13 DEF Lost, GiveUpPreparing, Preparing, Fault
  <1>14. CASE Close
    BY <1>14 DEF Close
  <1> QED BY <1>1, <1>2, <1>3, <1>4, <1>5, <1>6, <1>7, <1>8, <1>9, <1>10, <1>11, <1>12,
     <1>13, <1>14
     DEF Execute

LEMMA ServerMessage ==
    ASSUME IInv, NEW n \in Connections, Process(n) \/ Lose(n) \/ Shut(n)
    PROVE  MessageInv'
  <1>1. CASE n # sock
    <2>1. /\ UNCHANGED clientVars /\ served \subseteq served' /\ faults' \in {faults, faults + 1}
          /\ sock \in Connections =>
                /\ request'[sock] = request[sock] /\ response'[sock] = response[sock]
                /\ srv'[sock] = srv[sock]
      BY <1>1, Elsewhere
    <2>2. sock \in Nat /\ faults \in Nat
      BY DEF IInv, SockInv
    <2> QED BY <2>1, <2>2, InUse, Waits
       DEF IInv, MessageInv, clientVars, Cmd, Agreed, Waiting
  <1>2. CASE n = sock /\ (Handshake(n) \/ Auth1(n) \/ Auth2(n) \/ Auth2Refused(n))
    <2>1. request[sock] # None /\ request[sock].type # "MESSAGE"
      BY <1>2 DEF Handshake, Auth1, Auth2, Auth2Refused, Received
    <2>2. pc # "execute"
      BY <2>1, PacketFields DEF IInv, MessageInv
    <2>3. pc \notin {"prepare", "send"}
      BY <2>1 DEF IInv, HandshakeInv, Quiet, InFlight
    <2>4. UNCHANGED clientVars
      BY Elsewhere
    <2> QED BY <2>2, <2>3, <2>4 DEF MessageInv, clientVars
  <1>3. CASE n = sock /\ Info(n)
    <2>1. PICK b \in {"data", "empty", "flag"} :
             /\ response' = [response EXCEPT ![n] =
                                Packet("MESSAGE", Message(srv[n].key, request[n].data.cmd, b))]
             /\ b = "flag" => request[n].data.cmd = 0 /\ faults' = faults + 1
      BY <1>3, AnswerMade
    <2>2. /\ srv[n].open /\ srv[n].authed /\ request[n].data.key = srv[n].key
          /\ request[n] # None /\ request'[n] = None
          /\ UNCHANGED <<srv, clientVars>> /\ faults' \in {faults, faults + 1}
      BY <1>3, AnswerMade DEF IInv, TypeOK
    <2>3. request[n].data.cmd = 0
      BY <1>3 DEF Info
    <2>4. pc = "execute" => ckey = srv[n].key /\ Cmd = 0 /\ stage = "auth"
      BY <1>3, <2>2, <2>3, PacketFields DEF IInv, MessageInv, TypeOK, CallInv, Cmd
    <2>5. pc \notin {"prepare", "send"}
      BY <1>3, <2>2 DEF IInv, HandshakeInv, Quiet, InFlight
    <2>6. sock \in Nat /\ faults \in Nat /\ sock <= faults + 1 /\ DOMAIN response = Connections
      BY DEF IInv, SockInv, TypeOK
    <2> QED BY <1>3, <2>1, <2>2, <2>3, <2>4, <2>5, <2>6
       DEF MessageInv, Cmd, Agreed, clientVars
  <1> USE KeyTypes, PacketTypes, PacketFields, Waits, NoPacketAssumption, LinkAssumption
     DEF IInv, TypeOK, SockInv, LinkInv, HandshakeInv, MessageInv, CallInv, Waiting,
         InFlight, Quiet, Connections, linkVars, serverVars, clientVars, Agreed, Cmd,
         Handle, NewHandle, NoHandle
  <1>4. CASE n = sock /\ Command(n)
    BY <1>4 DEF Command, Received, Reply, Readable, Answer
  <1>5. CASE n = sock /\ MessageRefused(n)
    BY <1>5 DEF MessageRefused, Received, Reply, Readable
  <1>6. CASE n = sock /\ Lose(n)
    BY <1>6 DEF Lose, Fault
  <1>7. CASE n = sock /\ Shut(n)
    BY <1>7 DEF Shut, Fault
  <1> QED BY <1>1, <1>2, <1>3, <1>4, <1>5, <1>6, <1>7 DEF Process

-----------------------------------------------------------------------------

LEMMA ClientCall ==
    ASSUME IInv, Execute
    PROVE  CallInv'
  <1>9. CASE SendMessage
    <2>1. FCount <= Cardinality(served \ {asked + 1})
      <3>1. served \ {asked + 1} = served
        BY DEF IInv, TypeOK, CallInv
      <3> QED BY <3>1 DEF IInv, CallInv
    <2> QED BY <1>9, <2>1 DEF SendMessage, serverVars, IInv, CallInv
  <1>11. CASE CommandAnswered
    <2>1. asked \in served
      BY <1>11, PacketFields DEF CommandAnswered, Accepted, Arrived, IInv, MessageInv
    <2>2. IsFiniteSet(served)
      BY FiniteServed
    <2>3. /\ Cardinality(served \ {asked}) = Cardinality(served) - 1
          /\ Cardinality(served) \in Nat
      BY <2>1, <2>2, FS_RemoveElement, FS_CardinalityType
    <2>4. FCount \in Nat /\ FCount + 1 <= Cardinality(served)
      BY <1>11, <2>3 DEF CommandAnswered, IInv, TypeOK, CallInv
    <2> QED BY <1>11, <2>3, <2>4 DEF CommandAnswered, serverVars, IInv, CallInv
  <1> USE KeyTypes, PacketTypes, PacketFields, Waits, NoPacketAssumption, LinkAssumption
     DEF IInv, TypeOK, SockInv, LinkInv, HandshakeInv, MessageInv, CallInv, Waiting,
         InFlight, Quiet, Connections, linkVars, serverVars, clientVars, Agreed, Cmd,
         Handle, NewHandle, NoHandle
  <1>1. CASE Start
    BY <1>1 DEF Start
  <1>2. CASE Reconnect
    BY <1>2 DEF Reconnect
  <1>3. CASE ConnectFails
    BY <1>3 DEF ConnectFails
  <1>4. CASE Prepare
    BY <1>4 DEF Prepare, Send, Transmit
  <1>5. CASE Handshaken
    BY <1>5 DEF Handshaken, Send, Transmit, Consume, Accepted, Arrived
  <1>6. CASE Challenged
    BY <1>6 DEF Challenged, Send, Transmit, Consume, Accepted, Arrived
  <1>7. CASE Authorised
    BY <1>7 DEF Authorised, Consume, Accepted, Arrived
  <1>8. CASE Refused
    BY <1>8 DEF Refused, Consume, GiveUpPreparing, Preparing, Accepted, Arrived
  <1>10. CASE InfoAnswered
    BY <1>10 DEF InfoAnswered, Consume, Accepted, Arrived
  <1>12. CASE ExecuteFails
    BY <1>12 DEF ExecuteFails, Consume, Accepted, Arrived
  <1>13. CASE Lost
    BY <1>13 DEF Lost, GiveUpPreparing, Preparing, Fault
  <1>14. CASE Close
    BY <1>14 DEF Close
  <1> QED BY <1>1, <1>2, <1>3, <1>4, <1>5, <1>6, <1>7, <1>8, <1>9, <1>10, <1>11, <1>12,
     <1>13, <1>14
     DEF Execute

LEMMA ServerCall ==
    ASSUME IInv, NEW n \in Connections, Process(n) \/ Lose(n) \/ Shut(n)
    PROVE  CallInv'
  <1>6. CASE Command(n)
    <2> DEFINE c == request[n].data.cmd
    <2>1. UNCHANGED clientVars /\ served' = served \cup {c}
      BY <1>6 DEF Command
    <2>2. IsFiniteSet(served) /\ IsFiniteSet(served \ {asked})
      BY FiniteServed, FS_RemoveElement
    <2>3. IsFiniteSet(served') /\ IsFiniteSet(served' \ {asked})
      BY <2>1, <2>2, FS_AddElement, FS_RemoveElement
    <2>4. /\ Cardinality(served) <= Cardinality(served')
          /\ Cardinality(served \ {asked}) <= Cardinality(served' \ {asked})
      BY <2>1, <2>3, FS_Subset
    <2>5. /\ Cardinality(served) \in Nat /\ Cardinality(served') \in Nat
          /\ Cardinality(served \ {asked}) \in Nat /\ Cardinality(served' \ {asked}) \in Nat
      BY <2>2, <2>3, FS_CardinalityType
    <2>6. FCount \in Nat
      BY LinkAssumption DEF IInv, TypeOK
    <2> QED BY <2>1, <2>4, <2>5, <2>6 DEF IInv, CallInv, clientVars
  <1> USE KeyTypes, PacketTypes, PacketFields, Waits, NoPacketAssumption, LinkAssumption
     DEF IInv, TypeOK, SockInv, LinkInv, HandshakeInv, MessageInv, CallInv, Waiting,
         InFlight, Quiet, Connections, linkVars, serverVars, clientVars, Agreed, Cmd,
         Handle, NewHandle, NoHandle
  <1>1. CASE Handshake(n)
    BY <1>1 DEF Handshake, Received, Reply
  <1>2. CASE Auth1(n)
    BY <1>2 DEF Auth1, Received, Reply
  <1>3. CASE Auth2(n)
    BY <1>3 DEF Auth2, Received, Reply
  <1>4. CASE Auth2Refused(n)
    BY <1>4 DEF Auth2Refused, Received, Reply
  <1>5. CASE Info(n)
    BY <1>5 DEF Info, Received, Reply, Readable, Answer, Fault
  <1>7. CASE MessageRefused(n)
    BY <1>7 DEF MessageRefused, Received, Reply, Readable
  <1>8. CASE Lose(n)
    BY <1>8 DEF Lose, Fault
  <1>9. CASE Shut(n)
    BY <1>9 DEF Shut, Fault
  <1> QED BY <1>1, <1>2, <1>3, <1>4, <1>5, <1>6, <1>7, <1>8, <1>9 DEF Process

-----------------------------------------------------------------------------

LEMMA InitInv == Init => IInv
  <1> SUFFICES ASSUME Init PROVE IInv
    OBVIOUS
  <1> USE LinkAssumption DEF Init, Connections
  <1>1. TypeOK
    BY KeyTypes, Waits DEF TypeOK, NoHandle
  <1>2. SockInv
    BY Waits DEF SockInv, Waiting
  <1>3. LinkInv /\ OnceInv
    BY DEF LinkInv, Sound, NoHandle, OnceInv, Carries
  <1>4. HandshakeInv /\ MessageInv
    BY DEF HandshakeInv, MessageInv, Quiet
  <1>5. CallInv
    BY FS_EmptySet DEF CallInv
  <1> QED BY <1>1, <1>2, <1>3, <1>4, <1>5 DEF IInv

LEMMA StepInv == IInv /\ [Next]_vars => IInv'
  <1> SUFFICES ASSUME IInv, [Next]_vars PROVE IInv'
    OBVIOUS
  <1>1. CASE Execute
    BY <1>1, ClientType, ClientSock, ClientLink, ClientOnce, ClientHandshake, ClientMessage,
       ClientCall DEF IInv
  <1>2. ASSUME NEW n \in Connections, Process(n) \/ Lose(n) \/ Shut(n) PROVE IInv'
    BY <1>2, ServerType, ServerSock, ServerLink, ServerOnce, ServerHandshake, ServerMessage,
       ServerCall DEF IInv
  <1>3. CASE UNCHANGED vars
    BY <1>3 DEF vars, linkVars, serverVars, clientVars, IInv, TypeOK, SockInv, LinkInv, Sound, OnceInv,
                Carries, HandshakeInv, MessageInv, CallInv, Waiting, InFlight, Quiet, Agreed, Cmd
  <1> QED BY <1>1, <1>2, <1>3 DEF Next

THEOREM Invariance == Spec => []IInv
  BY InitInv, StepInv, PTL DEF Spec

-----------------------------------------------------------------------------
(* The variables keep their types: there is always a connection left, and    *)
(* what is on its way is a packet.                                           *)
THEOREM TypeCorrect == Spec => []TypeOK
  BY Invariance, PTL DEF IInv

(* The places of a key are those of the repeated password, from its end.     *)
LEMMA KeysAlike ==
    ASSUME NEW p, NEW q, PasswordKey(p) = PasswordKey(q)
    PROVE  Alike(p, q)
  <1> SUFFICES ASSUME NEW i \in 0 .. KeySize - 1
               PROVE  p[(i % Len(p)) + 1] = q[(i % Len(q)) + 1]
    BY DEF Alike
  <1>1. KeySize - i \in 1 .. KeySize /\ KeySize - (KeySize - i) = i
    BY LinkAssumption
  <1>2. PasswordKey(p)[KeySize - i] = p[((KeySize - (KeySize - i)) % Len(p)) + 1]
    BY <1>1 DEF PasswordKey
  <1>3. PasswordKey(q)[KeySize - i] = q[((KeySize - (KeySize - i)) % Len(q)) + 1]
    BY <1>1 DEF PasswordKey
  <1> QED BY <1>1, <1>2, <1>3

(* No command is carried out for a client whose password is not like the     *)
(* server's: a handle is authorised only for a password with the same key.   *)
THEOREM AuthorisedCorrect == Spec => []OnlyAuthorised
  <1>1. Init => OnlyAuthorised
    BY DEF Init, OnlyAuthorised
  <1>2. IInv /\ OnlyAuthorised /\ [Next]_vars => OnlyAuthorised'
    <2> SUFFICES ASSUME IInv, OnlyAuthorised, [Next]_vars PROVE OnlyAuthorised'
      OBVIOUS
    <2>1. CASE Execute
      BY <2>1 DEF OnlyAuthorised, Execute, Start, Reconnect, ConnectFails, Prepare, Handshaken,
             Challenged, Authorised, Refused, SendMessage, InfoAnswered, CommandAnswered,
             ExecuteFails, Lost, Close, serverVars
    <2>2. ASSUME NEW n \in Connections, Process(n) \/ Lose(n) \/ Shut(n) PROVE OnlyAuthorised'
      <3>1. CASE Command(n)
        <4>1. PasswordKey(pass) = PasswordKey(ServerPassword) /\ pass' = pass
          BY <3>1, AnswerMade DEF IInv, LinkInv, Sound, clientVars
        <4> QED BY <4>1, KeysAlike DEF OnlyAuthorised
      <3>2. CASE ~ Command(n)
        BY <2>2, <3>2 DEF OnlyAuthorised, Process, Handshake, Auth1, Auth2, Auth2Refused, Info,
               MessageRefused, Lose, Shut, serverVars, clientVars
      <3> QED BY <3>1, <3>2
    <2>3. CASE UNCHANGED vars
      BY <2>3 DEF vars, serverVars, clientVars, OnlyAuthorised
    <2> QED BY <2>1, <2>2, <2>3 DEF Next
  <1> QED BY <1>1, <1>2, Invariance, PTL DEF Spec

(* When the client is about to send, nothing is on its way to either end of  *)
(* the connection.                                                           *)
THEOREM QuietCorrect == Spec => []Quiet
  BY Invariance, PTL DEF IInv, HandshakeInv

(* In the main loop the two ends agree on the session.                       *)
THEOREM AcceptedCorrect == Spec => []CommandsAccepted
  <1>1. IInv => CommandsAccepted
    <2> SUFFICES ASSUME IInv, pc = "execute", stage = "main", Arrived
                 PROVE  Accepted
      BY DEF CommandsAccepted
    <2>1. PICK body \in {"data", "empty", "flag"} :
             response[sock] = Packet("MESSAGE", Message(ckey, Cmd, body))
      BY DEF Arrived, IInv, MessageInv
    <2> QED BY <2>1, PacketFields, Waits DEF Accepted
  <1> QED BY <1>1, Invariance, PTL

(* No attempt is carried out twice, although every connection that was given *)
(* up may still have its command on the way.                                 *)
THEOREM OnceCorrect == Spec => ServedOnce
  <1>1. IInv => \A n \in Connections : Command(n) => request[n].data.cmd \notin served
    BY DEF IInv, OnceInv, Carries, Command, Received
  <1>2. IInv /\ [Next]_vars =>
          [\A n \in Connections : Command(n) => request[n].data.cmd \notin served]_vars
    BY <1>1
  <1> QED BY <1>2, Invariance, PTL DEF Spec, ServedOnce

-----------------------------------------------------------------------------
(* Every step of the exchange is a step of the abstract call, or none of it. *)

LEMMA ClientCalls ==
    ASSUME IInv, Execute
    PROVE  [Call!Next]_Call!vars
  <1> USE DEF Call!Next, Call!Ask, Call!Return, Call!Fail, Call!vars, serverVars
  <1>1. CASE SendMessage
    <2>1. served' = served /\ result' = result /\ got' = got /\ result = "none"
      BY <1>1 DEF SendMessage, IInv, CallInv
    <2> QED BY <1>1, <2>1 DEF SendMessage
  <1>2. CASE CommandAnswered
    <2>1. /\ result = "none" /\ asked \in served /\ response[sock].data.cmd = asked
      BY <1>2, PacketFields
         DEF CommandAnswered, Accepted, Arrived, Cmd, IInv, MessageInv, CallInv
    <2>2. served' = served /\ asked' = asked
      BY <1>2 DEF CommandAnswered
    <2>3. CASE FCount > MaxEmpty
      <3>1. Cardinality(served) > MaxEmpty + 1
        <4>1. /\ Cardinality(served \ {asked}) = Cardinality(served) - 1
              /\ Cardinality(served) \in Nat
          BY <2>1, FiniteServed, FS_RemoveElement, FS_CardinalityType
        <4>2. FCount \in Nat /\ FCount <= Cardinality(served \ {asked}) /\ MaxEmpty \in Nat
          BY <1>2, LinkAssumption DEF CommandAnswered, IInv, TypeOK, CallInv
        <4> QED BY <2>3, <4>1, <4>2
      <3>2. result' = "exhausted" /\ got' = got
        BY <1>2, <2>3, LinkAssumption DEF CommandAnswered, IInv, TypeOK
      <3>3. Call!Cardinality(served) = Cardinality(served)
        BY DEF Call!Cardinality, Cardinality
      <3> QED BY <2>1, <2>2, <3>1, <3>2, <3>3
    <2>4. CASE ~ (FCount > MaxEmpty)
      BY <1>2, <2>1, <2>2, <2>4 DEF CommandAnswered
    <2> QED BY <2>3, <2>4
  <1>3. CASE ConnectFails \/ Refused \/ Lost
    <2>1. served' = served /\ asked' = asked /\ got' = got /\ result' \in {result, "error"}
      BY <1>3 DEF ConnectFails, Refused, Lost, GiveUpPreparing
    <2>2. result = "none"
      BY <1>3, Waits DEF ConnectFails, Refused, Lost, Preparing, Waiting, IInv, CallInv
    <2> QED BY <2>1, <2>2
  <1>4. CASE ~ SendMessage /\ ~ CommandAnswered /\ ~ ConnectFails /\ ~ Refused /\ ~ Lost
    BY <1>4 DEF Execute, Start, Reconnect, Prepare, Handshaken, Challenged, Authorised, InfoAnswered,
                ExecuteFails, Close
  <1> QED BY <1>1, <1>2, <1>3, <1>4

LEMMA ServerCalls ==
    ASSUME IInv, NEW n \in Connections, Process(n) \/ Lose(n) \/ Shut(n)
    PROVE  [Call!Next]_Call!vars
  <1> USE DEF Call!Next, Call!Serve, Call!vars, clientVars
  <1>1. CASE Command(n)
    <2>1. request[n].data.cmd \in (1..asked) \ served
      BY <1>1 DEF Command, Received, IInv, OnceInv, Carries
    <2> QED BY <1>1, <2>1 DEF Command
  <1>2. CASE ~ Command(n)
    BY <1>2 DEF Process, Handshake, Auth1, Auth2, Auth2Refused, Info, MessageRefused, Lose, Shut,
                serverVars
  <1> QED BY <1>1, <1>2

(* The exchange implements the abstract call, as far as safety goes: an      *)
(* answer is that of the latest attempt, which the server has carried out,   *)
(* and the emergency exit is taken only after so many other answers.         *)
THEOREM CallCorrect == Spec => Call!Spec
  <1>1. Init => Call!Init
    BY DEF Init, Call!Init
  <1>2. IInv /\ [Next]_vars => [Call!Next]_Call!vars
    <2> SUFFICES ASSUME IInv, [Next]_vars PROVE [Call!Next]_Call!vars
      OBVIOUS
    <2>1. CASE UNCHANGED vars
      BY <2>1 DEF vars, serverVars, clientVars, Call!vars
    <2> QED BY <2>1, ClientCalls, ServerCalls DEF Next
  <1> QED BY <1>1, <1>2, Invariance, PTL DEF Spec, Call!Spec
=============================================================================

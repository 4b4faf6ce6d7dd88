-------------------------------- MODULE Sgp2 --------------------------------
(***************************************************************************)
(* One exchange of a client with a server over the SGP2 protocol: the      *)
(* client's Execute, the handlers of the connections it makes, lost        *)
(* requests, late answers, closed links and the retries they cause.        *)
(***************************************************************************)
EXTENDS Sgp2Client, Sgp2Server

Init ==
    /\ request = [n \in Connections |-> None]
    /\ response = [n \in Connections |-> None]
    /\ srv = [n \in Connections |-> NoHandle]
    /\ served = {}
    /\ pc = "start" /\ stage = "auth"
    /\ sock = 0 /\ held = {}
    /\ pass \in Passwords
    /\ ckey = None /\ authed = FALSE /\ known = FALSE
    /\ FCount = 0 /\ asked = 0 /\ got = 0 /\ result = "none"
    /\ faults = 0

Next == Execute \/ \E n \in Connections : Process(n) \/ Lose(n) \/ Shut(n)

Spec == Init /\ [][Next]_vars

\* Execute's thread runs, and its reads time out; the threads of the server
\* run, so a request that has arrived is processed.  Nothing makes a fault
\* happen, and nothing but their bound makes faults stop.
FairSpec ==
    /\ Spec
    /\ WF_vars(Execute)
    /\ \A n \in Connections : WF_vars(Process(n))

-----------------------------------------------------------------------------
\* The variables keep their types; in particular there are never more
\* connections than faults plus one.
TypeOK ==
    /\ request \in [Connections -> Packets \cup {None}]
    /\ response \in [Connections -> Packets \cup {None}]
    /\ DOMAIN srv = Connections
    /\ sock \in Connections \cup {0} /\ held \subseteq 1 .. sock
    /\ pc \in {"start", "reconnect", "prepare", "send", "closing", "done"} \cup DOMAIN Expected
    /\ stage \in {"auth", "main"} /\ pass \in Passwords
    /\ ckey \in Keys /\ \A n \in Connections : srv[n].key \in Keys
    /\ FCount \in 0 .. MaxEmpty + 1 /\ got \in 0 .. asked /\ served \subseteq 1 .. asked

\* In the main loop the two ends agree on the session: the server can read
\* every command that reaches it, and the client every answer, although the
\* client keeps its key and its authorisation when an error flag makes it
\* connect again (the failures at src/SGP2/SGP2.c:649 and :461 never meet the
\* caller's command, so line 312 of src/thClient.cpp is never reached).
CommandsAccepted == pc = "execute" /\ stage = "main" /\ Arrived => Accepted

\* When the client is about to send, nothing is on its way on the connection
\* it uses: an answer that comes after its time-out can never be taken for
\* the answer to a later request (src/SGP2/SGP2.c:418 takes whatever comes).
Quiet == pc \in {"prepare", "send"} => ~InFlight(sock)

\* Two passwords that the server cannot tell apart: repeated without end,
\* they agree in as many characters as a key has.
Alike(p, q) == \A i \in 0 .. KeySize - 1 : p[(i % Len(p)) + 1] = q[(i % Len(q)) + 1]

\* No command is carried out for a client whose password is not the one in
\* the accounts (src/SGP2/SGP2.c:567), or one like it: the key has no more of
\* a password than that (src/SGP2/SGP2.c:819).
OnlyAuthorised == served # {} => Alike(pass, ServerPassword)

\* An attempt is carried out at most once, however often the exchange is
\* retried and however late the server gets to it: a request is forgotten when
\* it has been answered (src/thServer2.cpp:1135), and a retry sends a new one.
ServedOnce == [][\A n \in Connections : Command(n) => request[n].data.cmd \notin served]_vars

\* The exchange implements the abstract call: only attempts that were made are
\* carried out, the answer is that of the last attempt, and the call ends.
Call == INSTANCE RemoteCall WITH Patience <- MaxEmpty + 1
CallImplemented == Call!FairSpec
=============================================================================

----------------------------- MODULE RemoteCall -----------------------------
(***************************************************************************)
(* What a command sent to a server promises its caller, without any of the *)
(* protocol: every attempt is carried out at most once, perhaps only after *)
(* the call has ended; an answer is that of the latest attempt, which has  *)
(* been carried out; the call may give up, but it ends.                    *)
(***************************************************************************)
EXTENDS Naturals, FiniteSets

CONSTANT Patience  \* the call is exhausted only after more answers than this

VARIABLES asked, served, got, result

vars == <<asked, served, got, result>>

Init == asked = 0 /\ served = {} /\ got = 0 /\ result = "none"

Ask ==
    /\ result = "none"
    /\ asked' = asked + 1
    /\ UNCHANGED <<served, got, result>>

Serve ==
    /\ \E i \in (1 .. asked) \ served : served' = served \cup {i}
    /\ UNCHANGED <<asked, got, result>>

Return ==
    /\ result = "none" /\ asked \in served
    /\ got' = asked /\ result' = "answer"
    /\ UNCHANGED <<asked, served>>

Fail ==
    /\ result = "none"
    /\ \/ result' = "error"
       \/ result' = "exhausted" /\ asked \in served /\ Cardinality(served) > Patience
    /\ UNCHANGED <<asked, served, got>>

Next == Ask \/ Serve \/ Return \/ Fail

Spec == Init /\ [][Next]_vars

FairSpec == Spec /\ WF_vars(Return \/ Fail)
=============================================================================

------------------------------- MODULE MCSgp2 -------------------------------
(***************************************************************************)
(* The instance of Sgp2 that TLC checks: the password of the accounts, a   *)
(* different one with the same key of two characters, and one with another *)
(* key.                                                                    *)
(***************************************************************************)
EXTENDS Sgp2

CONSTANTS a, b, r1, r2

TwoCharacters  == {a, b}
AccountsOwn    == <<a>>
ThreePasswords == {AccountsOwn, <<a, a, b>>, <<b>>}
TwoRandoms     == {r1, r2}

=============================================================================

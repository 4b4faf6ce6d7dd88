--------------------------- MODULE MCTerminalInfo ---------------------------
(* Small instances of TerminalInfo: two terminals, so that an answer can    *)
(* belong to the other one and a full vector can grow during a pass.        *)
EXTENDS TerminalInfo, TLC

CONSTANTS a, b, good, bad

TwoTerminals == {a, b}
OneSession == {good}
TwoSessions == {good, bad}

Symmetry == Permutations(TwoTerminals)
=============================================================================

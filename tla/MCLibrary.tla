----------------------------- MODULE MCLibrary ------------------------------
(***************************************************************************)
(* A small instance of every unit: inputs at the edges that their code     *)
(* tells apart.                                                            *)
(***************************************************************************)
EXTENDS Library

CONSTANTS r1, r2

(* Requests and responses, local and global, of the types with a message. *)
MCAttrs ==
    {[global |-> FALSE, response |-> FALSE, address |-> 513, type |-> 3, error |-> 0],
     [global |-> TRUE, response |-> FALSE, address |-> 66051, type |-> 15, error |-> 0],
     [global |-> TRUE, response |-> TRUE, address |-> 66051, type |-> 3, error |-> 0],
     [global |-> FALSE, response |-> TRUE, address |-> 1, type |-> 0, error |-> 0]}
MCPuts == {[kind |-> "value", bytes |-> <<9>>],
           [kind |-> "value", bytes |-> Long(16909060)],
           [kind |-> "string", bytes |-> <<65, 66>>],
           [kind |-> "data", bytes |-> <<1, 0, 2, 255, 85, 3>>]}

(* A page of two different records just fits, two of the longer one do not. *)
MCRecordSize == [r \in {r1, r2} |-> IF r = r1 THEN 20 ELSE 40]

(* No file, an empty one, whole records, and a line too many. *)
MCAccountFiles == {NoAccounts, <<>>, <<"a", "p", "r">>, <<"a", "p", "r", "b">>}

MCMidepAttrs ==
    {[server |-> 66051, command |-> 7, sub |-> 0, index |-> 3, result |-> 63],
     [server |-> 0, command |-> 255, sub |-> 1, index |-> 0, result |-> 0]}
MCMidepBlocks == {<<>>, <<7>>, <<0, 200, 1>>}

(* From 1 January 2000 on, and the days before 28 February 2100. *)
MCDays == (10957..12800) \cup (47400..47539)
MCTexts == {<<>>, <<1>>, <<1, 2>>, <<1, 1, 2>>, <<2, 1, 2, 1>>, <<1, 0, 1, 2>>, <<3, 3, 1>>}
=============================================================================

----------------------------- MODULE MCRequests -----------------------------
(* Instances of Requests for TLC. *)
EXTENDS Requests

CONSTANTS why, yes, next, fix \* texts

Item(id, type, data) == [id |-> id, type |-> type, data |-> data]
Dialog(q, a) == [question |-> q, answers |-> a]
To(t, n) == [text |-> t, next |-> n]

(* Dialog 1 leads to solution 2 and to dialog 3, whose own title serves as   *)
(* an answer text; dialog 3 has an answer whose text is missing.             *)
Walk ==
    [valid |-> TRUE,
     items |-> << Item(4, "question", why), Item(5, "answer", yes),
                  Item(1, "dialog", Dialog(4, <<To(5, 2), To(3, 3)>>)),
                  Item(2, "solution", fix), Item(6, "question", next),
                  Item(3, "dialog", Dialog(6, <<To(5, 1), To(9, 2)>>)) >>]

(* The only dialog has lost its question. *)
Questionless ==
    [valid |-> TRUE, items |-> << Item(1, "dialog", Dialog(4, <<>>)), Item(2, "solution", fix) >>]

(* Dialog 1 has no question and an answer without a text; dialog 3 has more  *)
(* answers than there is room for.                                           *)
Gaps ==
    [valid |-> TRUE,
     items |-> << Item(4, "question", why), Item(1, "dialog", Dialog(-1, <<To(4, 2), To(-1, 2)>>)),
                  Item(2, "solution", fix),
                  Item(3, "dialog", Dialog(4, <<To(4, 1), To(4, 2), To(4, 3)>>)) >>]

(* The dialog's only answer is an empty text: in its place the code answers  *)
(* the question, so AnsweredFromFile leaves this file out.                   *)
Blank ==
    [valid |-> TRUE,
     items |-> << Item(4, "question", why), Item(5, "answer", Empty),
                  Item(1, "dialog", Dialog(4, <<To(5, 2)>>)), Item(2, "solution", fix) >>]

MCFiles == {Walk, Questionless, Gaps, Blank, [valid |-> FALSE, items |-> <<>>]}
MCWalk == {Walk}
=============================================================================

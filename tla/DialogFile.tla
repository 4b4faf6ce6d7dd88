----------------------------- MODULE DialogFile -----------------------------
(***************************************************************************)
(* The file of questions (SgDialog/SgDialogLib.cpp): items with an ID, a   *)
(* type and data, behind a version and before a checksum, which "valid"    *)
(* stands for.  A dialog names its question and, for every answer, the     *)
(* text and the item that comes next; the other items are texts.           *)
(***************************************************************************)
EXTENDS Integers, Sequences

CONSTANTS
    None,                     \* no file, no data
    Empty,                    \* the text of size 0
    DIALOG_MAX_ANSWERS_COUNT  \* answers a dialog's structure has room for

(* iSgDialogCreateNewDialog: a version, no items, a checksum. *)
NewDialog == [valid |-> TRUE, items |-> <<>>]

(* A buffer that is being overwritten: its checksum is wrong. *)
Torn == [valid |-> FALSE, items |-> <<>>]

Nothing == [id |-> 0, type |-> "empty", data |-> None]

(* Places in the file, which is read from its beginning. *)
OfType(f, type) == {i \in 1..Len(f.items) : f.items[i].type = type}
WithID(f, id) == {i \in 1..Len(f.items) : f.items[i].id = id}
Earliest(places) == CHOOSE i \in places : \A j \in places : i <= j
Latest(places) == CHOOSE i \in places : \A j \in places : j <= i

(* iSgDialogReadItem: the item with that ID, of a file that is valid. *)
ReadItem(f, id) ==
    IF f.valid /\ WithID(f, id) # {} THEN f.items[Earliest(WithID(f, id))] ELSE Nothing

(* IDs are unique (iSgDialogAddItem gives them out) and below 2^31; an item  *)
(* has data, if only an empty text; a dialog's is a whole structure, with    *)
(* any IDs and any number of answers, and its question is no dialog itself.  *)
WellFormed(f) ==
    /\ f.valid \in BOOLEAN /\ Len(f.items) \in Nat
    /\ \A i, j \in 1..Len(f.items) : f.items[i].id = f.items[j].id => i = j
    /\ \A i \in 1..Len(f.items) : f.items[i].id \in Nat /\ f.items[i].data # None
    /\ \A i \in OfType(f, "dialog") :
          LET d == f.items[i].data
          IN  /\ d # Empty
              /\ Len(d.answers) \in Nat
              /\ d.question \in Int /\ \A n \in 1..Len(d.answers) : d.answers[n].text \in Int
              /\ ReadItem(f, d.question).type # "dialog"

HasEmptyText(f) == f # None /\ \E i \in 1..Len(f.items) : f.items[i].data = Empty

-----------------------------------------------------------------------------
(* The texts a dialog is answered with: its question, then its answers. *)
TextIDs(d) == <<d.question>> \o [i \in 1..Len(d.answers) |-> d.answers[i].text]

(* 0xE1 or status 500; 0xEE or status 404; an exception that leaves the      *)
(* handler; the program's behaviour is undefined.                            *)
NoFile    == [type |-> "nofile"]
NotFound  == [type |-> "notfound"]
NoReply   == [type |-> "noreply"]
Undefined == [type |-> "undefined"]

(* The reply built from the texts found so far: an ID without an item ends   *)
(* the search, and the number of answers is set after the question.  More    *)
(* answers than the arrays hold are read and sent from behind them.          *)
Reply(d, texts) ==
    IF texts # <<>> /\ Len(d.answers) > DIALOG_MAX_ANSWERS_COUNT THEN Undefined
    ELSE [type |-> "dialog", texts |-> texts,
          count |-> IF texts = <<>> THEN 0 ELSE Len(d.answers),
          next |-> [i \in 1..(IF texts = <<>> THEN 0 ELSE Len(texts) - 1) |-> d.answers[i].next]]

Solution(text) == [type |-> "solution", text |-> text]

-----------------------------------------------------------------------------
(* What a request for an item is to be answered with, from the file alone.   *)

(* getNameByID: a negative ID names the empty text, another its item's text, *)
(* and a dialog is named by its question.                                    *)
NameOfText(f, id) == IF id < 0 THEN Empty ELSE ReadItem(f, id).data

Name(f, id) ==
    LET x == ReadItem(f, id)
    IN  NameOfText(f, IF id >= 0 /\ x.type = "dialog" THEN x.data.question ELSE id)

(* The title of the dialog at place i. *)
Question(f, i) == Name(f, f.items[i].data.question)

DialogReply(f, d) ==
    LET ids   == TextIDs(d)
        found == CHOOSE n \in 0..Len(ids) :
                     /\ \A i \in 1..n : Name(f, ids[i]) # None
                     /\ n < Len(ids) => Name(f, ids[n + 1]) = None
    IN  Reply(d, [i \in 1..found |-> Name(f, ids[i])])

ItemReply(f, x) ==
    CASE x.type = "dialog"   -> DialogReply(f, x.data)
      [] x.type = "solution" -> Solution(x.data)
      [] OTHER               -> NotFound

Answer(f, id) ==
    IF f = None \/ (f # None /\ ~f.valid) THEN NoFile
    ELSE IF id # 0 THEN ItemReply(f, ReadItem(f, id))
    ELSE LET dialogs == OfType(f, "dialog")
         IN  IF \E i \in dialogs : Question(f, i) = None THEN NoReply
             ELSE IF dialogs = {} THEN Undefined
             ELSE ItemReply(f, f.items[Earliest(dialogs)])
=============================================================================

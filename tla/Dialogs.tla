------------------------------- MODULE Dialogs -------------------------------
(***************************************************************************)
(* Requests for an item of the question file: CMD_DIALOG of the clients,   *)
(* under the server's mutex, and the page /quest/<id> of the HTTP server's *)
(* workers, without it.  Every request reads the file anew, through three  *)
(* buffers all of them share (SgDialog.cpp): the file being loaded, the    *)
(* file being read, and the data of the last item read.                    *)
(***************************************************************************)
EXTENDS Handlers, Sequences

CONSTANTS
    Files,      \* files of questions that may lie at the configured path
    DialogIDs,  \* IDs that are asked for; 0 is the first dialog
    Empty, DIALOG_MAX_ANSWERS_COUNT

INSTANCE DialogFile

ASSUME FilesAssumption == \A f \in Files : WellFormed(f)
ASSUME NoneAssumption == None \notin {"dialog", Empty}

VARIABLES
    file,              \* what lies at the path, or None
    ucBufFileData,     \* buffers shared by all requests
    ucReadFileData,
    ucItemDataBuf,
    dialogItem,        \* per thread, the item it found
    xDialogItemData,   \* per thread, its copy of a dialog
    sought,            \* per thread, the ID whose text it looks for
    texts,             \* per thread, the texts it has found
    answer,            \* per thread, what its last request was answered
    disturbed          \* history: a page was asked for meanwhile

bufferVars == <<file, ucBufFileData, ucReadFileData, ucItemDataBuf>>
replyVars  == <<dialogItem, xDialogItemData, sought, texts, answer, disturbed>>
dialogVars == <<bufferVars, replyVars>>

DialogsInit ==
    /\ file \in Files \cup {None}
    /\ ucBufFileData = Torn
    /\ ucReadFileData = Torn
    /\ ucItemDataBuf = Empty
    /\ dialogItem = [h \in Threads |-> Nothing]
    /\ xDialogItemData = [h \in Threads |-> None]
    /\ sought = [h \in Threads |-> 0]
    /\ texts = [h \in Threads |-> <<>>]
    /\ answer = [h \in Threads |-> NoReply]
    /\ disturbed = [h \in Threads |-> FALSE]

Busy(h) == pc[h] # "idle"

AskDialog(h) ==
    /\ \E id \in DialogIDs :
          Receive(h, "dialog", id, IF h \in Clients THEN "lock" ELSE "create")
    /\ disturbed' = [g \in Threads |->
          IF g = h THEN \E p \in Pages : Busy(p)
          ELSE disturbed[g] \/ h \in Pages]
    /\ answer' = [answer EXCEPT ![h] = NoReply]
    /\ UNCHANGED <<bufferVars, dialogItem, xDialogItemData, sought, texts>>

(* Mutant: CMD_DIALOG does not take the mutex. *)
EnterDialogFreely(h) ==
    /\ kind[h] = "dialog"
    /\ EnterFreely(h, "create")
    /\ UNCHANGED dialogVars

EnterDialog(h) ==
    /\ kind[h] = "dialog"
    /\ Enter(h, "create")
    /\ UNCHANGED dialogVars

(* The reply is sent, or the exception leaves the handler; its locals go.    *)
Finish(h, from, a) ==
    /\ Return(h, from)
    /\ answer' = [answer EXCEPT ![h] = a]
    /\ dialogItem' = [dialogItem EXCEPT ![h] = Nothing]
    /\ xDialogItemData' = [xDialogItemData EXCEPT ![h] = None]
    /\ sought' = [sought EXCEPT ![h] = 0]
    /\ texts' = [texts EXCEPT ![h] = <<>>]
    /\ UNCHANGED disturbed

Send(h, from, a) == Finish(h, from, a) /\ UNCHANGED bufferVars

-----------------------------------------------------------------------------
(* TSgDialog::init: an empty dialog first, then the file. *)

CreateNewDialog(h) ==
    /\ Step(h, "create", "clear")
    /\ ucBufFileData' = NewDialog
    /\ UNCHANGED <<file, ucReadFileData, ucItemDataBuf, replyVars>>

(* The load buffer is copied byte by byte over the read buffer. *)
Copy(h, from, to) ==
    \/ /\ ucReadFileData \notin {ucBufFileData, Torn}
       /\ Step(h, from, from)
       /\ ucReadFileData' = Torn
       /\ UNCHANGED <<file, ucBufFileData, ucItemDataBuf, replyVars>>
    \/ /\ ucReadFileData \in {ucBufFileData, Torn}
       /\ Step(h, from, to)
       /\ ucReadFileData' = ucBufFileData
       /\ UNCHANGED <<file, ucBufFileData, ucItemDataBuf, replyVars>>

OpenFails(h) ==
    /\ Send(h, "open", NoFile)
    /\ file = None

Open(h) ==
    /\ Step(h, "open", "check")
    /\ file # None
    /\ ucBufFileData' = file
    /\ UNCHANGED <<file, ucReadFileData, ucItemDataBuf, replyVars>>

(* iSgDialogReadItemsInit: version and checksum. *)
CheckFails(h) ==
    /\ Send(h, "check", NoFile)
    /\ ~ucBufFileData.valid

Check(h) ==
    /\ Step(h, "check", "copy")
    /\ ucBufFileData.valid
    /\ UNCHANGED dialogVars

Load(h) ==
    \/ CreateNewDialog(h)
    \/ Copy(h, "clear", "open")
    \/ OpenFails(h) \/ Open(h)
    \/ CheckFails(h) \/ Check(h)
    \/ Copy(h, "copy", IF arg[h] = 0 THEN "first" ELSE "item")

-----------------------------------------------------------------------------
(* getQuestID_First lists all dialogs with their questions.  Without a valid *)
(* file the list is a null pointer, without a dialog getFirst returns        *)
(* nothing; a question that is missing throws.                               *)

NoList(h) ==
    /\ ~ucReadFileData.valid \/ OfType(ucReadFileData, "dialog") = {}
    /\ Send(h, "first", Undefined)

FirstThrows(h) ==
    LET dialogs == OfType(ucReadFileData, "dialog")
    IN  \E i \in dialogs :
            /\ Question(ucReadFileData, i) = None
            /\ \A j \in dialogs : j < i => Question(ucReadFileData, j) # None
            /\ Finish(h, "first", NoReply)
            /\ ucItemDataBuf' = ucReadFileData.items[i].data
            /\ UNCHANGED <<file, ucBufFileData, ucReadFileData>>

(* What the listing leaves in the common buffer: the data of the last item   *)
(* it reads there, the question's text behind the dialog's structure.        *)
Listed(f) ==
    LET last  == Latest(OfType(f, "dialog"))
        after == Latest({i \in last..Len(f.items) : f.items[i].data # Empty})
    IN  IF after = last /\ Question(f, last) # Empty THEN Question(f, last)
        ELSE f.items[after].data

First(h) ==
    LET dialogs == OfType(ucReadFileData, "dialog")
    IN  /\ Step(h, "first", "item")
        /\ dialogs # {}
        /\ \A i \in dialogs : Question(ucReadFileData, i) # None
        /\ sought' = [sought EXCEPT ![h] = ucReadFileData.items[Earliest(dialogs)].id]
        /\ ucItemDataBuf' = Listed(ucReadFileData)
        /\ UNCHANGED <<file, ucBufFileData, ucReadFileData, dialogItem, xDialogItemData,
                       texts, answer, disturbed>>

(* An item's data goes to the common buffer; no bytes leave it as it was. *)
Buffered(x) == IF x.data \in {None, Empty} THEN ucItemDataBuf ELSE x.data

GetItemByID(h) ==
    LET x == ReadItem(ucReadFileData, IF arg[h] = 0 THEN sought[h] ELSE arg[h])
    IN  /\ Step(h, "item", "switch")
        /\ dialogItem' = [dialogItem EXCEPT ![h] = x]
        /\ ucItemDataBuf' = Buffered(x)
        /\ UNCHANGED <<file, ucBufFileData, ucReadFileData, xDialogItemData, sought,
                       texts, answer, disturbed>>

SwitchFails(h) ==
    /\ Send(h, "switch", NotFound)
    /\ dialogItem[h].type \notin {"dialog", "solution"}

SwitchSolution(h) ==
    /\ Step(h, "switch", "read")
    /\ dialogItem[h].type = "solution"
    /\ sought' = [sought EXCEPT ![h] = dialogItem[h].id]
    /\ UNCHANGED <<bufferVars, dialogItem, xDialogItemData, texts, answer, disturbed>>

(* Texts of the items, in place of a dialog's structure. *)
IsDialog(data) == \E f \in Files : \E i \in 1..Len(f.items) :
                      f.items[i].type = "dialog" /\ f.items[i].data = data

(* getDialogDTO copies the structure out of the common buffer; a text that   *)
(* was put there meanwhile makes no structure.                               *)
SwitchDialog(h) ==
    /\ Step(h, "switch", "read")
    /\ dialogItem[h].type = "dialog"
    /\ IsDialog(ucItemDataBuf)
    /\ xDialogItemData' = [xDialogItemData EXCEPT ![h] = ucItemDataBuf]
    /\ sought' = [sought EXCEPT ![h] = ucItemDataBuf.question]
    /\ UNCHANGED <<bufferVars, dialogItem, texts, answer, disturbed>>

SwitchGarbage(h) ==
    /\ Send(h, "switch", Undefined)
    /\ dialogItem[h].type = "dialog"
    /\ ~IsDialog(ucItemDataBuf)

-----------------------------------------------------------------------------
(* getNameByID: the item is read into the common buffer, then the text is    *)
(* taken from there; of a dialog, its question's text.  An empty text is     *)
(* what the buffer held before; a negative ID is not looked up.              *)

(* Of a missing item there is no text: std::string throws.  getDialogDTO     *)
(* catches that and returns what it has; a solution is not answered.         *)
NameMissing(h) ==
    /\ sought[h] >= 0
    /\ ReadItem(ucReadFileData, sought[h]) = Nothing
    /\ Send(h, "read", IF dialogItem[h].type = "solution" THEN NoReply
                       ELSE Reply(xDialogItemData[h], texts[h]))

ReadName(h) ==
    LET x == ReadItem(ucReadFileData, sought[h])
    IN  /\ Step(h, "read", IF x.type = "dialog" THEN "again" ELSE "text")
        /\ sought[h] >= 0 /\ x # Nothing
        /\ ucItemDataBuf' = Buffered(x)
        /\ UNCHANGED <<file, ucBufFileData, ucReadFileData, replyVars>>

(* getIDQestionByIDItem reads the dialog once more; without it there is      *)
(* nothing to take the question from.                                        *)
ReadAgain(h) ==
    LET x == ReadItem(ucReadFileData, sought[h])
    IN  /\ Step(h, "again", "question")
        /\ x # Nothing
        /\ ucItemDataBuf' = Buffered(x)
        /\ UNCHANGED <<file, ucBufFileData, ucReadFileData, replyVars>>

AgainMissing(h) ==
    /\ ReadItem(ucReadFileData, sought[h]) = Nothing
    /\ Send(h, "again", Undefined)

ReadQuestion(h) ==
    /\ Step(h, "question", "read")
    /\ IsDialog(ucItemDataBuf)
    /\ sought' = [sought EXCEPT ![h] = ucItemDataBuf.question]
    /\ UNCHANGED <<bufferVars, dialogItem, xDialogItemData, texts, answer, disturbed>>

ReadGarbage(h) ==
    /\ Send(h, "question", Undefined)
    /\ ~IsDialog(ucItemDataBuf)

(* getDialogDTO goes on to the next ID, or has all texts. *)
NextText(h, from, text) ==
    LET found == Append(texts[h], text)
        ids   == TextIDs(xDialogItemData[h])
    IN  /\ Step(h, from, "read")
        /\ dialogItem[h].type = "dialog"
        /\ Len(found) < Len(ids)
        /\ texts' = [texts EXCEPT ![h] = found]
        /\ sought' = [sought EXCEPT ![h] = ids[Len(found) + 1]]
        /\ UNCHANGED <<bufferVars, dialogItem, xDialogItemData, answer, disturbed>>

LastText(h, from, text) ==
    LET found == Append(texts[h], text)
    IN  /\ pc[h] = from /\ dialogItem[h].type = "dialog"
        /\ Len(found) = Len(TextIDs(xDialogItemData[h]))
        /\ Send(h, from, Reply(xDialogItemData[h], found))

TakeText(h) == NextText(h, "text", ucItemDataBuf) \/ LastText(h, "text", ucItemDataBuf)

NoName(h) ==
    /\ sought[h] < 0
    /\ NextText(h, "read", Empty) \/ LastText(h, "read", Empty)

SolutionText(h) ==
    /\ pc[h] = "text" /\ dialogItem[h].type = "solution"
    /\ Send(h, "text", Solution(ucItemDataBuf))

ServeDialog(h) ==
    \/ EnterDialog(h) \/ Load(h) \/ NoList(h) \/ FirstThrows(h) \/ First(h)
    \/ GetItemByID(h) \/ SwitchFails(h) \/ SwitchSolution(h) \/ SwitchDialog(h) \/ SwitchGarbage(h)
    \/ NameMissing(h) \/ ReadName(h) \/ ReadAgain(h) \/ AgainMissing(h) \/ ReadQuestion(h) \/ ReadGarbage(h)
    \/ TakeText(h) \/ NoName(h) \/ SolutionText(h)
=============================================================================

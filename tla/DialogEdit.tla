----------------------------- MODULE DialogEdit -----------------------------
(***************************************************************************)
(* Editing a file of questions (SgDialogLib.cpp): items are added, changed *)
(* and removed by copying one buffer into another, cell by cell up to the  *)
(* item in question, the rest behind it, with a new checksum.  A file is   *)
(* one cell of version, items of a type, an ID, a size and as many cells   *)
(* of data, a type zero that ends them, and the checksum.                  *)
(***************************************************************************)
EXTENDS Integers, Sequences, SequencesExt

CONSTANTS
    VIRTUAL_FILE_SIZE,    \* in cells
    ItemSizes, MaxEdits,
    IDCount               \* IDs wrap: 2^32

(* No more edits than there are IDs: after a wrap an ID may come twice. *)
ASSUME EditAssumption ==
    /\ VIRTUAL_FILE_SIZE \in Nat
    /\ ItemSizes \subseteq Nat
    /\ MaxEdits \in Nat /\ IDCount \in Nat /\ MaxEdits < IDCount

VARIABLES
    ucReadFileData, ucBufFileData,    \* the two buffers
    edit                              \* the last call: what, with which item, its result

editVars == <<ucReadFileData, ucBufFileData, edit>>

Version == 1
Empty == 0       \* SDIT_EMPTY
Types == {1}     \* below SDIT_MAX_VALUE

(* Stands for the CRC of the cells. *)
CRC16(cells) ==
    LET crc[n \in 0..Len(cells)] == IF n = 0 THEN 0 ELSE (7 * crc[n - 1] + cells[n] + 1) % 257
    IN  crc[Len(cells)]

Checked(cells) == Append(cells, CRC16(cells))

(* iSgDialogCreateNewDialog *)
NewFile == Checked(<<Version, Empty>>)

(* A whole item begins at o. *)
HasItem(f, o) == o + 2 <= Len(f) /\ f[o] \in Types /\ o + 2 + f[o + 2] <= Len(f)

(* Where the items of a file begin, and where reading them ends: it stays    *)
(* at the first place without an item.                                       *)
Starts(f) ==
    LET starts[n \in 0..Len(f)] ==
            IF n = 0 THEN <<2>>
            ELSE LET s == starts[n - 1]
                     o == Last(s)
                 IN  IF HasItem(f, o) THEN Append(s, o + 3 + f[o + 2]) ELSE s
    IN  starts[Len(f)]

IsRead(f) ==
    LET o == Last(Starts(f))
    IN  o < Len(f) /\ f[o] = Empty /\ f[o + 1] = CRC16(SubSeq(f, 1, o))

ItemStarts(f) == Front(Starts(f))
ItemOf(f, o) == [id |-> f[o + 1], type |-> f[o], data |-> SubSeq(f, o + 3, o + 2 + f[o + 2])]
ItemsOf(f) == [n \in 1..Len(ItemStarts(f)) |-> ItemOf(f, ItemStarts(f)[n])]
Cells(id, item) == <<item.type, id, Len(item.data)>> \o item.data

(* Mutant: the number of items is taken for the next ID. *)
CountedID(f) == Len(ItemStarts(f))

(* One past the greatest ID; the search begins with "none", which is the     *)
(* greatest ID of all.                                                       *)
NextID(f) ==
    LET items == ItemsOf(f)
        uiMaxItemID[n \in 0..Len(items)] ==
            IF n = 0 THEN IDCount - 1
            ELSE LET m == uiMaxItemID[n - 1]
                 IN  IF items[n].id > m \/ m = IDCount - 1 THEN items[n].id ELSE m
    IN  (uiMaxItemID[Len(items)] + 1) % IDCount

(* What iWriteDescriptor has put into the buffer: no more than it holds. *)
Written(cells) == SubSeq(cells, 1, IF Len(cells) < VIRTUAL_FILE_SIZE THEN Len(cells) ELSE VIRTUAL_FILE_SIZE)

EditInit ==
    /\ ucReadFileData = NewFile /\ ucBufFileData = NewFile
    /\ edit = [call |-> "new", id |-> 0, item |-> [type |-> 1, data |-> <<>>], result |-> 1, edits |-> 0]

(* The result of writing a whole file, -1 when it does not fit. *)
Write(call, id, item, cells) ==
    /\ ucBufFileData' = Written(cells)
    /\ edit' = [call |-> call, id |-> id, item |-> item, edits |-> edit.edits + 1,
                result |-> IF Len(cells) <= VIRTUAL_FILE_SIZE THEN 1 ELSE -1]

Fail(call, id, item, result) ==
    /\ edit' = [call |-> call, id |-> id, item |-> item, edits |-> edit.edits + 1, result |-> result]
    /\ UNCHANGED ucBufFileData

(* iSgDialogAddItem as AddArray calls it: -1 counts as success, and what the *)
(* buffer then has becomes the file.                                         *)
AddArray(item) ==
    /\ edit.edits < MaxEdits
    /\ LET f == ucReadFileData
           id == NextID(f)
           new == Checked(SubSeq(f, 1, Last(Starts(f)) - 1) \o Cells(id, item) \o <<Empty>>)
       IN  IF IsRead(f) THEN Write("add", id, item, new) ELSE Fail("add", 0, item, -1)
    /\ ucReadFileData' = ucBufFileData'

FirstWith(f, id) ==
    LET S == {n \in 1..Len(ItemsOf(f)) : ItemsOf(f)[n].id = id}
    IN  IF S = {} THEN 0 ELSE CHOOSE n \in S : \A m \in S : n <= m

(* iSgDialogRemoveModifyItem; its caller takes the buffer when it returns 1. *)
RemoveModifyItem(call, id, item) ==
    /\ edit.edits < MaxEdits
    /\ LET f == ucReadFileData
           n == FirstWith(f, id)
           iFoundStart == Starts(f)[n]
           iRemainStart == Starts(f)[n + 1]
           new == Checked(SubSeq(f, 1, iFoundStart - 1)
                          \o (IF call = "modify" THEN Cells(id, item) ELSE <<>>)
                          \o SubSeq(f, iRemainStart, Last(Starts(f))))
       IN  IF ~IsRead(f) THEN Fail(call, id, item, -1)
           ELSE IF n = 0 THEN Fail(call, id, item, 0)
           ELSE Write(call, id, item, new)
    /\ ucReadFileData' = IF edit'.result = 1 THEN ucBufFileData' ELSE ucReadFileData

EditNext ==
    \E size \in ItemSizes :
        LET item == [type |-> 1, data |-> [i \in 1..size |-> edit.edits + 1]]
        IN  \/ AddArray(item)
            \/ \E id \in 0..MaxEdits :
                   RemoveModifyItem("modify", id, item) \/ RemoveModifyItem("remove", id, item)

-----------------------------------------------------------------------------
(* An action property: an edit that reports success leaves a file that is    *)
(* read again, in which the other items are as they were and in their order, *)
(* a changed item keeps its ID and its place, and a new item comes last with *)
(* an ID that no other has.                                                  *)
EditKeepsItems ==
    [][edit'.edits > edit.edits /\ edit'.result = 1 =>
        LET old == ItemsOf(ucReadFileData)
            new == ItemsOf(ucReadFileData')
            item == [id |-> edit'.id, type |-> edit'.item.type, data |-> edit'.item.data]
            n == FirstWith(ucReadFileData, edit'.id)
        IN  /\ IsRead(ucReadFileData')
            /\ CASE edit'.call = "add"    -> n = 0 /\ new = Append(old, item)
                 [] edit'.call = "modify" -> new = ReplaceAt(old, n, item)
                 [] edit'.call = "remove" -> new = RemoveAt(old, n)]_editVars
=============================================================================

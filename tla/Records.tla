------------------------------ MODULE Records -------------------------------
(***************************************************************************)
(* The file of relay-server records (RelayServers.h), which any client     *)
(* adds to and deletes while another reads it page by page (the CMD_RS     *)
(* commands of thServer2.cpp): no lock is held from page to page.  The     *)
(* reading client is not part of the repository: this one keeps what has   *)
(* reached it whole and asks for what comes next.                          *)
(***************************************************************************)
EXTENDS Integers, Sequences, FiniteSets, SequencesExt

CONSTANTS
    Writers,         \* clients that add records, each in a thread of its own
    RelayServers,    \* what a record says
    PageSize,        \* how many records the reading client asks for
    MaxRecords,
    RecordSize,      \* the bytes of each record in a message, 779 at most
    Room,            \* what a response has room for behind time and count: 32740
    NoFile           \* there is no file, no record

(* The number a client asks for has 16 bits, and there is room for any record. *)
ASSUME RecordsAssumption ==
    /\ PageSize \in Nat \ {0} /\ PageSize < 65536 /\ MaxRecords \in Nat
    /\ Room \in Nat /\ RecordSize \in [RelayServers -> Nat]
    /\ \A r \in RelayServers : RecordSize[r] <= Room
    /\ NoFile \notin RelayServers

VARIABLES
    recordFile,      \* the file's records, or <<NoFile>>
    adding,          \* per writer: the record it found missing, to be appended
    page,            \* the last answer: how many records it announces, and those it has whole
    got,             \* what the reading client has put together, page by page
    reading          \* idle, paging, done, or lost: the file was deleted meanwhile

recordVars == <<recordFile, adding, page, got, reading>>

Missing == <<NoFile>>

RecordsInit ==
    /\ recordFile = Missing
    /\ adding = [w \in Writers |-> NoFile]
    /\ page = [announced |-> 0, records |-> <<>>]
    /\ got = <<>> /\ reading = "idle"

Found == IF recordFile = Missing THEN <<>> ELSE recordFile

(* recordExists and the appending open the file one after the other. *)
recordExists(r) == r \in ToSet(Found)

FindRecord(w) ==
    /\ adding[w] = NoFile
    /\ \E r \in RelayServers : ~recordExists(r) /\ adding' = [adding EXCEPT ![w] = r]
    /\ UNCHANGED <<recordFile, page, got, reading>>

AppendRecord(w) ==
    /\ adding[w] # NoFile /\ Len(Found) < MaxRecords
    /\ recordFile' = Append(Found, adding[w])
    /\ adding' = [adding EXCEPT ![w] = NoFile]
    /\ UNCHANGED <<page, got, reading>>

deleteFile ==
    /\ recordFile # Missing
    /\ recordFile' = Missing
    /\ reading' = IF reading = "paging" THEN "lost" ELSE reading
    /\ UNCHANGED <<adding, page, got>>

(* Mutant: the last record of the file is not counted. *)
CountWithoutLast(startID, cnt) ==
    IF Len(Found) - startID < cnt THEN Len(Found) - startID - 1 ELSE cnt

SendCount(startID, cnt) ==
    IF Len(Found) - startID < cnt THEN Len(Found) - startID ELSE cnt

(* The bytes that the records up to the n-th take. *)
BytesUpTo(records) ==
    LET bytes[n \in 0..Len(records)] == IF n = 0 THEN 0 ELSE bytes[n - 1] + RecordSize[records[n]]
    IN  bytes

FitsWhole(records) == BytesUpTo(records)[Len(records)] <= Room

(* The put functions cut a string and drop a number for which there is no    *)
(* room: the records that end within it arrive whole, and none behind them.  *)
Carried(records) ==
    SubSeq(records, 1, Cardinality({n \in 1..Len(records) : BytesUpTo(records)[n] <= Room}))

PageFrom(startID) == SubSeq(Found, startID + 1, startID + SendCount(startID, PageSize))

(* CMD_RS 0x00: readAllFromFile, which creates a missing file; a number of   *)
(* records, 16 bits wide, and those that are there and fit.  A page that     *)
(* begins behind the last record is announced with a wrapped number.         *)
ReadPage(startID) ==
    /\ recordFile' = Found
    /\ page' = [announced |-> SendCount(startID, PageSize) % 65536,
                records   |-> Carried(PageFrom(startID))]

(* The reading client begins with record 0 and goes on behind what it has,   *)
(* until a page brings nothing more.                                         *)
ReadRecords ==
    /\ reading # "done"
    /\ ReadPage(Len(got))
    /\ \/ page'.records # <<>> /\ got' = got \o page'.records
          /\ reading' = IF reading = "idle" THEN "paging" ELSE reading
       \/ page'.records = <<>> /\ reading # "lost" /\ reading' = "done" /\ UNCHANGED got
       \/ page'.records = <<>> /\ reading = "lost" /\ reading' = "idle" /\ got' = <<>>
    /\ UNCHANGED adding

RecordsNext ==
    \/ \E w \in Writers : FindRecord(w) \/ AppendRecord(w)
    \/ deleteFile \/ ReadRecords

-----------------------------------------------------------------------------
(* A client that reads the records page by page misses none although other   *)
(* clients add records between its pages: what it has is the file's          *)
(* beginning, and in the end the whole file; and every page that fits in its *)
(* message has as many records as it announces.  (A page that does not fit   *)
(* announces more than it brings.  So does a page behind the end, 65536 - n, *)
(* when the file is deleted while the client reads.)                         *)
PagesComplete ==
    [][reading = "paging" /\ reading' \in {"paging", "done"} =>
        /\ IsPrefix(got', Found)
        /\ reading' = "done" => got' = Found
        /\ ReadRecords /\ FitsWhole(PageFrom(Len(got))) => page'.announced = Len(page'.records)]_recordVars

=============================================================================

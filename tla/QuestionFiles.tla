--------------------------- MODULE QuestionFiles ----------------------------
(***************************************************************************)
(* The list of question files (FileWatcher.cpp, GetFilesPort.cpp): a scan  *)
(* reads the directory, adds the files whose first question can be read    *)
(* and, when it found fewer files than are listed, removes those that are  *)
(* gone.  Files come, go and change between scans.                         *)
(***************************************************************************)
EXTENDS Naturals, Sequences, FiniteSets, SequencesExt

CONSTANTS
    Files,
    HiddenFiles    \* names of which the first or the second character is a dot

ASSUME FilesAssumption == IsFiniteSet(Files) /\ HiddenFiles \subseteq Files

VARIABLES
    directory,     \* the files that are there
    valid,         \* those with a first question that can be read
    FilesList,     \* what the last scan of the directory found
    QuestList,     \* the questions listed, named by their files
    scanned        \* a scan that could open the directory has just ended

questVars == <<directory, valid, FilesList, QuestList, scanned>>

QuestInit ==
    /\ directory = {} /\ valid = {}
    /\ FilesList = <<>> /\ QuestList = <<>>
    /\ scanned = FALSE

(* The users of the directory. *)
ChangeDirectory ==
    /\ \/ \E f \in Files : directory' = directory \cup {f} /\ UNCHANGED valid
       \/ \E f \in directory : directory' = directory \ {f} /\ UNCHANGED valid
       \/ \E f \in Files : valid' \in {valid \cup {f}, valid \ {f}} /\ UNCHANGED directory
    /\ scanned' = FALSE
    /\ UNCHANGED <<FilesList, QuestList>>

(* Add, file by file: one that is listed is left alone. *)
Added(list, files) ==
    LET Add(quests, f) ==
            IF f \in ToSet(quests) \/ f \notin valid THEN quests ELSE Append(quests, f)
        after[i \in 0..Len(files)] == IF i = 0 THEN list ELSE Add(after[i - 1], files[i])
    IN  after[Len(files)]

(* Mutant: the index is not set back after an element was erased. *)
SkipAfterErase(list, files) ==
    LET kept[i \in 1..Len(list) + 2] ==
            IF i > Len(list) THEN <<>>
            ELSE IF list[i] \in ToSet(files) THEN <<list[i]>> \o kept[i + 1]
            ELSE IF i = Len(list) THEN <<>> ELSE <<list[i + 1]>> \o kept[i + 2]
    IN  kept[1]

(* Whoever is not among the files is erased, from the first to the last. *)
Erased(list, files) ==
    LET kept[i \in 0..Len(list)] ==
            IF i = 0 THEN <<>>
            ELSE IF list[i] \in ToSet(files) THEN Append(kept[i - 1], list[i])
            ELSE kept[i - 1]
    IN  kept[Len(list)]

(* executeScan: a directory that cannot be opened leaves the last list. *)
executeScan(found) ==
    LET quests == Added(QuestList, found)
    IN  /\ FilesList' = found
        /\ QuestList' = IF Len(found) < Len(quests) THEN Erased(quests, found) ELSE quests
        /\ UNCHANGED <<directory, valid>>

Scan ==
    \E order \in SetToSeqs(directory \ HiddenFiles) : executeScan(order) /\ scanned' = TRUE

ScanFails == executeScan(FilesList) /\ scanned' = FALSE

QuestNext == ChangeDirectory \/ Scan \/ ScanFails

-----------------------------------------------------------------------------
(* After a scan every file with a question that can be read is listed, none  *)
(* is listed twice however files came and went, and there are no more        *)
(* entries than files.  (An entry of a file that is gone may stay, as long   *)
(* as there are enough others.)                                              *)
QuestListed ==
    scanned =>
        /\ (directory \cap valid) \ HiddenFiles \subseteq ToSet(QuestList)
        /\ IsInjective(QuestList)
        /\ Len(QuestList) <= Len(FilesList)
=============================================================================

------------------------------ MODULE Accounts ------------------------------
(***************************************************************************)
(* The users' accounts (Accounts.cpp): three lines of a file each, read    *)
(* into a list when the program starts.                                    *)
(***************************************************************************)
EXTENDS Integers, Sequences, SequencesExt

CONSTANTS
    AccountFiles,    \* the lines that the file may have at first, or <<"no file">>
    Logins, Secrets, \* the lines of an account: login, password and rights
    MaxAccounts

ASSUME AccountsAssumption ==
    /\ AccountFiles \subseteq Seq(STRING)
    /\ Logins \subseteq STRING /\ Secrets \subseteq STRING
    /\ MaxAccounts \in Nat

VARIABLES
    accountFile,     \* the lines of the file
    AccountList,     \* the accounts in memory
    accountPhase,    \* new, down, read when ReadFileAccount has just run, used
    saved            \* the accounts saved up to now

accountVars == <<accountFile, AccountList, accountPhase, saved>>

NoAccounts == <<"no file">>

AccountsInit ==
    /\ accountFile = NoAccounts /\ AccountList = <<>>
    /\ accountPhase = "new" /\ saved = <<>>

Account(lines) == [pcLogin |-> lines[1], pcPassword |-> lines[2], pcRights |-> lines[3]]

(* A file that is missing is created from a template. *)
Template == <<"User", "Password">>

(* Mutant: the lines are counted from one, so that a record begins late. *)
ShiftedAccounts(lines) ==
    [n \in 1..(Len(lines) - 1) \div 3 |-> Account(SubSeq(lines, 3 * n - 1, 3 * n + 1))]

(* Every third line completes an account; what is left over is dropped. *)
ReadAccounts(lines) ==
    [n \in 1..Len(lines) \div 3 |-> Account(SubSeq(lines, 3 * n - 2, 3 * n))]

(* The program reads the file once, when it starts. *)
ReadFileAccount ==
    /\ accountPhase \in {"new", "down"}
    /\ \E file \in (IF accountPhase = "new" THEN AccountFiles ELSE {accountFile}) :
           LET lines == IF file = NoAccounts THEN Template ELSE file
           IN  accountFile' = lines /\ AccountList' = ReadAccounts(lines)
    /\ accountPhase' = "read"
    /\ UNCHANGED saved

Running == accountPhase \in {"read", "used"}

(* SaveAccount appends to the list and to the file. *)
SaveAccount(login, password, rights) ==
    /\ Running /\ Len(saved) < MaxAccounts
    /\ AccountList' = Append(AccountList, Account(<<login, password, rights>>))
    /\ accountFile' = accountFile \o <<login, password, rights>>
    /\ saved' = Append(saved, Account(<<login, password, rights>>))
    /\ accountPhase' = "used"

(* AddAccount and RemoveAccountByIndex change the list in memory only. *)
AddAccount(login, password, rights) ==
    /\ Running /\ Len(AccountList) < MaxAccounts
    /\ AccountList' = Append(AccountList, Account(<<login, password, rights>>))
    /\ accountPhase' = "used"
    /\ UNCHANGED <<accountFile, saved>>

RemoveAccountByIndex(index) ==
    /\ Running /\ index < Len(AccountList)
    /\ AccountList' = RemoveAt(AccountList, index + 1)
    /\ accountPhase' = "used"
    /\ UNCHANGED <<accountFile, saved>>

(* The program ends, and with it the list in memory. *)
Restart ==
    /\ Running /\ accountPhase' = "down" /\ AccountList' = <<>>
    /\ UNCHANGED <<accountFile, saved>>

AccountsNext ==
    \/ ReadFileAccount \/ Restart
    \/ \E l \in Logins, p, r \in Secrets : SaveAccount(l, p, r) \/ AddAccount(l, p, r)
    \/ \E i \in 0..MaxAccounts : RemoveAccountByIndex(i)

-----------------------------------------------------------------------------
(* The accounts saved in any earlier run of the program are there after a    *)
(* restart, each with its own password and rights, whatever was added or     *)
(* removed in memory - if the file had whole records.  The template that     *)
(* ReadFileAccount creates has not: behind its two lines every account that  *)
(* is saved is read one line off.                                            *)
AccountsKept ==
    accountPhase = "read" /\ Len(accountFile) % 3 = 0 => IsSuffix(saved, AccountList)
=============================================================================

------------------------------ MODULE Library -------------------------------
(***************************************************************************)
(* The parts of the program that keep to themselves: the containers, the   *)
(* packets of both protocols, the files and the helpers.  They do not call *)
(* each other and share nothing, so that a behaviour is one unit's alone;  *)
(* "unit" says whose.                                                      *)
(***************************************************************************)
EXTENDS SgQueue, SgList, Sgp2Packet, Records, Accounts, QuestionFiles,
        DialogEdit, Legacy, HelpFunctions

CONSTANT Units

ASSUME UnitsAssumption ==
    Units \subseteq {"queue", "list", "packet", "records", "accounts", "questions",
                     "edit", "legacy", "help"}

VARIABLE unit

vars == <<queueVars, listVars, packetVars, recordVars, accountVars, questVars,
          editVars, legacyVars, input, unit>>

(* One unit runs, the others stay as they start. *)
Init ==
    /\ unit \in Units
    /\ QueueInit /\ ListInit /\ PacketInit
    /\ RecordsInit /\ AccountsInit /\ QuestInit
    /\ EditInit /\ LegacyInit /\ HelpInit

Idle(name, variables) == unit # name /\ UNCHANGED variables

Next ==
    /\ UNCHANGED unit
    /\ (unit = "queue" /\ QueueNext) \/ Idle("queue", queueVars)
    /\ (unit = "list" /\ ListNext) \/ Idle("list", listVars)
    /\ (unit = "packet" /\ PacketNext) \/ Idle("packet", packetVars)
    /\ (unit = "records" /\ RecordsNext) \/ Idle("records", recordVars)
    /\ (unit = "accounts" /\ AccountsNext) \/ Idle("accounts", accountVars)
    /\ (unit = "questions" /\ QuestNext) \/ Idle("questions", questVars)
    /\ (unit = "edit" /\ EditNext) \/ Idle("edit", editVars)
    /\ (unit = "legacy" /\ LegacyNext) \/ Idle("legacy", legacyVars)
    /\ (unit = "help" /\ HelpNext) \/ Idle("help", input)

Spec == Init /\ [][Next]_vars
=============================================================================

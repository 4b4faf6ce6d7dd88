CONSTANTS
    Units = {"queue", "list", "packet", "records", "accounts", "questions", "edit", "legacy", "help"}
    QueueItems = {q1, q2, q3}
    uiItemsMaxCount = 3
    KeyCount = 5
    ListItems = {v1}
    Null = Null
    uiCapacity = 3
    PacketAttrs <- MCAttrs
    BufferSizes = {7, 10, 13, 20, 23, 26, 42}
    PacketPuts <- MCPuts
    MaxPuts = 2
    Garbled = {0, 1, 5, 85, 127, 128, 136, 255}
    Writers = {w1, w2}
    r1 = r1
    r2 = r2
    RelayServers = {r1, r2}
    RecordSize <- MCRecordSize
    Room = 60
    PageSize = 2
    MaxRecords = 4
    NoFile = NoFile
    AccountFiles <- MCAccountFiles
    Logins = {"a"}
    Secrets = {"p", "r"}
    MaxAccounts = 2
    Files = {f1, f2, f3}
    HiddenFiles = {f3}
    VIRTUAL_FILE_SIZE = 16
    ItemSizes = {0, 2}
    MaxEdits = 4
    IDCount = 100
    MidepAttrs <- MCMidepAttrs
    MidepBlocks <- MCMidepBlocks
    MaxBlocks = 3
    Servers = {0, 66051, 16909060}
    Mangled = {0, 1, 9, 119, 128, 255}
    Words = 7
    ArrayBits = 12
    ValueBits = 5
    Cards = {0, 1, 11259375, 16777215}
    Days <- MCDays
    Texts <- MCTexts
SPECIFICATION Spec
INVARIANTS PacketArrives DamageNoticed MessageFits AccountsKept QuestListed LegacyArrives HelpersAgree
PROPERTIES QueueImplemented  PagesComplete EditKeepsItems
CHECK_DEADLOCK FALSE

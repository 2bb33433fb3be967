CONSTANTS
    absent = absent unreadable = unreadable
    RuleFiles = {"s.yaml", "u.yaml", "v.yaml"}
    Locations = {"system", "user", "inside"}
    Places <- MCPlaces FilesAt <- MCFilesAt
    Documents <- MCDocuments
    Absent = absent Unreadable = unreadable
    RuleNames = {"a", "b", ""} NoName = ""
    Literals <- MCLiterals NoLiteral = "" Fold <- MCFold
    Regexes = {"r", "("} BadRegexes = {"("}
    LogFiles = {"conf", "log"} DefaultFiles <- MCDefaultFiles
    Folders <- MCFolders
    Guarded = {"user"} MaxEdits = 1
SPECIFICATION Spec
CHECK_DEADLOCK FALSE
INVARIANTS OnePassIsAPassPerRule DryRunTellsWhatFires NothingIsSwallowed InventoryAddsUp

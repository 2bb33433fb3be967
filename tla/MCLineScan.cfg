\* The lengths 4 and 4 of the program are 2 and 1 here, for words of up to three characters,
\* and two lines are kept instead of three.
CONSTANTS
    Bytes <- MCBytes
    Upper <- MCUpper
    Letters <- MCLetters
    WordBytes <- MCWordBytes
    Blank = " "
    Dot = "."
    Star = "*"
    Long = 2
    Short = 1
    MaxExamples = 2
    GenericWords <- MCGenericWords
    AlwaysKeep <- MCAlwaysKeep
    Exclusions <- MCExclusions
    Registries <- MCRegistries
    Folders <- MCFolders
SPECIFICATION ScanSpec
INVARIANTS
    AutomatonIsExact
    PrefilterHidesNothing
    FirstLinesAreKept
    TimedOutScanIsAPrefix

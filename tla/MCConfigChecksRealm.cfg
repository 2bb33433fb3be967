\* Two roots, any of five contents in each, changed once by another program.
CONSTANTS
    absent = absent
    unreadable = unreadable
    broken = broken
    older = older
    newer = newer
    shipped = shipped
    Docs <- MCDocs
    Names <- MCNames
    Keys <- MCKeys
    Tokens <- MCTokens
    LowerCase <- MCLowerCase
    Atoi <- MCAtoi
    Undotted <- MCUndotted
    Addresses <- MCAddresses
    Hostname <- MCHostname
    Roots <- MCRoots
    Contents <- MCContents
    Absent = absent
    Unreadable = unreadable
    Catalogs <- MCCatalogs
    Embedded = shipped
    NoName = none
    MaxEdits = 1
SPECIFICATION Spec
INVARIANTS
    RealmsMatchTheirDomain

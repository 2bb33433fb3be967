CONSTANTS
    none = none srv = srv dc = dc files = files Files = Files corp = corp Corp = Corp CORP = CORP
    lab = lab LAB = LAB address = address
    ekey = ekey ikey = ikey example = example redacted = redacted xxx = xxx
    Names <- MCNames Lower <- MCLower Upper <- MCUpper HostNames <- MCHostNames
    Labels <- MCLabels Addresses = {address}
    ExampleDomain = example RedactedHost = redacted RedactedAddress = xxx None = none
    DomainOf <- MCDomainOf Overlap <- MCOverlap
    Articles <- MCArticles LogArticles <- MCLogArticles SELinuxArticles = {"selinux"}
    Patterns <- MCPatterns ConfigPatterns <- MCConfigPatterns
    Folders <- MCFolders
    MaxRuns = 2
SPECIFICATION Spec
CHECK_DEADLOCK FALSE
INVARIANTS HeadlineTellsTheWorst VerdictsAreRight GraphIsWellFormed
           MaskedReportHidesIdentity CrossChecksAreCurrent NoPhantomDelta

CONSTANTS
    Rules = {old, new}
    Scopes = {user, system}
    FirstScope = user
    Documents = {newer, broken}
    Usable = {newer}
    Embedded = shipped
    Targets = {t1, t2}
    Nothing = Nothing
    ReloadIds = {r1, r2}
    MaxRuns = 2
    MaxWrites = 2
SPECIFICATION StudioSpec
SYMMETRY Alike
INVARIANTS
    QuietPanelIsCurrent
    ResultIsOfTheLastRun
    EveryFlagHasACall

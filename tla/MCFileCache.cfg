CONSTANTS
  Analyses = {a1, a2}
  Files = {f1, f2, f3}
  NoFile = NoFile
  Contents = {c1, c2}
  NoLines = NoLines
  MaxFiles = 2
  MaxEdits = 1
SPECIFICATION Spec
SYMMETRY Symmetry
INVARIANTS
  OrderMatchesCache
  StaleOnlyFromOverlap

CONSTANTS
  Savers = {s1, s2}
  Documents = {d1, d2, bad}
  Accepted = {d1, d2}
  Absent = Absent
  Torn = Torn
SPECIFICATION Spec
INVARIANTS
  NoStrayTemp
PROPERTIES
  ReplacedIsBackedUp
  IsAtomic
CHECK_DEADLOCK FALSE

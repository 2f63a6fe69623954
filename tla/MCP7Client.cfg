SPECIFICATION Spec
CONSTANTS
  Threads = {t1, t2, t3}
  Lines = {l1, l2}
SYMMETRY Symmetry
INVARIANTS
  TypeOK
  RefsExact
  NoDanglingUse
  FreedWhenUnused
  OnlyLateLinesLost
PROPERTIES
  FreedForever
CHECK_DEADLOCK FALSE

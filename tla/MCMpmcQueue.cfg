CONSTANTS
  Threads = {t1, t2, t3}
  Capacity = 2
  Items = {i1, i2, i3, i4, i5}
  NoItem = NoItem
SYMMETRY Symmetry
SPECIFICATION Spec
INVARIANTS
  TypeOK Bounded NoDataRace FirstInFirstOut UsableWhenQuiet
PROPERTIES
  ImplementsFifo

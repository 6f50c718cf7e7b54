CONSTANTS
  Threads = {t1, t2}
  Capacity = 1
  Items = {i1, i2, i3}
  NoItem = NoItem
SYMMETRY Symmetry
SPECIFICATION Spec
INVARIANTS
  Bounded

CONSTANTS
  Producers = {p1, p2}
  Consumers = {c1, c2}
  Quota = 3
  Capacity = 2
SPECIFICATION FairSpec
INVARIANTS
  NoRace NothingMissed
PROPERTIES
  AllEnd
